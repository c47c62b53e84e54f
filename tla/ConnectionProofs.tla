-------------------------- MODULE ConnectionProofs --------------------------
(***************************************************************************)
(* The safety of Connection, for any number of faults: one inductive       *)
(* invariant, from which each property of the run follows.                 *)
(***************************************************************************)
EXTENDS Connection, TLAPS

USE ConnectionAssumption

\* With a key in use the connection was asked for it after the last undef.
KeyInv ==
  state = "1" /\ master.secureLogin /\ tries /\ Alive => key # "stale"

\* Whoever may call the account server next was delayed; the map server's
\* time-out does not restart the timer, so it must have been before.
SparedInv ==
  /\ state = "1" /\ ~tries => spared = TRUE
  /\ state \in {"1.2", "1.3"} => tries = TRUE /\ asked # "login"
  /\ state = "4" /\ tries => spared = TRUE
  /\ state = "4" /\ ~tries => ~Alive

\* An attempt under way has started its timer.
OwnInv ==
  /\ state = "1" /\ tries => "master" \in own
  /\ state \in {"2", "2.5"} /\ ~MustOpen => "gamelogin" \in own
  /\ state = "3" /\ ~MustOpen => "charlogin" \in own
  /\ state = "4" /\ ~MustOpen => "maplogin" \in own
  /\ sock = "map" => "play" \in own

Inductive == KeyInv /\ SparedInv /\ OwnInv /\ RightServer

Inv == TypeOK /\ Inductive

-----------------------------------------------------------------------------
LEMMA InitInv == Init => Inv
<1> SUFFICES ASSUME Init PROVE Inv
  OBVIOUS
<1>1. TypeOK
  <2>1. faults \in 0 .. MaxFaults
    BY DEF Init
  <2>2. tries \in BOOLEAN /\ spared \in BOOLEAN
    BY DEF Init
  <2>3. QED
    BY <2>1, <2>2 DEF Init, TypeOK, States, Servers, Requests
<1>2. Inductive
  BY DEF Init, Inductive, KeyInv, SparedInv, OwnInv, RightServer, Alive, MustOpen
<1>3. QED
  BY <1>1, <1>2 DEF Inv

LEMMA TypeStep == Inv /\ [Next]_vars => TypeOK'
<1> SUFFICES ASSUME Inv, [Next]_vars PROVE TypeOK'
  OBVIOUS
<1> USE DEF Inv, TypeOK, States, Servers, Requests, Timers
<1>1. CASE ConnectAccount
  <2>1. faults' \in 0 .. MaxFaults
    BY <1>1 DEF ConnectAccount, Open, Fault, Fine
  <2>2. /\ late' \in SUBSET Timers /\ own' \in SUBSET Timers
        /\ spared' \in BOOLEAN /\ tries' \in BOOLEAN
    BY <1>1 DEF ConnectAccount, Open, Close
  <2>3. /\ state' \in States /\ key' \in {"none", "fresh", "stale"}
        /\ sock' \in Servers \cup {"none"} /\ asked' \in Requests \cup {"none"}
        /\ master' \in [secureLogin : BOOLEAN, gameGuard : BOOLEAN]
    BY <1>1 DEF ConnectAccount, Open, ForgetKey, KeepKey, LoginRequest, Close
  <2>4. QED
    BY <2>1, <2>2, <2>3
<1>2. CASE LogIn
  BY <1>2 DEF LogIn, ForgetKey, LoginRequest, Restart, Fine
<1>3. CASE SendPassword
  BY <1>3 DEF SendPassword, SendsPassword, Fine
<1>4. CASE ConnectChar
  BY <1>4 DEF ConnectChar, MustOpen, Open, Close, Fault, Fine
<1>5. CASE ConnectCharSelect
  BY <1>5 DEF ConnectCharSelect, MustOpen, Open, Close, Fault, Fine
<1>6. CASE ConnectMap
  BY <1>6 DEF ConnectMap, MustOpen, Open, Close, Fault, Fine
<1>7. CASE Disconnected
  BY <1>7 DEF Disconnected, Restart, Fine
<1>8. CASE TimeOut
  BY <1>8 DEF TimeOut, TimesOut, TimerOf, MustOpen, Restart, Close, Fine
<1>9. CASE secure_login_key
  BY <1>9 DEF secure_login_key, Answered, Fine
<1>10. CASE gameguard_grant
  BY <1>10 DEF gameguard_grant, Answered, Fault, Fine
<1>11. CASE gameguard_grant_char
  BY <1>11 DEF gameguard_grant_char, Answered, Fine
<1>12. CASE account_server_info
  BY <1>12 DEF account_server_info, Answered, Close, Fine
<1>13. CASE received_characters
  BY <1>13 DEF received_characters, Answered, Restart, Fine
<1>14. CASE received_character_ID_and_Map
  BY <1>14 DEF received_character_ID_and_Map, Answered, Close, Fine
<1>15. CASE map_loaded
  BY <1>15 DEF map_loaded, Answered, Fine
<1>16. CASE map_changed
  BY <1>16 DEF map_changed, Close, Fine
<1>17. CASE received_sync
  BY <1>17 DEF received_sync, Restart, Fine
<1>18. CASE errors
  <2>1. faults' \in 0 .. MaxFaults
    BY <1>18 DEF errors, Fault
  <2>2. /\ late' \in SUBSET Timers /\ own' \in SUBSET Timers
        /\ spared' \in BOOLEAN /\ tries' \in BOOLEAN
    BY <1>18 DEF errors, Restart, Close
  <2>3. /\ state' \in States /\ key' \in {"none", "fresh", "stale"}
        /\ sock' \in Servers \cup {"none"} /\ asked' \in Requests \cup {"none"}
        /\ master' \in [secureLogin : BOOLEAN, gameGuard : BOOLEAN]
    BY <1>18 DEF errors, Close
  <2>4. QED
    BY <2>1, <2>2, <2>3
<1>19. CASE login_error
  <2>1. faults' \in 0 .. MaxFaults
    BY <1>19 DEF login_error, relog, Fault
  <2>2. /\ late' \in SUBSET Timers /\ own' \in SUBSET Timers
        /\ spared' \in BOOLEAN /\ tries' \in BOOLEAN
    BY <1>19 DEF login_error, Close, Restart, relog
  <2>3. /\ state' \in States /\ key' \in {"none", "fresh", "stale"}
        /\ sock' \in Servers \cup {"none"} /\ asked' \in Requests \cup {"none"}
        /\ master' \in [secureLogin : BOOLEAN, gameGuard : BOOLEAN]
    BY <1>19 DEF login_error, Close, relog
  <2>4. QED
    BY <2>1, <2>2, <2>3
<1>20. CASE login_error_game_login_server
  <2>1. faults' \in 0 .. MaxFaults
    BY <1>20 DEF login_error_game_login_server, relog, Fault
  <2>2. /\ late' \in SUBSET Timers /\ own' \in SUBSET Timers
        /\ spared' \in BOOLEAN /\ tries' \in BOOLEAN
    BY <1>20 DEF login_error_game_login_server, Close, Restart, relog
  <2>3. /\ state' \in States /\ key' \in {"none", "fresh", "stale"}
        /\ sock' \in Servers \cup {"none"} /\ asked' \in Requests \cup {"none"}
        /\ master' \in [secureLogin : BOOLEAN, gameGuard : BOOLEAN]
    BY <1>20 DEF login_error_game_login_server, Close, relog
  <2>4. QED
    BY <2>1, <2>2, <2>3
<1>21. CASE Relog
  <2>1. faults' \in 0 .. MaxFaults
    BY <1>21 DEF Relog, relog, Fault
  <2>2. /\ late' \in SUBSET Timers /\ own' \in SUBSET Timers
        /\ spared' \in BOOLEAN /\ tries' \in BOOLEAN
    BY <1>21 DEF Relog, Close, Restart, relog
  <2>3. /\ state' \in States /\ key' \in {"none", "fresh", "stale"}
        /\ sock' \in Servers \cup {"none"} /\ asked' \in Requests \cup {"none"}
        /\ master' \in [secureLogin : BOOLEAN, gameGuard : BOOLEAN]
    BY <1>21 DEF Relog, Close, relog
  <2>4. QED
    BY <2>1, <2>2, <2>3
<1>22. CASE Break
  BY <1>22 DEF Break, Close, Fault
<1>23. CASE Ignore
  BY <1>23 DEF Ignore, Fault
<1>24. CASE \E t \in Timers : Expire(t)
  BY <1>24 DEF Expire, Slow, Fault, Fine
<1>25. CASE UNCHANGED vars
  BY <1>25 DEF vars
<1>26. QED
  BY <1>1, <1>2, <1>3, <1>4, <1>5, <1>6, <1>7, <1>8, <1>9, <1>10, <1>11,
     <1>12, <1>13, <1>14, <1>15, <1>16, <1>17, <1>18, <1>19, <1>20, <1>21,
     <1>22, <1>23, <1>24, <1>25 DEF Next, Check, Answer

LEMMA KeyStep == Inv /\ [Next]_vars => KeyInv'
<1> SUFFICES ASSUME Inv, [Next]_vars PROVE KeyInv'
  OBVIOUS
<1> USE DEF Inv, Inductive, TypeOK, KeyInv, Alive
<1>1. CASE ConnectAccount
  BY <1>1 DEF ConnectAccount, Open, ForgetKey, KeepKey, LoginRequest, Close, Fault, Fine
<1>2. CASE LogIn
  BY <1>2 DEF LogIn, ForgetKey, LoginRequest, Restart, Fine
<1>3. CASE SendPassword
  BY <1>3 DEF SendPassword, SendsPassword, Fine
<1>4. CASE ConnectChar
  BY <1>4 DEF ConnectChar, MustOpen, Open, Close, Fault, Fine
<1>5. CASE ConnectCharSelect
  BY <1>5 DEF ConnectCharSelect, MustOpen, Open, Close, Fault, Fine
<1>6. CASE ConnectMap
  BY <1>6 DEF ConnectMap, MustOpen, Open, Close, Fault, Fine
<1>7. CASE Disconnected
  BY <1>7 DEF Disconnected, Restart, Fine
<1>8. CASE TimeOut
  BY <1>8 DEF TimeOut, TimesOut, TimerOf, MustOpen, Restart, Close, Fine
<1>9. CASE secure_login_key
  BY <1>9 DEF secure_login_key, Answered, Fine
<1>10. CASE gameguard_grant
  BY <1>10 DEF gameguard_grant, Answered, Fault, Fine
<1>11. CASE gameguard_grant_char
  BY <1>11 DEF gameguard_grant_char, Answered, Fine
<1>12. CASE account_server_info
  BY <1>12 DEF account_server_info, Answered, Close, Fine
<1>13. CASE received_characters
  BY <1>13 DEF received_characters, Answered, Restart, Fine
<1>14. CASE received_character_ID_and_Map
  BY <1>14 DEF received_character_ID_and_Map, Answered, Close, Fine
<1>15. CASE map_loaded
  BY <1>15 DEF map_loaded, Answered, Fine
<1>16. CASE map_changed
  BY <1>16 DEF map_changed, Close, Fine
<1>17. CASE received_sync
  BY <1>17 DEF received_sync, Restart, Fine
<1>18. CASE errors
  BY <1>18 DEF errors, Restart, Close, Fault
<1>19. CASE login_error
  BY <1>19 DEF login_error, Answered, Close, Restart, relog, Fault
<1>20. CASE login_error_game_login_server
  BY <1>20 DEF login_error_game_login_server, Answered, Close, Restart, relog, Fault
<1>21. CASE Relog
  BY <1>21 DEF Relog, Close, Restart, relog, Fault
<1>22. CASE Break
  BY <1>22 DEF Break, Close, Fault
<1>23. CASE Ignore
  BY <1>23 DEF Ignore, Fault
<1>24. CASE \E t \in Timers : Expire(t)
  BY <1>24 DEF Expire, Slow, Fault, Fine
<1>25. CASE UNCHANGED vars
  BY <1>25 DEF vars
<1>26. QED
  BY <1>1, <1>2, <1>3, <1>4, <1>5, <1>6, <1>7, <1>8, <1>9, <1>10, <1>11,
     <1>12, <1>13, <1>14, <1>15, <1>16, <1>17, <1>18, <1>19, <1>20, <1>21,
     <1>22, <1>23, <1>24, <1>25 DEF Next, Check, Answer

LEMMA SparedStep == Inv /\ [Next]_vars => SparedInv'
<1> SUFFICES ASSUME Inv, [Next]_vars PROVE SparedInv'
  OBVIOUS
<1> USE DEF Inv, Inductive, TypeOK, SparedInv, Alive
<1>1. CASE ConnectAccount
  BY <1>1 DEF ConnectAccount, Open, ForgetKey, KeepKey, LoginRequest, Close, Fault, Fine
<1>2. CASE LogIn
  BY <1>2 DEF LogIn, ForgetKey, LoginRequest, Restart, Fine
<1>3. CASE SendPassword
  BY <1>3 DEF SendPassword, SendsPassword, Fine
<1>4. CASE ConnectChar
  BY <1>4 DEF ConnectChar, MustOpen, Open, Close, Fault, Fine
<1>5. CASE ConnectCharSelect
  BY <1>5 DEF ConnectCharSelect, MustOpen, Open, Close, Fault, Fine
<1>6. CASE ConnectMap
  BY <1>6 DEF ConnectMap, MustOpen, Open, Close, Fault, Fine
<1>7. CASE Disconnected
  BY <1>7 DEF Disconnected, Restart, Fine
<1>8. CASE TimeOut
  BY <1>8 DEF TimeOut, TimesOut, TimerOf, MustOpen, Restart, Close, Fine
<1>9. CASE secure_login_key
  BY <1>9 DEF secure_login_key, Answered, Fine
<1>10. CASE gameguard_grant
  BY <1>10 DEF gameguard_grant, Answered, Fault, Fine
<1>11. CASE gameguard_grant_char
  BY <1>11 DEF gameguard_grant_char, Answered, Fine
<1>12. CASE account_server_info
  BY <1>12 DEF account_server_info, Answered, Close, Fine
<1>13. CASE received_characters
  BY <1>13 DEF received_characters, Answered, Restart, Fine
<1>14. CASE received_character_ID_and_Map
  BY <1>14 DEF received_character_ID_and_Map, Answered, Close, Fine
<1>15. CASE map_loaded
  BY <1>15 DEF map_loaded, Answered, Fine
<1>16. CASE map_changed
  BY <1>16 DEF map_changed, Close, Fine
<1>17. CASE received_sync
  BY <1>17 DEF received_sync, Restart, Fine
<1>18. CASE errors
  BY <1>18 DEF errors, Restart, Close, Fault
<1>19. CASE login_error
  <2>1. CASE relog
    BY <2>1 DEF relog, Restart, Close
  <2>2. CASE state' = state /\ tries' = FALSE /\ spared' = TRUE /\ Close
    BY <1>19, <2>2 DEF login_error, Answered, Close
  <2>3. CASE state' \in {state, "quit"} /\ Close /\ UNCHANGED <<tries, spared>>
    BY <2>3 DEF Close
  <2>4. QED
    BY <1>19, <2>1, <2>2, <2>3 DEF login_error
<1>20. CASE login_error_game_login_server
  BY <1>20 DEF login_error_game_login_server, Answered, Close, Restart, relog, Fault
<1>21. CASE Relog
  BY <1>21 DEF Relog, Close, Restart, relog, Fault
<1>22. CASE Break
  BY <1>22 DEF Break, Close, Fault
<1>23. CASE Ignore
  BY <1>23 DEF Ignore, Fault
<1>24. CASE \E t \in Timers : Expire(t)
  BY <1>24 DEF Expire, Slow, Fault, Fine
<1>25. CASE UNCHANGED vars
  BY <1>25 DEF vars
<1>26. QED
  BY <1>1, <1>2, <1>3, <1>4, <1>5, <1>6, <1>7, <1>8, <1>9, <1>10, <1>11,
     <1>12, <1>13, <1>14, <1>15, <1>16, <1>17, <1>18, <1>19, <1>20, <1>21,
     <1>22, <1>23, <1>24, <1>25 DEF Next, Check, Answer

LEMMA OwnStep == Inv /\ [Next]_vars => OwnInv'
<1> SUFFICES ASSUME Inv, [Next]_vars PROVE OwnInv'
  OBVIOUS
<1> USE DEF Inv, Inductive, TypeOK, OwnInv, RightServer, Alive, MustOpen
<1>1. CASE ConnectAccount
  BY <1>1 DEF ConnectAccount, Open, ForgetKey, KeepKey, LoginRequest, Close, Fault, Fine
<1>2. CASE LogIn
  BY <1>2 DEF LogIn, ForgetKey, LoginRequest, Restart, Fine
<1>3. CASE SendPassword
  BY <1>3 DEF SendPassword, SendsPassword, Fine
<1>4. CASE ConnectChar
  BY <1>4 DEF ConnectChar, Open, Close, Fault, Fine
<1>5. CASE ConnectCharSelect
  BY <1>5 DEF ConnectCharSelect, Open, Close, Fault, Fine
<1>6. CASE ConnectMap
  BY <1>6 DEF ConnectMap, Open, Close, Fault, Fine
<1>7. CASE Disconnected
  BY <1>7 DEF Disconnected, Restart, Fine
<1>8. CASE TimeOut
  BY <1>8 DEF TimeOut, TimesOut, TimerOf, Restart, Close, Fine
<1>9. CASE secure_login_key
  BY <1>9 DEF secure_login_key, Answered, Fine
<1>10. CASE gameguard_grant
  BY <1>10 DEF gameguard_grant, Answered, Fault, Fine
<1>11. CASE gameguard_grant_char
  BY <1>11 DEF gameguard_grant_char, Answered, Fine
<1>12. CASE account_server_info
  BY <1>12 DEF account_server_info, Answered, Close, Fine
<1>13. CASE received_characters
  BY <1>13 DEF received_characters, Answered, Restart, Fine
<1>14. CASE received_character_ID_and_Map
  BY <1>14 DEF received_character_ID_and_Map, Answered, Close, Fine
<1>15. CASE map_loaded
  BY <1>15 DEF map_loaded, Answered, Fine
<1>16. CASE map_changed
  BY <1>16 DEF map_changed, Close, Fine
<1>17. CASE received_sync
  BY <1>17 DEF received_sync, Restart, Fine
<1>18. CASE errors
  BY <1>18 DEF errors, Restart, Close, Fault
<1>19. CASE login_error
  BY <1>19 DEF login_error, Answered, Close, Restart, relog, Fault
<1>20. CASE login_error_game_login_server
  BY <1>20 DEF login_error_game_login_server, Answered, Close, Restart, relog, Fault
<1>21. CASE Relog
  BY <1>21 DEF Relog, Close, Restart, relog, Fault
<1>22. CASE Break
  BY <1>22 DEF Break, Close, Fault
<1>23. CASE Ignore
  BY <1>23 DEF Ignore, Fault
<1>24. CASE \E t \in Timers : Expire(t)
  BY <1>24 DEF Expire, Slow, Fault, Fine
<1>25. CASE UNCHANGED vars
  BY <1>25 DEF vars
<1>26. QED
  BY <1>1, <1>2, <1>3, <1>4, <1>5, <1>6, <1>7, <1>8, <1>9, <1>10, <1>11,
     <1>12, <1>13, <1>14, <1>15, <1>16, <1>17, <1>18, <1>19, <1>20, <1>21,
     <1>22, <1>23, <1>24, <1>25 DEF Next, Check, Answer

LEMMA ServerStep == Inv /\ [Next]_vars => RightServer'
<1> SUFFICES ASSUME Inv, [Next]_vars PROVE RightServer'
  OBVIOUS
<1> USE DEF Inv, Inductive, TypeOK, RightServer, Servers, Alive
<1>1. CASE ConnectAccount
  BY <1>1 DEF ConnectAccount, Open, ForgetKey, KeepKey, LoginRequest, Close, Fault, Fine
<1>2. CASE LogIn
  BY <1>2 DEF LogIn, ForgetKey, LoginRequest, Restart, Fine
<1>3. CASE SendPassword
  BY <1>3 DEF SendPassword, SendsPassword, Fine
<1>4. CASE ConnectChar
  BY <1>4 DEF ConnectChar, MustOpen, Open, Close, Fault, Fine
<1>5. CASE ConnectCharSelect
  BY <1>5 DEF ConnectCharSelect, MustOpen, Open, Close, Fault, Fine
<1>6. CASE ConnectMap
  BY <1>6 DEF ConnectMap, MustOpen, Open, Close, Fault, Fine
<1>7. CASE Disconnected
  BY <1>7 DEF Disconnected, Restart, Fine
<1>8. CASE TimeOut
  BY <1>8 DEF TimeOut, TimesOut, TimerOf, MustOpen, Restart, Close, Fine
<1>9. CASE secure_login_key
  BY <1>9 DEF secure_login_key, Answered, Fine
<1>10. CASE gameguard_grant
  BY <1>10 DEF gameguard_grant, Answered, Fault, Fine
<1>11. CASE gameguard_grant_char
  BY <1>11 DEF gameguard_grant_char, Answered, Fine
<1>12. CASE account_server_info
  BY <1>12 DEF account_server_info, Answered, Close, Fine
<1>13. CASE received_characters
  BY <1>13 DEF received_characters, Answered, Restart, Fine
<1>14. CASE received_character_ID_and_Map
  BY <1>14 DEF received_character_ID_and_Map, Answered, Close, Fine
<1>15. CASE map_loaded
  BY <1>15 DEF map_loaded, Answered, Fine
<1>16. CASE map_changed
  BY <1>16 DEF map_changed, Close, Fine
<1>17. CASE received_sync
  BY <1>17 DEF received_sync, Restart, Fine
<1>18. CASE errors
  BY <1>18 DEF errors, Restart, Close, Fault
<1>19. CASE login_error
  BY <1>19 DEF login_error, Answered, Close, Restart, relog, Fault
<1>20. CASE login_error_game_login_server
  BY <1>20 DEF login_error_game_login_server, Answered, Close, Restart, relog, Fault
<1>21. CASE Relog
  BY <1>21 DEF Relog, Close, Restart, relog, Fault
<1>22. CASE Break
  BY <1>22 DEF Break, Close, Fault
<1>23. CASE Ignore
  BY <1>23 DEF Ignore, Fault
<1>24. CASE \E t \in Timers : Expire(t)
  BY <1>24 DEF Expire, Slow, Fault, Fine
<1>25. CASE UNCHANGED vars
  BY <1>25 DEF vars
<1>26. QED
  BY <1>1, <1>2, <1>3, <1>4, <1>5, <1>6, <1>7, <1>8, <1>9, <1>10, <1>11,
     <1>12, <1>13, <1>14, <1>15, <1>16, <1>17, <1>18, <1>19, <1>20, <1>21,
     <1>22, <1>23, <1>24, <1>25 DEF Next, Check, Answer

\* The invariant, for any number of faults.
THEOREM InductiveHolds == Spec => []Inv
<1>1. Init => Inv
  BY InitInv
<1>2. Inv /\ [Next]_vars => Inv'
  BY TypeStep, KeyStep, SparedStep, OwnStep, ServerStep DEF Inv, Inductive
<1>3. QED
  BY <1>1, <1>2, PTL DEF Spec

\* Every variable has its type, whatever order the timers and answers come in.
THEOREM TypeCorrect == Spec => []TypeOK
<1>1. Inv => TypeOK
  BY DEF Inv
<1>2. QED
  BY <1>1, InductiveHolds, PTL

\* The password is never encoded with a key of an earlier connection.
THEOREM KeyIsFreshHolds == Spec => []KeyIsFresh
<1>1. Inv => KeyIsFresh
  BY DEF Inv, TypeOK, Inductive, KeyInv, KeyIsFresh, SendsPassword
<1>2. QED
  BY <1>1, InductiveHolds, PTL

\* The account server is never called twice without a delay between, unless the
\* user asks for it.
THEOREM AccountServerSparedHolds == Spec => []AccountServerSpared
<1>1. Inv => AccountServerSpared
  BY DEF Inv, TypeOK, Inductive, SparedInv, AccountServerSpared
<1>2. QED
  BY <1>1, InductiveHolds, PTL

\* A login step is only given up by a timer that was started for it.
THEOREM OwnTimeOutHolds == Spec => []OwnTimeOut
<1>1. Inv => OwnTimeOut
  BY DEF Inv, TypeOK, Inductive, OwnInv, RightServer, OwnTimeOut,
         TimesOut, TimerOf, MustOpen, Alive
<1>2. QED
  BY <1>1, InductiveHolds, PTL

\* The socket is always that of the server the state is about.
THEOREM RightServerHolds == Spec => []RightServer
<1>1. Inv => RightServer
  BY DEF Inv, Inductive
<1>2. QED
  BY <1>1, InductiveHolds, PTL
=============================================================================
