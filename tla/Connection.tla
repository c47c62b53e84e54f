------------------------------ MODULE Connection ------------------------------
(***************************************************************************)
(* Network/DirectConnection.pm: the way from the account server over the   *)
(* character server into the game, and back after a failure.  One poll of  *)
(* the main loop, checkConnection(), runs on a state, a flag and six       *)
(* timers; the servers' answers (Network/Receive.pm) change the same three *)
(* behind its back, and every server is on the same socket.                *)
(***************************************************************************)
EXTENDS Naturals

CONSTANT MaxFaults      \* bound: what goes wrong in one behaviour

ASSUME ConnectionAssumption == MaxFaults \in Nat

Timers == {"master", "ex", "gamelogin", "charlogin", "maplogin", "play"}

Servers == {"account", "char", "map"}

\* the numbers of conState; "quit" is a program that ends
States == {"1", "1.2", "1.3", "2", "2.5", "3", "4", "5", "quit"}

\* what a server has been asked and may still answer
Requests == {"guard", "code", "login", "gamelogin", "charlogin", "maplogin"}

VARIABLES
  state,      \* conState
  tries,      \* conState_tries is set: a connection was opened in this state
  late,       \* the timers that have run out; "ex" is timeout_ex{master}
  sock,       \* the server at the other end of remote_socket, or "none"
  asked,      \* the request under way on it, or "none"
  key,        \* secureLoginKey: "none", or of this ("fresh") or an earlier
              \* ("stale") connection to the account server
  master,     \* the settings of the chosen account server
  faults,     \* how many things have gone wrong
  own,        \* history: the timers started since a connection was last opened
  spared      \* history: "ex" was started, or the user asked to try again,
              \* since the account server was last called

vars == <<state, tries, late, sock, asked, key, master, faults, own, spared>>

Init ==
  /\ state = "1" /\ tries = FALSE /\ late = Timers
  /\ sock = "none" /\ asked = "none" /\ key = "none"
  /\ master \in [secureLogin : BOOLEAN, gameGuard : BOOLEAN]
  /\ faults = 0 /\ own = {} /\ spared = TRUE

-----------------------------------------------------------------------------
Alive == sock # "none"

Fault == faults < MaxFaults /\ faults' = faults + 1

Fine == UNCHANGED faults

Close == sock' = "none" /\ asked' = "none"

Keep == UNCHANGED <<sock, asked>>

\* `T{'time'} = time' for the timers T
Restart(T) ==
  /\ late' = late \ T
  /\ own' = own \cup T
  /\ spared' = (spared \/ "ex" \in T)

\* serverConnect() and the request r over it, which is sent only if somebody
\* is there; T are the timers restarted with it
Open(server, r, T) ==
  /\ late' = late \ T
  /\ own' = T
  /\ \/ sock' = server /\ asked' = r /\ Fine
     \/ Close /\ Fault

-----------------------------------------------------------------------------
(***************************************************************************)
(* checkConnection(), one action for each branch.                          *)
(***************************************************************************)
\* what is sent to an account server that lets us in
LoginRequest == IF master.secureLogin THEN "code" ELSE "login"

\* a key that is left from before
KeepKey == key' = IF key = "none" THEN "none" ELSE "stale"

\* "undef $secureLoginKey" before a key is asked for
ForgetKey == key' = IF master.secureLogin THEN "none" ELSE key

ConnectAccount ==
  /\ state = "1" /\ ~Alive /\ "ex" \in late /\ ~tries
  /\ tries' = TRUE /\ spared' = FALSE
  /\ \/ ~master.gameGuard /\ Open("account", LoginRequest, {"master"})
     \/ master.gameGuard /\ Open("account", "guard", {"master"}) /\ sock' = "none"
     \/ master.gameGuard /\ Open("account", "guard", {}) /\ sock' = "account"
  /\ IF asked' = "code" THEN ForgetKey ELSE KeepKey
  /\ state' = IF asked' = "guard" THEN "1.2" ELSE "1"
  /\ UNCHANGED master

\* the account server has granted the login: go on where ConnectAccount stopped
LogIn ==
  /\ state = "1.3"
  /\ state' = "1" /\ ForgetKey
  /\ asked' = IF Alive THEN LoginRequest ELSE "none"
  /\ Restart({"master"}) /\ Fine
  /\ UNCHANGED <<tries, sock, master>>

SendsPassword ==
  /\ state = "1" /\ master.secureLogin /\ key # "none"
  /\ "master" \notin late /\ tries

SendPassword ==
  /\ SendsPassword
  /\ key' = "none"
  /\ asked' = IF Alive THEN "login" ELSE "none"
  /\ Fine
  /\ UNCHANGED <<state, tries, late, sock, master, own, spared>>

\* the branches that open the connections to the other servers
MustOpen == ~Alive /\ ~tries

ConnectChar ==
  /\ state = "2" /\ MustOpen
  /\ tries' = TRUE
  /\ Open("char", "gamelogin", {"gamelogin"})
  /\ UNCHANGED <<state, key, master, spared>>

ConnectCharSelect ==
  /\ state = "3" /\ MustOpen
  /\ tries' = TRUE
  /\ Open("char", "charlogin", {"charlogin"})
  /\ UNCHANGED <<state, key, master, spared>>

\* mutant: the reconnect timer is not restarted
ConnectMapAtOnce ==
  /\ state = "4" /\ MustOpen
  /\ tries' = TRUE
  /\ Open("map", "maplogin", {"maplogin", "play"})
  /\ UNCHANGED <<state, key, master, spared>>

\* "play" by initConnectVars(), which calls initMapChangeVars()
ConnectMap ==
  /\ state = "4" /\ MustOpen
  /\ tries' = TRUE
  /\ Open("map", "maplogin", {"ex", "maplogin", "play"})
  /\ spared' = TRUE
  /\ UNCHANGED <<state, key, master>>

Disconnected ==
  /\ state = "5" /\ ~Alive
  /\ tries' = FALSE
  /\ state' \in {"1", "quit"}       \* dcOnDisconnect
  /\ Restart({"ex"}) /\ Fine
  /\ UNCHANGED <<sock, asked, key, master>>

\* the timer each state waits for
TimerOf == [s \in {"1", "2", "3", "4", "5"} |->
              CASE s = "1" -> "master"
                [] s = "2" -> "gamelogin"
                [] s = "3" -> "charlogin"
                [] s = "4" -> "maplogin"
                [] s = "5" -> "play"]

TimesOut ==
  /\ state \in {"1", "2", "3", "4", "5"}
  /\ TimerOf[state] \in late
  /\ state = "1" => "ex" \in late
  /\ state # "5" => ~MustOpen
  /\ state = "5" => Alive

\* mutant: "undef $conState_tries" is missing
TimeOutTried ==
  /\ TimesOut
  /\ state' \in {"1"} \cup IF state = "5" THEN {"quit"} ELSE {}
  /\ Close /\ Fine
  /\ Restart(IF state = "4" THEN {} ELSE {"ex"})
  /\ UNCHANGED <<tries, key, master>>

\* the five branches that give up; only the map server's does not restart "ex"
TimeOut ==
  /\ TimesOut
  /\ state' \in {"1"} \cup IF state = "5" THEN {"quit"} ELSE {}
  /\ tries' = FALSE
  /\ Close /\ Fine
  /\ Restart(IF state = "4" THEN {} ELSE {"ex"})
  /\ UNCHANGED <<key, master>>

Check ==
  \/ ConnectAccount \/ LogIn \/ SendPassword \/ ConnectChar
  \/ ConnectCharSelect \/ ConnectMap \/ Disconnected \/ TimeOut

-----------------------------------------------------------------------------
(***************************************************************************)
(* The servers' answers, each with its handler.                            *)
(***************************************************************************)
Answered(server, r) == sock = server /\ asked = r

secure_login_key ==
  /\ Answered("account", "code")
  /\ key' = "fresh" /\ asked' = "none" /\ Fine
  /\ UNCHANGED <<state, tries, late, sock, master, own, spared>>

\* mutant: into the state that belongs to plugins
gameguard_grant_special ==
  /\ Answered("account", "guard")
  /\ asked' = "none"
  /\ \/ state = "1.2" /\ state' = "1.5" /\ Fine
     \/ UNCHANGED state /\ Fault
  /\ UNCHANGED <<tries, late, sock, key, master, own, spared>>

gameguard_grant ==
  /\ Answered("account", "guard")
  /\ asked' = "none"
  /\ \/ state = "1.2" /\ state' = "1.3" /\ Fine
     \/ UNCHANGED state /\ Fault          \* denied
  /\ UNCHANGED <<tries, late, sock, key, master, own, spared>>

\* the character server's grant, and the account ID after it
gameguard_grant_char ==
  /\ Answered("char", "gamelogin") /\ master.gameGuard
  /\ \/ state = "2" /\ state' = "2.5"
     \/ state = "2.5" /\ state' = "2"
  /\ Fine
  /\ UNCHANGED <<tries, late, sock, asked, key, master, own, spared>>

\* mutant: the connection to the account server stays open
account_server_info_open ==
  /\ Answered("account", "login")
  /\ state' = "2" /\ tries' = FALSE
  /\ asked' = "none" /\ Fine
  /\ UNCHANGED <<late, sock, key, master, own, spared>>

account_server_info ==
  /\ Answered("account", "login")
  /\ state' = "2" /\ tries' = FALSE
  /\ Close /\ Fine
  /\ UNCHANGED <<late, key, master, own, spared>>

\* mutant: the time-out of the character server is not restarted
received_characters_timing ==
  /\ Answered("char", "gamelogin") /\ state = "2"
  /\ state' = "3" /\ tries' = FALSE
  /\ asked' = "charlogin" /\ Fine
  /\ UNCHANGED <<late, sock, key, master, own, spared>>

\* with charSelectScreen(), which logs the configured character in
received_characters ==
  /\ Answered("char", "gamelogin") /\ state = "2"
  /\ state' = "3" /\ tries' = FALSE
  /\ asked' = "charlogin"
  /\ Restart({"charlogin"}) /\ Fine
  /\ UNCHANGED <<sock, key, master>>

received_character_ID_and_Map ==
  /\ Answered("char", "charlogin")
  /\ state' = "4" /\ tries' = FALSE
  /\ Close /\ Fine
  /\ UNCHANGED <<late, key, master, own, spared>>

map_loaded ==
  /\ Answered("map", "maplogin")
  /\ state' = "5" /\ tries' = FALSE
  /\ asked' = "none" /\ Fine
  /\ UNCHANGED <<late, sock, key, master, own, spared>>

\* the character goes to another map server; also from one that has said that
\* it is shutting down
map_changed ==
  /\ sock = "map" /\ asked = "none" /\ state \in {"1", "5"}
  /\ state' = "4" /\ tries' = FALSE
  /\ Close /\ Fine
  /\ UNCHANGED <<late, key, master, own, spared>>

received_sync ==
  /\ sock = "map" /\ asked = "none"
  /\ Restart({"play"}) /\ Fine
  /\ UNCHANGED <<state, tries, sock, asked, key, master>>

Answer ==
  \/ secure_login_key \/ gameguard_grant \/ gameguard_grant_char
  \/ account_server_info \/ received_characters
  \/ received_character_ID_and_Map \/ map_loaded

-----------------------------------------------------------------------------
(***************************************************************************)
(* Refusals, the user, and the network.                                    *)
(***************************************************************************)
\* any server ends the session; "server shutting down" leaves the socket open
errors ==
  /\ Alive /\ Fault
  /\ state' \in {"1"} \cup IF state = "5" THEN {"quit"} ELSE {}
  /\ tries' = FALSE
  /\ Restart({"ex"})
  /\ Close \/ (sock' = sock /\ asked' = "none")
  /\ UNCHANGED <<key, master>>

relog ==
  /\ state' = "1" /\ tries' = FALSE
  /\ Restart({"ex"}) /\ Close
  /\ UNCHANGED <<key, master>>

\* wait for the time-out; name or password typed again; wrong settings; blocked
login_error ==
  /\ Answered("account", "login") /\ Fault
  /\ \/ Close /\ UNCHANGED <<state, tries, late, key, master, own, spared>>
     \/ /\ Close
        /\ tries' = FALSE /\ late' = late \cup {"ex"} /\ spared' = TRUE
        /\ UNCHANGED <<state, key, master, own>>
     \/ relog
     \/ Close /\ state' = "quit" /\ UNCHANGED <<tries, late, key, master, own, spared>>

login_error_game_login_server ==
  /\ Fault
  /\ Answered("char", "gamelogin") \/ Answered("char", "charlogin")
  /\ relog

\* the command, a break time, or the restart after so many seconds
Relog == state # "quit" /\ Fault /\ relog

Break ==
  /\ Alive /\ Fault
  /\ Close
  /\ UNCHANGED <<state, tries, late, key, master, own, spared>>

\* a server that does not answer
Ignore ==
  /\ asked # "none" /\ Fault
  /\ asked' = "none"
  /\ UNCHANGED <<state, tries, late, sock, key, master, own, spared>>

-----------------------------------------------------------------------------
\* A timer that runs out before the answer came, or the key was used, is a slow
\* server; while the game is on, it is a silent one.
Slow(t) ==
  \/ asked # "none" /\ t # "ex"
  \/ t = "master" /\ SendsPassword
  \/ t = "play"

Expire(t) ==
  /\ t \notin late /\ state # "quit"
  /\ IF Slow(t) THEN Fault ELSE Fine
  /\ late' = late \cup {t}
  /\ UNCHANGED <<state, tries, sock, asked, key, master, own, spared>>

Next ==
  \/ state # "quit" /\ (Check \/ Answer \/ map_changed \/ received_sync)
  \/ state # "quit" /\ (errors \/ login_error \/ login_error_game_login_server)
  \/ Relog \/ Break \/ Ignore
  \/ \E t \in Timers : Expire(t)

Spec == Init /\ [][Next]_vars

(***************************************************************************)
(* The main loop polls for ever, time passes, and a server that has been   *)
(* asked answers (when it does not, that is Ignore).                       *)
(***************************************************************************)
Fairness ==
  /\ WF_vars(state # "quit" /\ Check)
  /\ WF_vars(state # "quit" /\ Answer)
  /\ \A t \in Timers : WF_vars(Expire(t))

FairSpec == Spec /\ Fairness

-----------------------------------------------------------------------------
\* Every variable has its type.
TypeOK ==
  /\ state \in States
  /\ tries \in BOOLEAN
  /\ late \in SUBSET Timers
  /\ sock \in Servers \cup {"none"}
  /\ asked \in Requests \cup {"none"}
  /\ key \in {"none", "fresh", "stale"}
  /\ master \in [secureLogin : BOOLEAN, gameGuard : BOOLEAN]
  /\ faults \in 0 .. MaxFaults
  /\ own \in SUBSET Timers
  /\ spared \in BOOLEAN

\* The password is encoded with a key of the connection it is sent over
\* (line 406), though a key may arrive too late to be used and a reconnect may
\* be refused before the next one is asked for.
KeyIsFresh == SendsPassword /\ Alive => key = "fresh"

\* Between two calls of the account server the reconnect timer was started, or
\* the user typed the name or the password again, whichever way the first one
\* failed: line 301 never calls it again without a pause between the calls.  (The
\* map server's time-out starts no timer: the pause is counted from ConnectMap.)
AccountServerSpared ==
  state = "1" /\ ~Alive /\ "ex" \in late /\ ~tries => spared

\* A login step is given up because its own timer ran out, started since its
\* connection was opened, and never because of what an earlier login left
\* behind.  What remains of a session that errors() ended is no login step.
OwnTimeOut ==
  TimesOut /\ (state = "1" => tries) => TimerOf[state] \in own

\* The socket is the server's the state is about: no request and no answer goes
\* to or comes from another one.  In state 1 it may still be that of the server
\* that is shutting down.
RightServer ==
  /\ state \in {"1.2", "1.3"} => sock \in {"account", "none"}
  /\ state \in {"2", "2.5", "3"} => sock \in {"char", "none"}
  /\ state \in {"4", "5"} => sock \in {"map", "none"}
  /\ state = "1" /\ tries => sock \in {"account", "none"}

\* When nothing goes wrong any more, the character gets into the game, and
\* again after each change of map, unless the program has ended.  Without
\* GameGuard only: states 1.2 and 2.5 have no branch in checkConnection(), and
\* nothing leads on when the connection is lost in them.
InGameAgain == ~master.gameGuard => []<>(state \in {"5", "quit"})
=============================================================================
