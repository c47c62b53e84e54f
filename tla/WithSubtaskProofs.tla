------------------------- MODULE WithSubtaskProofs -------------------------
(***************************************************************************)
(* What the operations of WithSubtask do to the four tasks, field by       *)
(* field, and who takes part in each.                                      *)
(***************************************************************************)
EXTENDS WithSubtask, TLAPS

USE DEF Task, Wrapper, Mutex, Status

-----------------------------------------------------------------------------
(* The stack.                                                                *)

LEMMA BetweenIs ==
    /\ Between["skill"]["report"] = {"report"}
    /\ Between["chain"]["skill"] = {"skill"}
    /\ Between["chain"]["report"] = {"report", "skill"}
    /\ Between["stand"]["chain"] = {"chain"}
    /\ Between["stand"]["skill"] = {"skill", "chain"}
    /\ Between["stand"]["report"] = Wrapper
BY DEF Between, Level

\* The lists that change with one in the stack, bottom excluded.
LEMMA FollowersIs ==
    ASSUME NEW listens
    PROVE  /\ Followers(listens, "report") = {}
           /\ Followers(listens, "skill") = {"report"} \intersect listens
           /\ Followers(listens, "chain") =
                IF "skill" \in listens THEN {"report", "skill"} \intersect listens ELSE {}
<1>1. \A w \in Wrapper : ~(Level["report"] < Level[w])
  BY DEF Level
<1>2. \A w \in Wrapper : Level["skill"] < Level[w] <=> w = "report"
  BY DEF Level
<1>3. \A w \in Wrapper : Level["chain"] < Level[w] <=> w \in {"report", "skill"}
  BY DEF Level
<1> QED
  BY <1>1, <1>2, <1>3, BetweenIs DEF Followers

\* Whom a call to the report or to the chain is passed on to.
LEMMA ReachedIs ==
    ASSUME NEW o
    PROVE  /\ o.sub = {} => Reached(o, "report") = {"report"}
           /\ "report" \notin o.sub => Reached(o, "report") = {"report"}
           /\ o.sub = {"report"} => Reached(o, "report") = {"report", "skill"}
           /\ o.sub = Wrapper => Reached(o, "report") = Task
           /\ o.sub = Wrapper => Reached(o, "chain") = {"chain", "stand"}
<1>1. \A u \in Task : /\ Level[u] < Level["report"] <=> u # "report"
                      /\ Level[u] < Level["chain"] <=> u = "stand"
  BY DEF Level
<1>2. \A u \in Task \ {"report"} : Between[u]["report"] \subseteq Wrapper
                                   /\ "report" \in Between[u]["report"]
  BY BetweenIs
<1>3. Reached(o, "report") =
        {"report"} \union {u \in Task \ {"report"} : Between[u]["report"] \subseteq o.sub}
  BY <1>1 DEF Reached
<1>4. Reached(o, "chain") =
        {"chain"} \union {u \in {"stand"} : Between[u]["chain"] \subseteq o.sub}
  BY <1>1 DEF Reached
<1>5. "report" \notin o.sub => Reached(o, "report") = {"report"}
  BY <1>2, <1>3
<1>6. o.sub = {"report"} => Reached(o, "report") = {"report", "skill"}
  BY <1>3, BetweenIs
<1>7. o.sub = Wrapper => Reached(o, "report") = Task
  BY <1>2, <1>3
<1>8. o.sub = Wrapper => Reached(o, "chain") = {"chain", "stand"}
  BY <1>4, BetweenIs
<1> QED
  BY <1>5, <1>6, <1>7, <1>8

-----------------------------------------------------------------------------
(* The operations.                                                           *)

LEMMA SetStatusIs ==
    ASSUME NEW o \in Objects, NEW T \in SUBSET Task, NEW s \in Status
    PROVE  LET r == SetStatus(o, T, s) IN
           /\ r \in Objects
           /\ r.status = [t \in Task |-> IF t \in T THEN s ELSE o.status[t]]
           /\ r.mutexes = o.mutexes /\ r.saved = o.saved
           /\ r.sub = o.sub /\ r.listens = o.listens
BY DEF Objects, SetStatus

LEMMA SetMutexesIs ==
    ASSUME NEW o \in Objects, NEW t \in Task, NEW M \in SUBSET Mutex
    PROVE  LET r == SetMutexes(o, t, M) IN
           /\ r \in Objects
           /\ r.mutexes = [u \in Task |->
                 IF u = t \/ u \in Followers(o.listens, t) THEN M ELSE o.mutexes[u]]
           /\ r.status = o.status /\ r.saved = o.saved
           /\ r.sub = o.sub /\ r.listens = o.listens
BY DEF Objects, SetMutexes

LEMMA FollowIs ==
    ASSUME NEW o \in Objects, NEW w \in Wrapper
    PROVE  LET r == Follow(o, w)
               L == o.listens \union {w}
           IN
           /\ r \in Objects
           /\ r.sub = o.sub \union {w} /\ r.listens = L
           /\ r.status = o.status
           /\ r.saved = [o.saved EXCEPT ![w] = o.mutexes[w]]
           /\ r.mutexes = [u \in Task |->
                 IF u = w \/ u \in Followers(L, w) THEN o.mutexes[Subtask[w]]
                 ELSE o.mutexes[u]]
<1> DEFINE p == [o EXCEPT !.sub = @ \union {w}, !.listens = @ \union {w},
                          !.saved[w] = o.mutexes[w]]
<1>1. /\ p \in Objects
      /\ p.sub = o.sub \union {w} /\ p.listens = o.listens \union {w}
      /\ p.status = o.status /\ p.mutexes = o.mutexes
      /\ p.saved = [o.saved EXCEPT ![w] = o.mutexes[w]]
  BY DEF Objects
<1>2. Subtask[w] \in Task /\ w \in Task
  BY DEF Subtask
<1>3. o.mutexes[Subtask[w]] \in SUBSET Mutex
  BY <1>2 DEF Objects
<1>4. Follow(o, w) = SetMutexes(p, w, o.mutexes[Subtask[w]])
  BY DEF Follow
<1> DEFINE M == o.mutexes[Subtask[w]]
           r == SetMutexes(p, w, M)
<1>0. p \in Objects /\ w \in Task /\ M \in SUBSET Mutex
  BY <1>1, <1>2, <1>3
<1> HIDE DEF p, M
<1>5. /\ r \in Objects
      /\ r.mutexes = [u \in Task |->
            IF u = w \/ u \in Followers(p.listens, w) THEN M ELSE p.mutexes[u]]
      /\ r.status = p.status /\ r.saved = p.saved
      /\ r.sub = p.sub /\ r.listens = p.listens
  BY <1>0, SetMutexesIs, ZenonT(30)
<1> HIDE DEF r
<1>6. Follow(o, w) = r
  BY <1>4 DEF r, M
<1>7. r.mutexes = [u \in Task |->
            IF u = w \/ u \in Followers(o.listens \union {w}, w) THEN M
            ELSE o.mutexes[u]]
  BY <1>1, <1>5
<1> QED
  BY <1>1, <1>5, <1>6, <1>7 DEF M

LEMMA DropIs ==
    ASSUME NEW o \in Objects, NEW w \in Wrapper
    PROVE  LET r == Drop(o, w)
               L == o.listens \ {w}
           IN
           /\ r \in Objects
           /\ r.sub = o.sub \ {w} /\ r.listens = L
           /\ r.status = o.status /\ r.saved = o.saved
           /\ r.mutexes = [u \in Task |->
                 IF u = w \/ u \in Followers(L, w) THEN o.saved[w] ELSE o.mutexes[u]]
<1> DEFINE p == DropOnly(o, w)
           M == o.saved[w]
           r == SetMutexes(p, w, M)
<1>1. /\ p \in Objects
      /\ p.sub = o.sub \ {w} /\ p.listens = o.listens \ {w}
      /\ p.status = o.status /\ p.mutexes = o.mutexes /\ p.saved = o.saved
  BY DEF Objects, DropOnly
<1>2. w \in Task /\ M \in SUBSET Mutex
  BY DEF Objects
<1>3. Drop(o, w) = r
  BY DEF Drop
<1> HIDE DEF p, M
<1>4. /\ r \in Objects
      /\ r.mutexes = [u \in Task |->
            IF u = w \/ u \in Followers(p.listens, w) THEN M ELSE p.mutexes[u]]
      /\ r.status = p.status /\ r.saved = p.saved
      /\ r.sub = p.sub /\ r.listens = p.listens
  BY <1>1, <1>2, SetMutexesIs, ZenonT(30)
<1> HIDE DEF r
<1>5. r.mutexes = [u \in Task |->
            IF u = w \/ u \in Followers(o.listens \ {w}, w) THEN M ELSE o.mutexes[u]]
  BY <1>1, <1>4
<1> QED
  BY <1>1, <1>3, <1>4, <1>5 DEF M

LEMMA CompleteIs ==
    ASSUME NEW o \in Objects, NEW w \in Wrapper
    PROVE  LET r == Complete(o, w)
               L == o.listens \ {w}
           IN
           /\ r \in Objects
           /\ r.sub = o.sub \ {w} /\ r.listens = L /\ r.saved = o.saved
           /\ r.status = [o.status EXCEPT ![w] = "DONE"]
           /\ r.mutexes = [u \in Task |->
                 IF u = w \/ u \in Followers(L, w) THEN o.saved[w] ELSE o.mutexes[u]]
<1> DEFINE p == Drop(o, w)
           r == SetStatus(p, {w}, "DONE")
<1>1. /\ p \in Objects
      /\ p.sub = o.sub \ {w} /\ p.listens = o.listens \ {w}
      /\ p.status = o.status /\ p.saved = o.saved
      /\ p.mutexes = [u \in Task |->
            IF u = w \/ u \in Followers(o.listens \ {w}, w) THEN o.saved[w]
            ELSE o.mutexes[u]]
  BY DropIs
<1>2. [t \in Task |-> IF t \in {w} THEN "DONE" ELSE o.status[t]]
        = [o.status EXCEPT ![w] = "DONE"]
  BY DEF Objects
<1>3. Complete(o, w) = r
  BY DEF Complete
<1>0. {w} \in SUBSET Task /\ "DONE" \in Status
  OBVIOUS
<1> HIDE DEF p
<1>4. /\ r \in Objects
      /\ r.status = [t \in Task |-> IF t \in {w} THEN "DONE" ELSE p.status[t]]
      /\ r.mutexes = p.mutexes /\ r.saved = p.saved
      /\ r.sub = p.sub /\ r.listens = p.listens
  BY <1>0, <1>1, SetStatusIs, ZenonT(30)
<1> HIDE DEF r
<1> QED
  BY <1>1, <1>2, <1>3, <1>4

LEMMA StopIs ==
    ASSUME NEW o \in Objects, NEW t \in Task
    PROVE  LET r == Stop(o, t) IN
           /\ r \in Objects
           /\ r.sub = o.sub \ Reached(o, t)
           /\ r.listens = o.listens /\ r.saved = o.saved /\ r.mutexes = o.mutexes
           /\ r.status = [u \in Task |-> IF u \in Reached(o, t) THEN "STOPPED"
                                         ELSE o.status[u]]
<1> DEFINE T == Reached(o, t)
           p == SetStatus(o, T, "STOPPED")
<1>1. "STOPPED" \in Status
  OBVIOUS
<1>0. T \in SUBSET Task
  BY DEF Reached
<1>2. Stop(o, t) = [p EXCEPT !.sub = @ \ T]
  BY DEF Stop
<1> HIDE DEF T
<1>3. /\ p \in Objects
      /\ p.sub = o.sub /\ p.listens = o.listens
      /\ p.mutexes = o.mutexes /\ p.saved = o.saved
      /\ p.status = [u \in Task |-> IF u \in T THEN "STOPPED" ELSE o.status[u]]
  BY <1>0, <1>1, SetStatusIs, ZenonT(30)
<1> HIDE DEF p
<1> QED
  BY <1>2, <1>3 DEF Objects, T
============================================================================
