# TLA+ models of OpenKore

OpenKore is a bot for the game Ragnarok Online, written in Perl. One thread runs a
main loop (`src/src/functions.pl:552`): it reads the network, the console and the bus,
then lets the AI and the *tasks* act. Its own core logic, as opposed to game data, is

* the **task framework**: a cooperative scheduler with mutexes and priorities, tasks
  with a status protocol, and tasks built from other tasks;
* the **containers** these and the game's lists are kept in;
* the **bus**: a message bus between several bots, with a server, clients, queries and
  dialogs;
* the **connection** to the game's login, character and map servers.

This directory models the task scheduler, a task built from four others (casting a
skill), the bus with its server, clients and connections, the way bot programs find or launch the bus server, and the login connection;
it checks them with TLC and proves their main invariants with TLAPS for all values of
the constants. It models the bus, server, clients and connections, and checks it with
TLC. What is left out, and why, is said below.
Paths are relative to the repository's root, which holds a `src` directory itself.

## Inventory

| Component | State | Operations | Hard behaviours | What makes it correct |
|---|---|---|---|---|
| `TaskManager.pm` | three sets of tasks (active, inactive, gray), owner of each mutex, count per name, a flag | `add`, `stopAll`, `iterate` with `reschedule`, two listeners | tasks are moved between sets that are being walked over; the tasks' own code runs inside the loops and calls back; stealing frees more than is stolen | disjoint sets, locks agree with the lists, each call is legal for the task, everybody runs once, calls return |
| `Task.pm` | status, mutex list, three events | `activate`, `interrupt`, `resume`, `stop`, `iterate`, `setMutexes`, `setStopped`, `setDone` | assertions that hold only if callers follow the protocol | no assertion fails |
| `Utils/Set.pm` | an array and a hash of indices | `add`, `remove`, `has`, `get`, iteration | `remove` renumbers; the array is handed out and can be changed alone | hash and array agree |
| `Task/WithSubtask.pm`, `Chained`, `ErrorReport` | current subtask, own list, a listener on the subtask | the task operations, forwarded; `setSubtask`; restoring the list | the wrapper's status and its subtask's move apart; listeners outlive the subtask | subtask has the wrapper's status, list is own or the subtask's |
| `Task/UseSkill.pm` and the other leaf tasks | a stage, time-outs, a retry count | hooks on packets, `iterate` | answers race time-outs, retries of what succeeded | one outcome, bounded retries |
| `Utils/CallbackList.pm` | an array of callbacks, each with its index | `add`, `remove`, `call` | callbacks that add and remove during a call | who is called, ids stay right |
| `Utils/ObjectList.pm`, `ActorList.pm` | a sparse and a compact array, an ID map | `add`, `remove`, `find`, iteration | holes, removal while iterating | the two arrays hold the same objects |
| `Bus/Client.pm`, `Bus/SimpleClient.pm` | connection state, send queue, peers | `iterate`, `send`, reconnect | lost connections, failed sends, order of a retried message | each message at most once, none left in the queue |
| `Bus/Server/MainServer.pm`, `Base/Server.pm` | clients, their IDs and names | connect, HELLO, routing, JOIN and LEAVE | clients leave while they are walked over | peers agree with the server's list |
| `Bus/Query.pm`, `Bus/DialogMaster.pm`, `DialogSlave` | stage, sequence number, time-out | request, answer | late and duplicated answers | an answer goes to its question |
| `Bus/Server/Starter.pm`, `Utils/Daemon.pm`, `Utils/LockFile.pm` | lock files, a child process, a time-out | start, test, lock | several starters at once, processes that end between two steps | one server, and everybody finds it |
| `Network/DirectConnection.pm` | a number for the state, a flag, six timers, one socket for three servers, a key | one poll per loop, handlers of the servers' answers | time-outs race packets, reconnects, state left by an earlier login | every state leads on, timers and keys are of this attempt |
| `AI.pm`, `AI/CoreLogic.pm` | a stack of actions | push, pop, handlers | depends on the game's data | - |
| `Poseidon/` | sockets, a queue | emulates the game server | pure protocol I/O | - |
| `Network/Receive.pm`, `Send.pm` | the game's data | one handler per packet | byte layouts | - |
| `auto/XSTools` (C++) | path search, HTTP reader thread | search, download, mirrors | a thread | - |
| Interfaces, settings, plugins, translation | input, output, tables | - | - | - |

Interactions: the main loop calls `TaskManager::iterate`; the manager calls the tasks,
which call back through `CallbackList` events (`onMutexesChanged`, `onStop`); commands
and plugins call `add` and `stop`. `TaskManager` keeps its tasks in `Utils::Set`. Tasks
with subtasks forward every call. The bus client is polled by the main loop, the bus
server is a process of its own. Everything is single-threaded: interleaving means the
order of calls and callbacks within a process, and of messages between processes.

## Modules

| Module | Models | |
|---|---|---|
| `IndexedSet` | `Utils/Set.pm` | operators: a set is a record `[items, keys]`, the array and the hash |
| `IndexedSetProofs` | | what each operation preserves, for consistent sets and for sets whose array was shifted behind the hash's back |
| `TaskManager` | `TaskManager.pm`, the protocol of `Task.pm`, list changes of `WithSubtask.pm` | the state machine, its properties, its inductive invariant |
| `MCTaskManager` | | small instances for TLC |
| `TaskManagerProofs` | | type correctness, the inductive invariant and what follows from it |
| `BusNetwork` | the sockets under `Base/Server/Client.pm` and `Bus/SimpleClient.pm` | connections, and what sending, closing and breaking do to them |
| `BusServer` | `MainServer.pm`, `AbstractServer.pm`, `Base/Server.pm`, `ObjectList.pm` as its client list, the loop of `bus-server.pl` | the server process |
| `BusClient` | `Bus/Client.pm`, `Bus/SimpleClient.pm` | any number of clients |
| `Bus` | | server, clients and network composed; the properties |
| `Mailbox` | | abstract specification: what the bus promises about a message |
| `MCBus` | | small instances for TLC |
| `BusProofs` | | a message is in one place at a time; the refinement of `Mailbox` |
| `BusRosterProofs` | | the client list, and what the clients know of each other |
| `Daemon` | `Utils/Daemon.pm`, `Utils/LockFile.pm` | two lock files and an info file; `init()` and `getInfo()` step by step |
| `Starter` | `Bus/Server/Starter.pm`, STARTING_SERVER of `Bus/Client.pm`, the processes it launches | clients, servers and `Daemon` composed; the properties |
| `Singleton` | | abstract specification: what `Daemon.pm` promises |
| `MCStarter` | | small instances for TLC |
| `StarterProofs` | | who holds which lock; one server; the refinement of `Singleton` |
| `WithSubtask` | `Task/WithSubtask.pm`, `ErrorReport.pm`, `Chained.pm` | operators: four task objects, each wrapped in the next |
| `WithSubtaskProofs` | | what each operation does to the stack |
| `UseSkill` | `Task/UseSkill.pm`, `Task/SitStand.pm` in it, the server's answers | the state machine, its properties |
| `OpenTask` | | abstract specification: what `Task.pm` promises of any task |
| `UseSkillProofs` | | the inductive invariant, bounded tries, the refinement of `OpenTask` |
| `Connection` | `Network/DirectConnection.pm`, the handlers of `Network/Receive.pm` that change its state | the state machine, its properties |
| `ConnectionProofs` | | the inductive invariant and what follows from it |

`TaskManager` leaves open what a task does at each call; `OpenTask` is the same freedom,
stated for one task, and `UseSkill` is a task that is shown to stay within it.

### How `TaskManager` corresponds to the code

The variables carry the names of the object's fields: `active`, `inactive`, `gray` are
`activeTasks`, `inactiveTasks`, `grayTasks`; `activeMutexes`, `tasksByName`,
`shouldReschedule` are themselves; `status` and `mutexes` are the tasks' `T_status` and
`T_mutexes`. `oldActive` and `oldInactive` are the local copies `reschedule()` takes.

`iterate()` is one call in the code and a sequence of steps in the model, because it
runs code of the tasks. `pc` says where the call is, `i` is the loop index (from 1):

| `pc` | Code | Actions |
|---|---|---|
| `idle` | between two calls | `Add`, `Stop`, `StopAll`, `Begin` |
| `gray` | lines 130-155, tasks whose list changed | `GrayStep`, `GrayDone` |
| `activate` | lines 157-198, the waiting tasks | `ThrowAway`, `ChooseFree`, `ChooseSteal`, `Pass`, `ActivateDone` |
| `steal` | lines 186-196, one mutex a step | `Steal` |
| `resume` | lines 201-210, `activate()` or `resume()` the new ones | `Resume`, `ResumeOld`, `ResumeDone` |
| `interrupt` | lines 213-220 | `Interrupt`, `Rescheduled` |
| `run` | lines 281-304, every active task | `RunOn`, `RunLast`, `RunLastRestoring`, `IterateDone` |

`deactivateTask` is `Deactivate` with `Released`; its callers say which locks go.
`Set.pm`'s `remove` is followed literally, with `splice` and the renumbering, because
line 152 of the manager shifts the gray set's array directly and later `remove`s then
work on an array and a hash that disagree.

What a task may do is left open: at each of its calls it goes on, changes its mutex
list, or finishes. `ChangePoints` says where tasks change their list: in `iterate`
(`WithSubtask`, `FollowActor`), in `activate` (`Chained`), and after
they have become STOPPED (`WithSubtask::iterate`, lines 150-155).

Abstractions:

* A mutex list is a set: the code only intersects lists and loops over them. The loop
  that steals is modelled in any order.
* Tasks are added and stopped between two calls of `iterate()`. Tasks that add or stop
  others from inside `iterate()` are not modelled.
* `stop()` either stops the task or only takes note of the request; the second changes
  nothing here, the task stops later in `RunLast`.
* An exception a task throws leaves `iterate()` and, in the program, ends it; not
  modelled. A failed assertion throws too, unless the environment switches the
  assertions off; in the model it does not end the behaviour: assertions are properties.
* A list change in the last call of a task that finishes in it leaves the same state as
  finishing alone (the listener gives the locks up, and so does the manager), except
  when the status comes first, which is `RunLastRestoring`.
* `onTaskFinished` has no listener in the repository; error values do not matter.

Bounds: `MaxChanges` limits list changes of tasks that have been added (the initial list
is free); `LowestCount` keeps a count that went negative at -1. The theorems need
neither bound to be small: they hold for every `MaxChanges`.

### How the bus corresponds to the code

**Connections** (`BusNetwork`). A number in `Socket` is one connection, never used again.
`toServer` and `toClient` are the messages under way; `cEnd` and `sEnd` the two ends.
`sEnd = "reset"` is a connection on which `getpeername()` fails, which is what
`IO::Socket::connected` asks. A send on a connection whose server end is not open is lost
(`Transmit`, or a `Post` that does not fail) or fails (`TransmitFails`, `Failing`): which
one depends on what the system knows already. Messages arrive whole, in order and at once;
a later arrival is a later send, since nobody can tell them apart. What is lost when a
connection ends is whatever its reader has not read when it notices. Half-open
connections that neither side ever notices are not modelled.

**Server** (`BusServer`). `iterate()` is cut at every turn of its two loops and at
`select()`, so that clients act in between: `pc` is `scan`, `select` or `serve`, `pos` the
index of the `foreach`. `slots` and `clients` are the two arrays of the `ObjectList`, with
holes and without: `Add` fills the first hole and inserts at its index into the other
array, as `add` does, and `Take` cuts the item out of the other array where `Find` finds it;
`idOf` is `BAS_busClients` read backwards. `inbox` holds what one `recv()` brought until
`messageReceived` has handled it, one message a step. `watched` and `ready` are the bit
field before and after `select()`. `Crash` is any end of the process, by a signal (a
write to a connection that is gone may raise SIGPIPE) or an uncaught error; `Start` is a
new process at the same port, which counts IDs from 0 again. The second HELLO, and
arguments that are arrays, are left out: the server answers them by closing, and no
`Bus::Client` sends them. File descriptors that are used again are left out too: the bit
field is computed before the only `accept()` of an iteration.

**Client** (`BusClient`). `state` is the object's state, with `GONE` for a process that
ended; the client is given a host and a port, so it is never STARTING_SERVER, which the
module `Starter` models. `iterate()` is cut where others may act; `phase` keeps apart the flush
loop, which calls nobody, and the read loop, whose callbacks may send and which goes on
after such a send has failed. Time-outs are nondeterministic: a reconnect may come at any
time. `view` is no part of the code: it is the roster a user of the bus (a plugin, or
`DialogMaster`, which ends a dialog at LEAVE) keeps from what it reads. What users send is
LIST_CLIENTS, a message to everyone, or a private one to somebody in `view`.

Bounds: `MaxSends` calls of `send()`, `MaxBreaks` connections that break by themselves,
`MaxCrashes` ends of the server. `MaxSockets` is chosen so that it never stops anyone:
one for each client, each break, and each client and crash. The last client does not quit.

### How `Starter` corresponds to the code

`Daemon` has the two lock files as `holder`, the info file as `info`, and follows each
process by its program counter `pc`: a server through `init()` (`Daemon.pm:40-82`), a
client through `getInfo()` (lines 102-125), one step for each access to a lock or the
file. A lock file is opened anew by each call, as in `LockFile.pm:101-119`: a lock is
taken when it is free, and the system frees those of a process that ends (`Exit`). A
server has a socket from `StartServer` on, before its address is published.

`Starter` adds the client around it: `Poll` begins `Starter::iterate` with `getInfo()`;
`Started`, `Launch`, `LaunchFails`, `Wait` and `TimeOut` are what its answer leads to
(`Starter.pm:46-77`); `Connect`, `Handshake` and `Lost` are the client's `reconnect()`,
HELLO and `handleIOException()`. A server's number stands for host and port; a later
server never gets them again, which on one machine is likely and not certain. `Server`
is in the order of launches. After a launch fails or times out the code makes a new
`Starter`; so does the model.

Bound: `MaxAccidents` counts servers that end, launches and files that fail, and
time-outs while a server still starts. `Server` is large enough for every launch.

### How `UseSkill` corresponds to the code

`tasks` is the four task objects, as the commands `ss`, `sl`, `sp` and `sm` make them:
`ErrorReport` around `UseSkill`, around a `Chained` with one `SitStand`. `WithSubtask` has
the calls as operators on them: a list change goes up through the wrappers that listen
(`Followers`), a call goes down through those that have their subtask (`Reached`).

One call of `iterate()` is one step, with all the calls it makes below and the events
these raise; the actions are its outcomes, in the order of the code's tests (`Looks`).
`seen` is the four flags the hooks set, noted only while the task is RUNNING, as the
hooks are. Nothing clears them when a cast is repeated, in the code as in the model.
The server (`StartsCasting`, `UsesSkill`, `Refuses`, `Loses`, `Interrupted`,
`UsesAnother`, `StandsUp`) is external: it looks at each request once and answers as it
likes, late or never; an earlier cast, of this skill or another, may be under way.

Abstractions: whether a time-out has passed, a target is lost or a skill is missing is
left open at each call. `PreparationFails` goes on where, with assertions on,
`UseSkill.pm:317` throws, since the error has been set before. What happens after the end
is not followed. Bounds: `MaxSits` and `MaxInterrupts`; `MaxTries` is the code's constant.

### How `Connection` corresponds to the code

`state` has the numbers of `conState` as strings, `tries` is `conState_tries`, `late` the
timers that have run out: `Restart` is `{time} = time`, `Expire` the passing of time,
`TimerOf` the test in each branch. `ex` is `timeout_ex{master}`, the reconnect delay. `sock` is the
server at the other end of the one socket, `asked` the request on it. Each branch of
`checkConnection()` is an action; the five that give up are `TimeOut`, with the guard
`TimesOut`, which says also that no earlier branch applies. The handlers of
`Network/Receive.pm` have their own names. `Relog` is the command, and stands for the
break time and `autoRestart`, which do the same.

`own` and `spared` are history: nothing reads them but the properties. `master` is the
settings of the account server, chosen once. Abstractions: the program's character and
server are configured, so no menu opens; the plugins' state 1.5 is left out; bytes that
are left over when a socket is closed are not looked at; a grant for "char/map server" comes
from the character server only. Bound: `MaxFaults` counts refused and broken connections,
requests that are not answered or too late, refusals, and logins by the user.

## Runs

All runs of the task manager use two mutexes: enough for a task that holds two,
steals that free another mutex, and lists that overlap in part. Three tasks, two of the
same priority and name and one above them, are enough for a thief, its victim and a
bystander; a fourth is needed where a bystander profits (`inversion`). Tasks that
finished are not added again; the code has no path that does so.

| Run | Bounds | What it shows |
|---|---|---|
| `any_change` | 3 tasks, 3 list changes anywhere | `TypeOK`, `Partition`, `WaitingHoldNothing`, `CallsInStatus`, `MembersStatus`, `EachRunsOnce`, `SuspendedByHigher` survive every list change. Three changes are enough for two marked tasks, the corrupted gray set and one more change after it. |
| `one_change` | 3 tasks, one change from `iterate()` | `Locks`, `NoConflict`, `MarkedAreRescheduled`, `EveryTaskCounted`, and under fairness `IterateReturns` and `StoppedIsDropped`. With a second change `NoConflict` and the last two fail: see the next run. |
| `hang` | two changes | `iterate()` need not return: violation of `IterateReturns` |
| `inversion` | 4 priorities, no change | violation of `NoInversion` |
| `leak` | one change after STOPPED | violation of `Locks` |
| `bus` | 2 clients, 2 sends, 1 break | `TypeOK`, `Roster`, `Announced` |
| `bus_restart` | 2 clients, one of them private, 1 send, 1 crash | `Roster` across a restart, `AtMostOnce`, and under fairness `QueuedAreSent` |
| `bus_skip` | 2 clients, no send, 1 break | violation of `NobodySkipped` |
| `starter` | 2 clients, 4 launches, 1 accident | `TypeOK`, `OneServer`, `RegistrySpec`, and under fairness `ConnectedOrStranded` |
| `starter_stranded` | 1 client, 3 launches, 1 accident | violation of `Connected` |
| `use_skill` | 3 tries, sits down once, 1 interruption | `TypeOK`, `StatusFollows`, `ListFollows`, `TriesBounded`, `SuccessIsUse`, `TaskSpec`, and under fairness `Ends` |
| `connection` | 5 faults, with and without secure login and GameGuard | `TypeOK`, `KeyIsFresh`, `AccountServerSpared`, `OwnTimeOut`, `RightServer`, and under fairness `InGameAgain` |

`Roster`: the roster a client keeps, after the messages under way to it, is the server's
set of identified clients, itself included. Two clients and three connections are enough for a client that
leaves, comes back under a new ID, and is announced while the other's list is under way;
two sends for a list and a message. `Announced`: read in order, the mail of a client that
has the list has no message from, and no LEAVE of, somebody it does not know, and no JOIN
of somebody it does. `TypeOK` says that the two arrays of the client list stay aligned. `AtMostOnce` is the refinement of
`Mailbox`: a message goes from the queue to the server and from there to each receiver,
only forward, over failed sends and restarts; it follows each message by its number, and
one message, one crash and a reconnect show every way of sending one again.
`QueuedAreSent`: no message stays in a queue for ever, if the server is up in the end.

`OneServer`: never two servers listen, though both clients launch one and each may time
out and launch another while the first is starting. `RegistrySpec` is the refinement of
`Singleton`: what `getInfo()` returns was true at one moment of the call, never an
address half written or of a server gone before. Two clients are enough for a probe of
the run lock to get in the way of a server that starts; four launches are what one
accident allows. `ConnectedOrStranded` says what the `starter_stranded` run leaves true.

`StatusFollows` and `ListFollows`: through preparations, interruptions and ends the tasks
below have the manager's status, and the manager's one list is that of whoever acts.
`TriesBounded`: three tries, and one more for each time the character sat down, since a
cast after a preparation is not counted against the limit before it is sent. One sitting
down is enough for a second preparation in mid-cast. `SuccessIsUse`: no mixture of late
answers makes a success of a skill the server never used. `TaskSpec` is the refinement of
`OpenTask`. The real limit of tries, three, is small enough to be used.

`KeyIsFresh`: the password is encoded with a key of the connection it goes over, though a
key that came too late is kept and the next attempt may be refused. `AccountServerSpared`:
whichever way a login failed, the reconnect timer was started between two calls of the
account server (for the map server's time-out: at `ConnectMap`), or the user typed a name
or password. `OwnTimeOut`: a step is given up by a timer that was started since its
connection was opened. `RightServer`: the one socket is the server's the state is about.
Five faults are enough for a failure at each of the four servers' steps and one more;
three give the same results.

Deadlock is checked in the runs of the task manager: `Begin` is always possible between
two calls. The bus does stop, when nobody sends and the server waits in `select()`, so
its runs do not check it. The other three stop where all clients or the task have ended
or the program has quit.

Fairness (`FairSpec`) is weak fairness of `Iterate`, all the steps of the call together:
the main loop calls `iterate()` for ever and a call, once begun, is executed. Nothing is
assumed of commands, nor that a task ever finishes.

The bus (`Bus!FairSpec`) has weak fairness of the server's `Iterate`
(`bus-server.pl:67-69` calls it for ever) and of each client's `Poll` (the main loop
calls `iterate()`, `functions.pl:558`), each as a whole. Crashes, restarts, breaks, sends
and quitting are not fair.

`Starter!Fairness` is strong fairness of each process: a process that waits for a lock
which is free again and again gets it, because the system queues those who wait; and ten
seconds pass when a launched server has ended. `UseSkill!FairSpec` has weak fairness of
what `iterate()` does by itself (`functions.pl:552`) and of the server's answer to a
request to stand up, without which the task asks for ever; casts may all be lost.
`Connection!Fairness` has weak fairness of `checkConnection()` (`functions.pl:493`), of
the answer to a request, which is not owed once it was ignored (a fault), and of each
timer, which runs out before an answer only as a fault.

`NoConflict` is not an invariant of longer histories: a task that was marked gray,
rescheduled by the shift of line 152 and thus left with a stale hash entry, is not
marked again by `add` when its list changes a second time, and keeps running with a
list that may conflict. It is the same defect `hang` shows, one change earlier.

### Where the code and its documentation disagree

* **`hang`**: `shift @{$grayTasks}` (line 152) changes the array of a `Set` alone, which
  `Set.pm` forbids (lines 42 and 162). When the next gray task conflicts, its `remove`
  cuts outside the array; it stays first for ever and the loop does not end.
* **`inversion`**: "tasks with higher priority will be active compared to conflicting
  tasks with lower priority" (lines 124-125) does not hold after one pass: a steal frees
  mutexes for which tasks earlier in the list are not considered again.
* **`leak`**: `WithSubtask::iterate` becomes STOPPED, then restores its list (lines
  150-155); the subtask's mutexes stay locked by a task that is gone, against lines 60
  and 258.
* **`bus_skip`**: "It is safe to remove items during iteration" (`ObjectList.pm:271`),
  but `getItems` returns the array that `remove` splices, and a `foreach` over it passes
  over the item after a removed one. `Base::Server::iterate` removes in its `foreach`
  (line 167): a good connection is left out of the bit field, and `bus-server.pl` waits
  in `select()` without it until something else happens.
* **`starter_stranded`**: "we'll attempt to reconnect (or restart the bus server) on the
  next iteration" (`Bus/Client.pm:240-242`). When `reconnect()` fails, the client is
  NOT_CONNECTED even if it has a `Starter`, and from there only reconnects to the same
  address (lines 78-82 and 188): a server that ends between `getInfo()` and the connection
  leaves it trying for ever.

Three more were met and have no run. With one change in `activate()`
`MarkedAreRescheduled` fails (without any it is a theorem): `reschedule()` clears at its end (line 219) the flag the
change has set, and the task stays gray, against line 64. And `checkConnection()`
"Handles any connection issues" (`DirectConnection.pm:292`), but has no branch for the
states 1.2 and 2.5, so `InGameAgain` is stated for servers without GameGuard. Last,
`countTasksByName` is to "count the number of tasks that have the specified name"
(`TaskManager.pm:328`), but a task that is stopped while it waits is thrown away at line
163 without being taken off: its name's count stays one too high. `EveryTaskCounted` is
the half that holds: the count is never too low. It too needs that no lock is leaked: a
mutex stolen from a task that is gone takes that task off a second time.

## Proofs

`IndexedSetProofs` proves what `Set.pm`'s operations do. `Consistent` (array and hash
agree) is kept by `SetAdd` and `SetRemove`; `IndexedBy(S, s)` is what is left after `s`
shifts of the array: the hash is `s` too high and has entries of items that are gone.
`IndexedStuck` says that removing the first item of a shifted set leaves it in the array
and deletes it from the hash: the heart of the `hang` run, proved for all sets.

`TypeCorrect` (`TypeOK`) needs nothing else. The invariants of the runs are not
inductive; `Inductive` is:

* `Partition`, and `StatusInv`: while `reschedule()` is under way, a task's status is
  the one its place in the *copies* gives it, and before and behind the index of the
  two telling loops it is the old and the new one. `CallsInStatus` is that, read at the
  index.
* `OwnerInv`: an owner is active and wants the mutex, or is finished and gone. The
  second disjunct is the leak; with `Partition` it still excludes waiting owners.
* `GrayInv`: a gray task is active and holds nothing, and the set is `IndexedBy` some
  shift - or the first loop is `Stuck`. Without the second disjunct the invariant would
  be false: the proof has to live with the hang.
* `StealInv`: while a thief takes its mutexes, those still to take are free or belong to
  tasks of strictly lower priority, never to itself. A step of the steal frees more than
  it takes, and that only makes it truer.
* `HoldInv`: an active task owns its list, or is in the gray *hash*, or is the thief.
* `NoneRan` and `EachRunsOnce`: the position in the array says who has run.

`InductiveHolds` is `Spec => [](TypeOK /\ Inductive)`, from `InitInductive` and
`NextInductive`, one lemma for each part, one step for each action. From it follow
`PartitionHolds`, `WaitingHoldNothingHolds`, `CallsInStatusHolds`, `MembersStatusHolds`,
`EachRunsOnceHolds` and the action property `SuspendedByHigherHolds`. `LocksHold` adds
`OwnersActive` (no owner is gone) and the hypothesis that no task changes its list after
it has stopped; the `leak` run is what happens without it. `EveryTaskCountedHolds`, that no
task the manager has is missing in the count of its name, has the same hypothesis and
needs `OwnersActive` for it. Its invariant `CountInv` makes an exception for the hang, in
which the loop takes the same finished task off again and again.

Two more invariants hold only while something does not happen yet, and are proved for
exactly so long. `MarkedAreRescheduledHolds`: for any number of list changes, if none is
made by `activate()`; `RequestInv` says that the gray set is empty from the end of the
first loop to the end of `reschedule()`, which clears the flag. `NoConflictHolds` is
`Spec => [](changes <= 1 => NoConflict)`, for any `MaxChanges`: up to the first change,
wherever it is made, `OneChange` says what the array and the hash of the gray set can be.
Nothing is marked, or one active task, with index 0, which waits for the next reschedule or
has got the locks of its new list and left its entry in the hash. That entry is why
`HoldInv`, which speaks of the hash, is not enough, and why the second change ends it.

The hang is exact, for all instances. `StuckForEver`: once the first gray task conflicts
and has left the hash, no step of anyone leads out of the first loop, since `remove()`
in `deactivate` finds no entry and line 152 is not reached. `FirstLoopAdvances`: any
other step of the loop leaves a shorter gray array. So `Stuck` is the only way in which
this loop can fail to end, and `hang` shows that two list changes are enough for it.

The only assumption is `TaskAssumption`: the types of the constants, and that `NoTask`
is no task. Sets of tasks and mutexes may be infinite, priorities are any integers, any
number of tasks may change lists any number of times.

### The bus

`BusProofs` proves `AtMostOnce`: every step of `Bus`, server, clients and network
together, is a step of `Mailbox` or a stutter. The refinement needs to know that a
message is in one place: otherwise flushing it from one queue would leave it in another
(`Carry` takes it away), or the server would forward it and still have it (`Route`). So
the invariant says that no queue, connection or parser has a message twice (`OnceInv`),
that no two of them share one (`ApartInv`), and that the next number is in none of them
(`CountInv`). Most steps only lose things: `Moves(N)` says that nothing but the messages
in `N` moves on, and `MovesKeep`, `MovesForget` and `MovesRoute` do the rest for all of
these at once. What is left are a new message, the flush, and `recv()`, which splits a
connection's data in two. Nothing is assumed of the constants, not even that there are
finitely many clients; the server's client list and the IDs play no part.

`BusRosterProofs` proves `TypeCorrect`, `RosterKept` and `AnnouncementsKept`, about that
list and these IDs. `Inductive` has `NetType`, `ClientInv` and `FutureInv`, types and whose
a connection is, and:

* `ListInv`: `slots` and `clients` are `Aligned` (the same sockets in the same order, each
  once), and every listed socket has an ID of its own, below `maxID`. `Rank` counts the
  sockets up to an index of `slots`: `AddKeeps` and `TakeKeeps` follow it through the first
  hole, the insertion and the cut, which is where the two arrays could come apart.
* `LoopInv` and `BacklogInv`: what the loops of the server rely on. While `inbox` has
  messages, `pos` is the index of the client they came from; a connection is in the
  backlog or the list, once.
* `HelloInv` and `PrivacyInv`: HELLO is the first message of each connection, once, and
  the server identifies a client exactly by it; nobody who wants all messages is taken for
  one who does not.
* `ToldInv(c)`: the mail to a listening client tells only the truth, message by message
  (`Announced`), and adds up to the server's identified clients (`Roster`), as long as the
  server has its connection open.

A step either sends nothing to `c` (`ToldQuiet`) or one message (`ToldPost`), and then the
message must be `Truthful`: a JOIN of an ID that is new, a LEAVE of one that was there, a
message from one that is, a list that is the roster after the step. This is where the order
of `onClientExit` matters: the ID is taken from the roster, and the LEAVE sent to everybody
who has it, in one step. `Heard`, what a client will have heard after `k` messages of its
mail, is a recursive function; its lemmas (`HeardAppend` for a message sent, `HeardTail` for
one read) are proved by induction over the index in the form `Induct`, on a set of numbers,
from the well-foundedness of the naturals.

Assumed are `NetworkAssumption` (`NoSocket` is no socket), and in it, `ClientAssumption`
and `ServerAssumption`, that the bounds are naturals. Any set of clients, public and
private, any number of connections, messages, breaks, ends and restarts of the server.

### The bus server's starter

`StarterProofs`: `LockInv` and `RunLockInv` say of every process, by its program counter,
whether it holds the two locks; so nobody holds one twice and a client that sees the run
lock taken sees it taken by a server that serves (`HeldIsServing`): those on their way
still hold the other lock, which the client has. `InfoInv` adds that the file names
whoever is past writing it, and that a client about to read finds a name there. From
these follow `OneServerHolds` and `RegistryHolds`, that every step of `Starter` is one of
`Singleton` or a stutter. Assumed are `DaemonAssumption` and `StarterAssumption`: the
sets of processes are disjoint and contain none of the three marks, servers are
integers. Any number of clients, launches and accidents.

### Casting a skill

`WithSubtaskProofs` computes what `Follow`, `Drop`, `Interrupt`, `Resume` and `Stop` do to
a stack. `UseSkillProofs` has the invariant: the objects are `Alone` (only the report has
its subtask) or `Stacked` (all four, while the character gets up), each with all its
lists; whoever is reached `Follows` the report's status; `TriesInv` keeps one try for
every preparation under way or to come; `UseInv` ties the event to the use. From it
follow `StatusFollowsHolds`, `ListFollowsHolds`, `TriesBoundedHolds`, `SuccessIsUseHolds`
and `TaskHolds`, the refinement. `UseSkillAssumption`: the three bounds are naturals,
with at least one try.

### The connection

`ConnectionProofs`: `SparedInv` says in which states the reconnect timer has been started
since the last call; the map server's time-out does not start it (line 535), so it must
say so of state 4, and with it that state 4 is entered with the socket closed and that
the flag is set wherever a GameGuard grant is awaited. `OwnInv` names the timer each
attempt has started, and that a connection to the map server comes with the timer for
its silence. `KeyInv` and `RightServer` are inductive with these. The only assumption is
that the bound on faults is a natural number.

### Only model-checked

Every safety invariant and action property of the runs that pass is a theorem. Liveness
under fairness is out of the prover's reach: `IterateReturns`, `StoppedIsDropped`,
`QueuedAreSent`, `ConnectedOrStranded`, `Ends` and `InGameAgain` are checked by TLC only, as are
the five violations, which are counterexamples.

## Not modelled

* Game data and packet layouts (`Receive.pm` beyond the handlers above, `Send.pm`,
  `Misc.pm`, `CoreLogic.pm`), user interfaces, settings and translation have no protocol
  of their own; Poseidon is protocol I/O; the path search works on maps beyond a model
  checker; `scons` and the other bundled programs are third-party.
* The tasks that walk (`Move`, `Route`, `MapRoute`, `FollowActor`) and talk (`TalkNPC`)
  depend on maps and dialogs of the game at every step.
* `Bus/Query.pm` and the dialogs are users of the bus: what they send and read is open in
  `Bus`. A query removes its callback while the bus calls it, so whoever listens after it
  misses that message (`CallbackList.pm:195`); the modelled components never do.
* `Utils::Set::clear` and `size`, the ID map and events of `ObjectList`, and `ActorList`
  are not used by the modelled components.
* `Daemon::lock` and `unlock` have no caller. (`unlock` locks again, line 134.)
* The X-Kore modes, in which a game client holds the connection.

## Plan

Done, in this order: `IndexedSet` and `TaskManager`; `Bus`; `Daemon` and `Starter`;
`WithSubtask` and `UseSkill`; `Connection`. What could follow, most useful first:

1. `CallbackList` with callers that change it during the walk, and `Bus/Query.pm` on it.
2. `Chained` with several tasks, and subtasks that stop by themselves, under
   `WithSubtask`.
