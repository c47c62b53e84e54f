SPECIFICATION Spec
CONSTANTS
  a = a
  b = b
  c = c
  d = d
  m1 = m1
  m2 = m2
  Task = {a, b, c}
  Mutex = {m1, m2}
  NoTask = NoTask
  Priority <- Priorities
  Name <- NameOf
  MutexLists <- Lists
  ChangePoints = {"iterate", "activate", "afterStop"}
  MaxChanges = 3
INVARIANTS
  TypeOK
  Partition
  WaitingHoldNothing
  CallsInStatus
  MembersStatus
  EachRunsOnce
PROPERTIES
  SuspendedByHigher
