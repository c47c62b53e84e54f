SPECIFICATION FairSpec
CONSTANTS
  a = a
  b = b
  c = c
  d = d
  m1 = m1
  m2 = m2
  Task = {a, b, c}
  Mutex = {m1, m2}
  NoTask = NoTask
  Priority <- Priorities
  Name <- NameOf
  MutexLists <- Lists
  ChangePoints = {"iterate"}
  MaxChanges = 1
INVARIANTS
  Locks
  NoConflict
  MarkedAreRescheduled
  EveryTaskCounted
PROPERTIES
  IterateReturns
  StoppedIsDropped
