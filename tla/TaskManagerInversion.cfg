SPECIFICATION Spec
CONSTANTS
  a = a
  b = b
  c = c
  d = d
  m1 = m1
  m2 = m2
  Task = {a, b, c, d}
  Mutex = {m1, m2}
  NoTask = NoTask
  Priority <- Ladder
  Name <- LadderNames
  MutexLists <- LadderLists
  ChangePoints = {}
  MaxChanges = 0
INVARIANTS
  NoInversion
