\* Five things go wrong.  A program that has quit does nothing more.
CONSTANT MaxFaults = 5
SPECIFICATION FairSpec
INVARIANTS TypeOK KeyIsFresh AccountServerSpared OwnTimeOut RightServer
PROPERTY InGameAgain
CHECK_DEADLOCK FALSE
