\* Three tries as in the code; the character sits down once, the manager
\* interrupts once.
SPECIFICATION FairSpec
CONSTANTS
    MaxTries = 3
    MaxSits = 1
    MaxInterrupts = 1
INVARIANTS
    TypeOK
    StatusFollows
    ListFollows
    TriesBounded
    SuccessIsUse
PROPERTIES
    TaskSpec
    Ends
CHECK_DEADLOCK FALSE
