\* Four threads, two permits: two sleepers can await two posts.
\* A thread whose Increment threw stops, so all of them may.
SPECIFICATION Spec
CONSTANTS
    Threads = {t1, t2, t3, t4}
    InitCount = 2
    SEM_VALUE_MAX = 4
    Usages <- MCUsages
INVARIANTS
    TypeOK
    PermitBound
    CountAccounting
    SleepersCovered
    NoStrayToken
PROPERTIES
    NoLostWakeup
CHECK_DEADLOCK FALSE
