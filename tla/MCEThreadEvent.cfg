\* A thread, and a group of two or three workers, used by three callers.
SPECIFICATION Spec
CONSTANTS
    Callers = {main, c1, c2}
    Main = main
    MinWorkers = 2
    MaxWorkers = 3
    QueueSize = 2
    MaxPosts = 3
    MaxSuspends = 3
    MaxSignals = 2
INVARIANTS
    TypeOK
    SuspendBalance
    QuitsMatch
    JoinComplete
PROPERTIES
    SuspensionHolds
    QuitAndJoinEnd
CHECK_DEADLOCK FALSE
