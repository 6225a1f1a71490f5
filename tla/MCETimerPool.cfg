\* Three registrations on two timers, one of them with a callback, a queue with
\* room for one message.
SPECIFICATION Spec
CONSTANTS
    Timers = {t1, t2}
    NoTimer = NoTimer
    MaxId = 3
    CallbackIds = {2}
    Durations = {1, 2}
    Resolution = 2
    RoundUp = FALSE
    MaxTime = 3
    QueueSize = 1
INVARIANTS
    TypeOK
    MapsAgree
    EntriesCovered
    NullEntryNeedsStaleSignal
    UninitLeavesNothing
PROPERTIES
    NoticesJustified
    TimersSettle
    UninitEnds
CHECK_DEADLOCK FALSE
