\* One producer and one reader, with signals.
SPECIFICATION SpecSignals
CONSTANTS
    Producers = {p1}
    Consumers = {c1}
    Msgs = {m1}
    MsgCnt = 2
    Usages <- MCEventThread
    SEM_VALUE_MAX = 3
    NoMsg = NoMsg
    NoThread = NoThread
INVARIANTS
    PopDeliversPushed
CHECK_DEADLOCK FALSE
