\* Two producers and two readers on a ring of two slots, so that the ring is full
\* and empty, wraps, and has sleepers on both sides.  A thread whose Increment
\* threw stops, so all of them may.
SPECIFICATION Spec
CONSTANTS
    Producers = {p1, p2}
    Consumers = {c1, c2}
    Msgs = {m1, m2}
    MsgCnt = 2
    Usages <- MCUsages
    SEM_VALUE_MAX = 4
    NoMsg = NoMsg
    NoThread = NoThread
INVARIANTS
    TypeOK
    NoSlotRace
    RingMatches
    CreditsCovered
PROPERTIES
    ImplementsFIFO
    Delivered
    PushesProceed
CHECK_DEADLOCK FALSE
