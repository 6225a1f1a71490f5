\* One disconnect of a remote node that does not restart.
SPECIFICATION Spec
CONSTANTS
    Sessions = {s1, s2}
    Seids = {1, 2}
    Wnds = 3
    HbN1 = 2
    MaxQueue = 2
    Envs <- DisconnectEnvs
INVARIANTS
    DisconnectDeletesAll
CHECK_DEADLOCK FALSE
