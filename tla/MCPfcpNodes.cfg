\* Two sessions and two remote SEIDs, which a restart makes available again; three
\* activity windows, two sends of a heartbeat request.
SPECIFICATION Spec
CONSTANTS
    Sessions = {s1, s2}
    Seids = {1, 2}
    Wnds = 3
    HbN1 = 2
    MaxQueue = 2
    Envs <- MCEnvs
INVARIANTS
    TypeOK
    SessionMapsAgree
PROPERTIES
    DisconnectEnds
    SilenceNoticed
CHECK_DEADLOCK FALSE
