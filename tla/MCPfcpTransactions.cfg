\* One request, sent twice at most.  T1 is longer than the round trip of the first
\* environment and shorter than that of the others.
SPECIFICATION Spec
CONSTANTS
    Reqs = {r1}
    N1 = 2
    T1 = 3
    RspWait = 6
    PeerRspWait = 6
    Envs <- MCEnvs
INVARIANTS
    TypeOK
    NoDanglingTimeout
    GivenOnce
    PromptEventsComplete
PROPERTIES
    ImplementsTransaction
    RequestsEnd
