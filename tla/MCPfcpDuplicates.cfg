\* One request; the response comes in time, and may come twice.
SPECIFICATION Spec
CONSTANTS
    Reqs = {r1}
    N1 = 2
    T1 = 3
    RspWait = 6
    PeerRspWait = 6
    Envs <- MCDuplicates
INVARIANT
    ResponseHasRequest
