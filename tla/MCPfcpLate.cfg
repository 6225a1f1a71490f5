\* One request; the response may come when T1 has just expired.
SPECIFICATION Spec
CONSTANTS
    Reqs = {r1}
    N1 = 2
    T1 = 3
    RspWait = 6
    PeerRspWait = 6
    Envs <- MCLate
INVARIANT
    TimeoutMeansNoResponse
