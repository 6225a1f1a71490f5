\* A polling Decrement(False) races a sleeping Decrement(True).
SPECIFICATION Spec
CONSTANTS
    Threads = {t1, t2, t3}
    InitCount = 1
    SEM_VALUE_MAX = 3
    Usages <- MCMixed
INVARIANTS
    AdmissionBound
