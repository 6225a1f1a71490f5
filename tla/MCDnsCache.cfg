\* Two queries at a time about one domain, one of them by the refresher at a time; one
\* wait is broken by a signal.
SPECIFICATION Spec
CONSTANTS
    Queries = {q1, q2}
    NoQuery = NoQuery
    Domains = {d1}
    MaxConcur = 1
    MaxSignals = 1
INVARIANTS
    TypeOK
    

    
CHECK_DEADLOCK FALSE
