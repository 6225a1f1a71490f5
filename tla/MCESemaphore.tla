----------------------------- MODULE MCESemaphore -----------------------------
(* Instances of ESemaphore for TLC: see the .cfg files. *)
EXTENDS ESemaphore

\* Callers that always sleep, that never sleep, and that always sleep but are
\* interrupted by signals.
MCUsages ==
    {[waits |-> {TRUE}, signals |-> FALSE],
     [waits |-> {FALSE}, signals |-> FALSE],
     [waits |-> {TRUE}, signals |-> TRUE]}

\* Some callers pass wait = True and others wait = False.
MCMixed == {[waits |-> BOOLEAN, signals |-> FALSE]}
===============================================================================
