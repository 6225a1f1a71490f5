--------------------------- MODULE PfcpTransaction ---------------------------
(***************************************************************************)
(* What the PFCP stack promises about requests (epfcp.h, the comments on   *)
(* onRcvdReq, onRcvdRsp, onReqTimeout and onEncodeReqError): the peer's    *)
(* application is given a request at most once, and the application that   *)
(* made it gets it back at most once, with a response of the peer, with a  *)
(* timeout or with an error.                                               *)
(***************************************************************************)
CONSTANT Reqs

VARIABLES
    phase,    \* "unsent", "pending", or how the request ended
    peer      \* "unaware", "given" to the application, or "refused" by the stack

Init ==
    /\ phase = [r \in Reqs |-> "unsent"]
    /\ peer = [r \in Reqs |-> "unaware"]

Send(r) ==
    /\ phase[r] = "unsent"
    /\ phase' = [phase EXCEPT ![r] = "pending"]
    /\ UNCHANGED peer

\* The peer may be given a request that has timed out meanwhile.
Give(r) ==
    /\ phase[r] \notin {"unsent", "error"}
    /\ peer[r] = "unaware"
    /\ \E p \in {"given", "refused"} : peer' = [peer EXCEPT ![r] = p]
    /\ UNCHANGED phase

Answer(r) ==
    /\ phase[r] = "pending"
    /\ peer[r] # "unaware"
    /\ phase' = [phase EXCEPT ![r] = "rsp"]
    /\ UNCHANGED peer

Abandon(r) ==
    /\ phase[r] = "pending"
    /\ \E e \in {"timeout", "error"} : phase' = [phase EXCEPT ![r] = e]
    /\ UNCHANGED peer

Next == \E r \in Reqs : Send(r) \/ Give(r) \/ Answer(r) \/ Abandon(r)

Spec == Init /\ [][Next]_<<phase, peer>>
===============================================================================
