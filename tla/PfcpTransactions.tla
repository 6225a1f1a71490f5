--------------------------- MODULE PfcpTransactions ---------------------------
(***************************************************************************)
(* A PFCP node that makes requests, the node that answers them, and the    *)
(* network between them (epfcp.cpp).                                       *)
(*                                                                         *)
(* Time advances in units.  The threads keep up with their queues and the  *)
(* timers are punctual: a unit of time passes only when no event is        *)
(* waiting and no timer is due.  Within one moment every order of the      *)
(* handlers, the timers and the arriving datagrams is possible.            *)
(***************************************************************************)
EXTENDS PfcpRequester, PfcpResponder

VARIABLE crashed     \* the process of the node that makes requests has died

nodeVars == <<env, net, reqVars, peerVars>>
vars == <<nodeVars, crashed>>

Init ==
    /\ env \in Envs
    /\ net = {}
    /\ ReqInit
    /\ PeerInit
    /\ crashed = FALSE

\* One unit of time passes.
Tick ==
    /\ ReqQuiet /\ PeerQuiet
    /\ ReqTick /\ PeerTick /\ NetTick
    /\ UNCHANGED env

Requester == \/ ReqWork
             \/ \E r \in Reqs : AppSend(r)
             \/ \E d \in net : OnReceiveRsp(d)

Responder == \/ PeerWork
             \/ \E r \in Reqs : AppAnswer(r)
             \/ \E d \in net : OnReceiveReq(d)

\* A step of the nodes, or of time.
Step ==
    \/ Requester /\ UNCHANGED <<env, peerVars>>
    \/ Responder /\ UNCHANGED <<env, reqVars>>
    \/ Tick

\* onRcvdRsp or onRcvdRspError reads a request that is not there.
Crash ==
    /\ ~crashed /\ crashed' = TRUE
    /\ \E r \in Reqs : ReadsNullRequest(r) \/ ReadsDeletedRequest(r)
    /\ UNCHANGED nodeVars

\* After a crash nothing more is asked.
Next ==
    \/ ~crashed /\ Step /\ UNCHANGED crashed
    \/ Crash
    \/ crashed /\ UNCHANGED vars

(***************************************************************************)
(* The threads handle their events and time passes.  Nobody is obliged to  *)
(* send a request or to answer one, and any datagram may be lost.          *)
(***************************************************************************)
Spec ==
    /\ Init /\ [][Next]_vars
    /\ WF_vars(Crash \/ (~crashed /\ ReqWork /\ UNCHANGED <<env, peerVars, crashed>>))
    /\ WF_vars(~crashed /\ PeerWork /\ UNCHANGED <<env, reqVars, crashed>>)
    /\ WF_vars(~crashed /\ Tick /\ UNCHANGED crashed)

-------------------------------------------------------------------------------
Events == [type : {"SndMsg", "RcvdRsp", "RcvdRspNull", "SndReq", "ReqTimeout",
                   "RcvdRspError", "RcvdReq", "SndRsp", "RcvdReqError"},
           req : Reqs] \cup {[type |-> "RspWnd"]}

\* The type of the state of both nodes and of the network.
NodeTypes ==
    /\ env \in Envs
    /\ net \in SUBSET Datagrams
    /\ ro \in [Reqs -> ReqOut]
    /\ crw \in 1 .. 2 /\ pcrw \in 1 .. 2
    /\ wnd \in 0 .. RspWait /\ pwnd \in 0 .. PeerRspWait
    /\ \A q \in {ttq, ctq, pttq, pctq} : q \in Seq(Events)
    /\ outcome \in [Reqs -> Seq({"rsp", "rspNull", "timeout", "timeoutNull", "error"})]
    /\ rcvd \in [Reqs -> Unknown .. 2]
    /\ serving \in [Reqs -> Idle .. env.service]
    /\ given \in [Reqs -> Seq({"given", "refused"})]

TypeOK == NodeTypes /\ crashed \in BOOLEAN

\* The events in the queue q.
Queued(q) == {q[i] : i \in DOMAIN q}

\* onReqTimeout dereferences the ReqOut that its event points to: no timer and no
\* event points to a request object that was deleted (epfcp.cpp, removeOldReqs).
NoDanglingTimeout ==
    \A r \in Reqs : ro[r].at = "deleted" =>
        ro[r].t1 = Off /\ Event("ReqTimeout", r) \notin Queued(ctq)

\* A retransmitted or duplicated request is not given to the application again
\* (epfcp.cpp, onReceive: "check to see if this is a duplicate req").
GivenOnce == \A r \in Reqs : Len(given[r]) <= 1

\* The responses arrive before T1 expires, or never.
Prompt == 2 * env.transit + env.service < T1

\* The events in which the application is told about a request, without those that
\* carry no request.
Told(r) == {i \in DOMAIN outcome[r] : outcome[r][i] \notin {"rspNull", "timeoutNull"}}

\* How a request ended; PfcpTransaction has no value for one that ended twice.
Ending(r) ==
    IF \A i, j \in Told(r) : i = j THEN outcome[r][CHOOSE i \in Told(r) : TRUE] ELSE "repeated"

Phase(r) ==
    IF Told(r) # {} THEN Ending(r)
    ELSE IF ro[r].at = "unsent" THEN "unsent" ELSE "pending"

\* What happened to a request at the peer.
Peer(r) ==
    IF given[r] = << >> THEN "unaware"
    ELSE IF Len(given[r]) = 1 THEN given[r][1] ELSE "repeated"

\* Both nodes together do what PfcpTransaction promises.
Transaction == INSTANCE PfcpTransaction WITH
    phase <- [r \in Reqs |-> Phase(r)], peer <- [r \in Reqs |-> Peer(r)]
ImplementsTransaction == Transaction!Spec

\* An event handed to the application always carries its request, unless
\* responses are late or doubled.
NoNullEvent == \A r \in Reqs : Told(r) = DOMAIN outcome[r]

\* With prompt responses and a network that does not duplicate, no event without a
\* request reaches the application.
PromptEventsComplete == Prompt /\ ~env.duplicates => NoNullEvent

\* Every request sent ends: the application is told, and the ReqOut is deleted.  The
\* process does not live to see it when a second response to a request of class
\* Session comes, late or doubled (epfcp.cpp, onRcvdRsp).
RequestsEnd ==
    \A r \in Reqs :
        (ro[r].at = "encode" /\ ~env.undecodable)
            ~> \/ ro[r].at = "deleted" /\ outcome[r] # << >>
               \/ crashed /\ env.sessions # {} /\ ~(Prompt /\ ~env.duplicates)

\* "a pointer to the request message that did not receive a response" (epfcp.h,
\* onReqTimeout): an application told of a response is not told of a timeout.
TimeoutMeansNoResponse ==
    \A r \in Reqs : ~ \E i, j \in DOMAIN outcome[r] :
        /\ outcome[r][i] = "rsp"
        /\ outcome[r][j] \in {"timeout", "timeoutNull"}

\* A response given to the application refers to its request (epfcp.h, req()).
ResponseHasRequest ==
    \A r \in Reqs : \A i \in DOMAIN outcome[r] : outcome[r][i] # "rspNull"
===============================================================================
