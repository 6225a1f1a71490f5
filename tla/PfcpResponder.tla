---------------------------- MODULE PfcpResponder ----------------------------
(***************************************************************************)
(* The node that answers requests: RemoteNode's received requests          *)
(* (rrumap_), which recognise a retransmission, and the handlers of the    *)
(* translation and communication threads that work on them (epfcp.cpp).    *)
(*                                                                         *)
(* A request is remembered without a window (rw = 0) until its response is *)
(* sent, and then until the response window has changed twice.             *)
(***************************************************************************)
EXTENDS PfcpNetwork

CONSTANT PeerRspWait    \* Configuration::maxRspWait() of this node

ASSUME PeerRspWaitAssumption == PeerRspWait \in Nat \ {0}

VARIABLES
    rcvd,     \* rrumap_: the window of each request remembered, else Unknown
    pttq,     \* event queue of the translation thread
    pctq,     \* event queue of the communication thread
    pcrw,     \* crw_, the current response window
    pwnd,     \* time left in the current response window
    serving,  \* the time the application has left for each request it serves
    given     \* how often each request was given to the application or refused

peerVars == <<rcvd, pttq, pctq, pcrw, pwnd, serving, given>>

Unknown == -1
Idle == -1

PeerToggle(w) == 3 - w

PeerEvent(type, r) == [type |-> type, req |-> r]

PeerInit ==
    /\ rcvd = [r \in Reqs |-> Unknown]
    /\ pttq = << >> /\ pctq = << >>
    /\ pcrw = 1
    /\ pwnd \in 1 .. PeerRspWait
    /\ serving = [r \in Reqs |-> Idle]
    /\ given = [r \in Reqs |-> << >>]

\* Faulty variant of OnReceiveReq: the request is not remembered.
OnReceiveReqForgets(d) ==
    /\ d.kind = "req" /\ NetReceive(d)
    /\ IF rcvd[d.req] = Unknown
         THEN pttq' = Append(pttq, PeerEvent("RcvdReq", d.req))
         ELSE UNCHANGED pttq
    /\ UNCHANGED <<rcvd, pctq, pcrw, pwnd, serving, given>>

\* LocalNode::onReceive of a request: remember it and pass it on, or discard a
\* duplicate.
OnReceiveReq(d) ==
    /\ d.kind = "req" /\ NetReceive(d)
    /\ IF rcvd[d.req] = Unknown
         THEN /\ rcvd' = [rcvd EXCEPT ![d.req] = 0]
              /\ pttq' = Append(pttq, PeerEvent("RcvdReq", d.req))
         ELSE UNCHANGED <<rcvd, pttq>>
    /\ UNCHANGED <<pctq, pcrw, pwnd, serving, given>>

-------------------------------------------------------------------------------
\* TranslationThread::onRcvdReq: decode and give the request to the application;
\* or answer that the version is not supported; or fail to decode.
DecodeReq(r) ==
    /\ pttq # << >> /\ Head(pttq) = PeerEvent("RcvdReq", r)
    /\ pttq' = Tail(pttq)
    /\ \/ /\ given' = [given EXCEPT ![r] = Append(@, "given")]
          /\ serving' = [serving EXCEPT ![r] = env.service]
          /\ UNCHANGED pctq
       \/ /\ given' = [given EXCEPT ![r] = Append(@, "refused")]
          /\ pctq' = Append(pctq, PeerEvent("SndRsp", r))
          /\ UNCHANGED serving
       \/ /\ env.undecodable
          /\ pctq' = Append(pctq, PeerEvent("RcvdReqError", r))
          /\ UNCHANGED <<given, serving>>
    /\ UNCHANGED <<rcvd, pcrw, pwnd, net>>

\* The application answers (SndMsg).  It may also never do so.
AppAnswer(r) ==
    /\ serving[r] # Idle
    /\ serving' = [serving EXCEPT ![r] = Idle]
    /\ pttq' = Append(pttq, PeerEvent("SndMsg", r))
    /\ UNCHANGED <<rcvd, pctq, pcrw, pwnd, given, net>>

\* TranslationThread::onSndPfcpMsg for a response: encodeRsp succeeds, or throws
\* and the application is told.
EncodeRsp(r) ==
    /\ pttq # << >> /\ Head(pttq) = PeerEvent("SndMsg", r)
    /\ pttq' = Tail(pttq)
    /\ \/ pctq' = Append(pctq, PeerEvent("SndRsp", r))
       \/ UNCHANGED pctq
    /\ UNCHANGED <<rcvd, pcrw, pwnd, serving, given, net>>

-------------------------------------------------------------------------------
\* Faulty variant of SndRsp: the request is forgotten as soon as it is answered.
SndRspForgets(r) ==
    /\ pctq # << >> /\ Head(pctq) = PeerEvent("SndRsp", r)
    /\ pctq' = Tail(pctq)
    /\ IF rcvd[r] # Unknown
         THEN /\ rcvd' = [rcvd EXCEPT ![r] = Unknown]
              /\ NetSend("rsp", r)
         ELSE UNCHANGED <<rcvd, net>>
    /\ UNCHANGED <<pttq, pcrw, pwnd, serving, given>>

\* CommunicationThread::onSndRsp, LocalNode::sndRsp: stamp the request with the
\* current window and send, or report SndRspError when it is not remembered.
SndRsp(r) ==
    /\ pctq # << >> /\ Head(pctq) = PeerEvent("SndRsp", r)
    /\ pctq' = Tail(pctq)
    /\ IF rcvd[r] # Unknown
         THEN /\ rcvd' = [rcvd EXCEPT ![r] = pcrw]
              /\ NetSend("rsp", r)
         ELSE UNCHANGED <<rcvd, net>>
    /\ UNCHANGED <<pttq, pcrw, pwnd, serving, given>>

\* CommunicationThread::onRcvdReqError: forget the request.
OnRcvdReqError(r) ==
    /\ pctq # << >> /\ Head(pctq) = PeerEvent("RcvdReqError", r)
    /\ pctq' = Tail(pctq)
    /\ rcvd' = [rcvd EXCEPT ![r] = Unknown]
    /\ UNCHANGED <<pttq, pcrw, pwnd, serving, given, net>>

\* Faulty variant of OnPeerRspWnd: forgets what was answered in the window that ends.
OnPeerRspWndEarly ==
    /\ pctq # << >> /\ Head(pctq).type = "RspWnd"
    /\ pctq' = Tail(pctq)
    /\ pcrw' = PeerToggle(pcrw)
    /\ rcvd' = [r \in Reqs |-> IF rcvd[r] = pcrw THEN Unknown ELSE rcvd[r]]
    /\ UNCHANGED <<pttq, pwnd, serving, given, net>>

\* CommunicationThread::onTimer for rsptmr_, RemoteNode::removeOldReqs.
OnPeerRspWnd ==
    /\ pctq # << >> /\ Head(pctq).type = "RspWnd"
    /\ pctq' = Tail(pctq)
    /\ pcrw' = PeerToggle(pcrw)
    /\ rcvd' = [r \in Reqs |-> IF rcvd[r] = PeerToggle(pcrw) THEN Unknown ELSE rcvd[r]]
    /\ UNCHANGED <<pttq, pwnd, serving, given, net>>

\* rsptmr_ has expired; it is periodic.
ExpirePeerWnd ==
    /\ pwnd = 0
    /\ pwnd' = PeerRspWait
    /\ pctq' = Append(pctq, [type |-> "RspWnd"])
    /\ UNCHANGED <<rcvd, pttq, pcrw, serving, given, net>>

PeerQuiet == pttq = << >> /\ pctq = << >> /\ pwnd > 0

\* One unit of time: an application out of time does not answer any more.
PeerTick ==
    /\ pwnd' = pwnd - 1
    /\ serving' = [r \in Reqs |-> IF serving[r] > 0 THEN serving[r] - 1 ELSE Idle]
    /\ UNCHANGED <<rcvd, pttq, pctq, pcrw, given>>

PeerWork ==
    \/ \E r \in Reqs :
          \/ DecodeReq(r) \/ EncodeRsp(r) \/ SndRsp(r) \/ OnRcvdReqError(r)
    \/ OnPeerRspWnd \/ ExpirePeerWnd
===============================================================================
