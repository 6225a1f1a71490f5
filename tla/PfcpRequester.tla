---------------------------- MODULE PfcpRequester ----------------------------
(***************************************************************************)
(* The node that makes requests: LocalNode's outstanding requests          *)
(* (roumap_), the ReqOut objects in it, and the handlers of the            *)
(* translation thread and the communication thread that work on them       *)
(* (epfcp.cpp, epfcp.h).                                                   *)
(*                                                                         *)
(* The application, the translation thread and the communication thread    *)
(* pass messages through event queues; the timer pool posts ReqTimeout to  *)
(* the communication thread.  Requests are those of the application:       *)
(* heartbeats are another module's subject.  Sequence numbers do not       *)
(* collide.                                                                *)
(***************************************************************************)
EXTENDS PfcpNetwork

CONSTANTS
    N1,       \* Configuration::n1_, how often a request is sent
    T1,       \* Configuration::t1_, the time to wait for a response
    RspWait   \* Configuration::maxRspWait(), the length of a response window

\* maxRspWait() multiplies the larger of t1_ and hbt1_ by the larger of n1_ and
\* hbn1_, the parameters of heartbeats.
ASSUME RetransmissionAssumption ==
    /\ N1 \in Nat \ {0} /\ T1 \in Nat \ {0}
    /\ RspWait \in Nat /\ RspWait >= T1 * N1

VARIABLES
    ro,       \* the ReqOut of each request: where it is, n1_, t1id_, rw_, am_
    ttq,      \* event queue of the translation thread
    ctq,      \* event queue of the communication thread
    crw,      \* crw_, the current response window
    wnd,      \* time left in the current response window
    outcome   \* what the application was told about each request, in order

reqVars == <<ro, ttq, ctq, crw, wnd, outcome>>

Off == -1     \* no T1 timer registered

Toggle(w) == 3 - w    \* w ^ rwToggle_ for the windows rwOne_ and rwTwo_

\* am says whether the object still owns the application's message.
ReqOut == [at : {"unsent", "encode", "queued", "listed", "deleted"},
           n1 : 0 .. N1, t1 : Off .. T1, rw : 0 .. 2, am : BOOLEAN]

Event(type, r) == [type |-> type, req |-> r]

\* ReqOut::ReqOut, CommunicationThread::CommunicationThread.
ReqInit ==
    /\ ro = [r \in Reqs |->
                [at |-> "unsent", n1 |-> N1, t1 |-> Off, rw |-> 0, am |-> TRUE]]
    /\ ttq = << >> /\ ctq = << >>
    /\ crw = 1
    /\ wnd \in 1 .. RspWait
    /\ outcome = [r \in Reqs |-> << >>]

Tell(r, what) == outcome' = [outcome EXCEPT ![r] = Append(@, what)]

\* The application hands a request to the translation thread (SndMsg).
AppSend(r) ==
    /\ ro[r].at = "unsent"
    /\ ro' = [ro EXCEPT ![r].at = "encode"]
    /\ ttq' = Append(ttq, Event("SndMsg", r))
    /\ UNCHANGED <<ctq, crw, wnd, outcome, net>>

-------------------------------------------------------------------------------
\* TranslationThread::onSndPfcpMsg for a request: encodeReq succeeds, or throws
\* and the application gets its request back with EncodeReqError.
EncodeReq(r) ==
    /\ ttq # << >> /\ Head(ttq) = Event("SndMsg", r)
    /\ ttq' = Tail(ttq)
    /\ \/ /\ ro' = [ro EXCEPT ![r].at = "queued"]
          /\ ctq' = Append(ctq, Event("SndReq", r))
          /\ UNCHANGED outcome
       \/ /\ ro' = [ro EXCEPT ![r].at = "deleted", ![r].am = FALSE]
          /\ Tell(r, "error")
          /\ UNCHANGED ctq
    /\ UNCHANGED <<crw, wnd, net>>

\* TranslationThread::onRcvdRsp, first thing: the session of the request is read for
\* the log, when the response is of class Session.  There is none in a RspIn without
\* its request, and the process dies.
ReadsNullRequest(r) ==
    ttq # << >> /\ Head(ttq) = Event("RcvdRspNull", r) /\ r \in env.sessions

\* Then decodeRsp succeeds, or throws and the communication thread gets
\* RcvdRspError.  A RspIn of class Node is handed on without its request.
DecodeRsp(r) ==
    /\ ttq # << >> /\ Head(ttq) \in {Event("RcvdRsp", r), Event("RcvdRspNull", r)}
    /\ ~ReadsNullRequest(r)
    /\ ttq' = Tail(ttq)
    /\ \/ /\ Tell(r, IF Head(ttq).type = "RcvdRsp" THEN "rsp" ELSE "rspNull")
          /\ UNCHANGED ctq
       \/ /\ env.undecodable
          /\ ctq' = Append(ctq, Event("RcvdRspError", r))
          /\ UNCHANGED outcome
    /\ UNCHANGED <<ro, crw, wnd, net>>

-------------------------------------------------------------------------------
\* Faulty variant of SndReq: the test of okToSnd lets one send too many pass.
SndReqOnceMore(r, o) ==
    IF o.n1 >= 0
      THEN /\ ro' = [ro EXCEPT ![r] = [o EXCEPT !.n1 = @ - 1, !.t1 = T1]]
           /\ NetSend("req", r)
           /\ UNCHANGED outcome
      ELSE /\ ro' = [ro EXCEPT ![r] = [o EXCEPT !.at = "deleted", !.am = FALSE]]
           /\ Tell(r, IF o.am THEN "timeout" ELSE "timeoutNull")
           /\ UNCHANGED net

\* Faulty variant of SndReq: T1 is not started for a request that is sent again.
SndReqTimedOnce(r, o) ==
    IF o.n1 >= 1
      THEN /\ ro' = [ro EXCEPT ![r] = [o EXCEPT !.n1 = @ - 1,
                                               !.t1 = IF o.n1 = N1 THEN T1 ELSE @]]
           /\ NetSend("req", r)
           /\ UNCHANGED outcome
      ELSE /\ ro' = [ro EXCEPT ![r] = [o EXCEPT !.at = "deleted", !.am = FALSE]]
           /\ Tell(r, IF o.am THEN "timeout" ELSE "timeoutNull")
           /\ UNCHANGED net

\* LocalNode::sndReq on the object o of r: send and start T1 while sends are
\* left (okToSnd), otherwise report the timeout; onReqOutTimeout then takes the
\* object out of roumap_ and onReqTimeout deletes it.
SndReq(r, o) ==
    IF o.n1 >= 1
      THEN /\ ro' = [ro EXCEPT ![r] = [o EXCEPT !.n1 = @ - 1, !.t1 = T1]]
           /\ NetSend("req", r)
           /\ UNCHANGED outcome
      ELSE /\ ro' = [ro EXCEPT ![r] = [o EXCEPT !.at = "deleted", !.am = FALSE]]
           /\ Tell(r, IF o.am THEN "timeout" ELSE "timeoutNull")
           /\ UNCHANGED net

\* CommunicationThread::onSndReq, LocalNode::sndInitialReq.
SndInitialReq(r) ==
    /\ ctq # << >> /\ Head(ctq) = Event("SndReq", r)
    /\ ctq' = Tail(ctq)
    /\ SndReq(r, [ro[r] EXCEPT !.at = "listed"])
    /\ UNCHANGED <<ttq, crw, wnd>>

\* CommunicationThread::onReqTimeout, LocalNode::onReqOutTimeout.
OnReqTimeout(r) ==
    /\ ctq # << >> /\ Head(ctq) = Event("ReqTimeout", r)
    /\ ctq' = Tail(ctq)
    /\ IF ro[r].at = "listed"
         THEN SndReq(r, ro[r])
         ELSE /\ ro' = [ro EXCEPT ![r].at = "deleted", ![r].am = FALSE]
              /\ UNCHANGED <<outcome, net>>
    /\ UNCHANGED <<ttq, crw, wnd>>

\* CommunicationThread::onRcvdRspError reads the session of the request for its log
\* too.  A RspIn without its request does not come here (ReadsNullRequest).  For one
\* with its request onRcvdRsp, which posted the event, may then delete the decoded
\* response (an establishment response without F-SEID), and with it the request:
\* reading a deleted request may kill the process.
ReadsDeletedRequest(r) ==
    ctq # << >> /\ Head(ctq) = Event("RcvdRspError", r) /\ r \in env.sessions

\* CommunicationThread::onRcvdRspError, otherwise.
OnRcvdRspError(r) ==
    /\ ctq # << >> /\ Head(ctq) = Event("RcvdRspError", r)
    /\ ctq' = Tail(ctq)
    /\ ro' = IF ro[r].at = "listed" THEN [ro EXCEPT ![r].rw = 0] ELSE ro
    /\ UNCHANGED <<ttq, crw, wnd, outcome, net>>

\* Faulty variant of OnReceiveRsp: T1 is not stopped.
OnReceiveRspKeepsT1(d) ==
    /\ d.kind = "rsp" /\ NetReceive(d)
    /\ IF ro[d.req].at = "listed"
         THEN /\ ro' = [ro EXCEPT ![d.req].rw = crw, ![d.req].am = FALSE]
              /\ ttq' = Append(ttq, Event(IF ro[d.req].am THEN "RcvdRsp"
                                                          ELSE "RcvdRspNull", d.req))
         ELSE UNCHANGED <<ro, ttq>>
    /\ UNCHANGED <<ctq, crw, wnd, outcome>>

\* Faulty variant of OnReceiveRsp: the ReqOut keeps the application's message.
OnReceiveRspKeepsMsg(d) ==
    /\ d.kind = "rsp" /\ NetReceive(d)
    /\ IF ro[d.req].at = "listed"
         THEN /\ ro' = [ro EXCEPT ![d.req].rw = crw, ![d.req].t1 = Off]
              /\ ttq' = Append(ttq, Event("RcvdRsp", d.req))
         ELSE UNCHANGED <<ro, ttq>>
    /\ UNCHANGED <<ctq, crw, wnd, outcome>>

\* LocalNode::onReceive of a response: set the response window, stop T1 and pass
\* the response on with the application's message, which the ReqOut gives up.
OnReceiveRsp(d) ==
    /\ d.kind = "rsp" /\ NetReceive(d)
    /\ IF ro[d.req].at = "listed"
         THEN /\ ro' = [ro EXCEPT ![d.req].rw = crw, ![d.req].t1 = Off,
                                  ![d.req].am = FALSE]
              /\ ttq' = Append(ttq, Event(IF ro[d.req].am THEN "RcvdRsp"
                                                          ELSE "RcvdRspNull", d.req))
         ELSE UNCHANGED <<ro, ttq>>
    /\ UNCHANGED <<ctq, crw, wnd, outcome>>

\* The requests that removeOldReqs deletes when the window changes to w.
Old(w) == {r \in Reqs : ro[r].at = "listed" /\ ro[r].rw = w}

\* Faulty variant of OnRspWnd: deletes what was answered in the window that ends.
OnRspWndEarly ==
    /\ ctq # << >> /\ Head(ctq).type = "RspWnd"
    /\ ctq' = Tail(ctq)
    /\ crw' = Toggle(crw)
    /\ ro' = [r \in Reqs |-> IF r \in Old(crw) THEN [ro[r] EXCEPT !.at = "deleted"]
                                               ELSE ro[r]]
    /\ UNCHANGED <<ttq, wnd, outcome, net>>

\* CommunicationThread::onTimer for rsptmr_: change to the other window and
\* delete the requests that were answered in its last turn.
OnRspWnd ==
    /\ ctq # << >> /\ Head(ctq).type = "RspWnd"
    /\ ctq' = Tail(ctq)
    /\ crw' = Toggle(crw)
    /\ ro' = [r \in Reqs |-> IF r \in Old(Toggle(crw))
                               THEN [ro[r] EXCEPT !.at = "deleted"] ELSE ro[r]]
    /\ UNCHANGED <<ttq, wnd, outcome, net>>

-------------------------------------------------------------------------------
\* The timer pool: T1 of r has expired.
ExpireT1(r) ==
    /\ ro[r].t1 = 0
    /\ ro' = [ro EXCEPT ![r].t1 = Off]
    /\ ctq' = Append(ctq, Event("ReqTimeout", r))
    /\ UNCHANGED <<ttq, crw, wnd, outcome, net>>

\* rsptmr_ has expired; it is periodic.
ExpireWnd ==
    /\ wnd = 0
    /\ wnd' = RspWait
    /\ ctq' = Append(ctq, [type |-> "RspWnd"])
    /\ UNCHANGED <<ro, ttq, crw, outcome, net>>

\* Nothing is left to do at this moment.
ReqQuiet == ttq = << >> /\ ctq = << >> /\ wnd > 0 /\ \A r \in Reqs : ro[r].t1 # 0

ReqTick ==
    /\ wnd' = wnd - 1
    /\ ro' = [r \in Reqs |-> [ro[r] EXCEPT !.t1 = IF @ > 0 THEN @ - 1 ELSE @]]
    /\ UNCHANGED <<ttq, ctq, crw, outcome>>

\* What the threads of this node and its timers do.
ReqWork ==
    \/ \E r \in Reqs :
          \/ EncodeReq(r) \/ DecodeRsp(r)
          \/ SndInitialReq(r) \/ OnReqTimeout(r) \/ OnRcvdRspError(r)
          \/ ExpireT1(r)
    \/ OnRspWnd \/ ExpireWnd
===============================================================================
