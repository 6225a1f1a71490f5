------------------------------- MODULE PfcpNodes -------------------------------
(***************************************************************************)
(* A remote node as the PFCP endpoint sees it: heartbeats when it is       *)
(* silent, its failures and restarts, its sessions, and its disconnection  *)
(* (epfcp.cpp, epfcp.h).                                                   *)
(*                                                                         *)
(* The communication thread receives datagrams, runs the timer of the      *)
(* activity windows and handles the events of its queue; the translation   *)
(* thread decodes what was received and encodes what is sent; the          *)
(* application creates, disconnects and destroys.  PfcpTransactions is     *)
(* about requests and responses; here a request has one response or none.  *)
(***************************************************************************)
EXTENDS PfcpRemoteNode, Sequences

CONSTANTS
    Envs,        \* the environments to consider
    HbN1,        \* Configuration::heartbeatN1()
    MaxQueue     \* bound: events queued before a datagram is received

\* sessions: those used.  restarts: how often the remote node restarts.
\* disconnects: how often the application disconnects it.  heartbeats: the run lasts
\* for activity windows, and the nodes send heartbeats.  errors: how often a heartbeat
\* request that is to be sent cannot be encoded.
ASSUME NodesAssumption ==
    /\ Envs \subseteq [sessions : SUBSET Sessions, restarts : Nat, disconnects : Nat,
                       heartbeats : BOOLEAN, errors : Nat]
    /\ HbN1 \in Nat \ {0} /\ MaxQueue \in Nat

VARIABLES
    env,     \* the environment
    node,    \* the remote node
    caw,     \* caw_, the current activity window; it is aw_ of the node, too
    maps,    \* sessions_ of the local node and of the remote node
    phase,   \* who has each session
    rs,      \* rs_ of each session
    ttq,     \* event queue of the translation thread
    ctq,     \* event queue of the communication thread
    hb,      \* the heartbeat request: Off, Coding, or the sends left (n1_)
    app,     \* "none", or "disconnect" between the two steps of disconnect
    peer,    \* the remote node itself: whether it lives, its start time, its SEIDs
    left     \* bounds: the disconnects and the encode errors left

sess == <<maps, phase, rs>>
vars == <<env, node, caw, sess, ttq, ctq, hb, app, peer, left>>

Off == -2
Coding == -1

Event(type, s, v) == [type |-> type, s |-> s, v |-> v]
Events == [type : {"AddSession", "DelSession", "DelNxtRmtSession", "HeartbeatReq", "HeartbeatRsp",
                   "SndReq", "SndHeartbeatReq", "AssnSetup", "EstReq", "EstRsp"},
           s : SUBSET Sessions, v : Nat]

Init ==
    /\ env \in Envs
    /\ node = NoNode /\ caw = 0 /\ maps = NoMaps
    /\ phase = [s \in Sessions |-> "free"] /\ rs = [s \in Sessions |-> 0]
    /\ ttq = << >> /\ ctq = << >> /\ hb = Off /\ app = "none"
    /\ peer = [up |-> TRUE, start |-> 1, seids |-> {}]
    /\ left = [disconnects |-> env.disconnects, errors |-> env.errors]

-------------------------------------------------------------------------------
(* The application. *)

\* createRemoteNode; of a node that is Started it throws.
AppCreateNode ==
    /\ node.state # "Started"
    /\ node' = CreateRemoteNode(node, caw)
    /\ UNCHANGED <<env, caw, sess, ttq, ctq, hb, app, peer, left>>

\* LocalNode::createSession, and the request that establishes the session.
AppCreateSession(s) ==
    /\ s \in env.sessions /\ node.state # "none" /\ phase[s] = "free"
    /\ phase' = [phase EXCEPT ![s] = "created"]
    /\ ctq' = Append(ctq, Event("AddSession", {s}, 0))
    /\ UNCHANGED <<env, node, caw, maps, rs, ttq, hb, app, peer, left>>

\* The request has timed out.
ReqTimeout(s) ==
    /\ phase[s] = "created"
    /\ phase' = [phase EXCEPT ![s] = "failed"]
    /\ UNCHANGED <<env, node, caw, maps, rs, ttq, ctq, hb, app, peer, left>>

\* SessionBase::destroy
Destroy(s) ==
    /\ phase[s] \in {"up", "failed"}
    /\ phase' = [phase EXCEPT ![s] = "gone"]
    /\ ctq' = Append(ctq, Event("DelSession", {s}, 0))
    /\ UNCHANGED <<env, node, caw, maps, rs, ttq, hb, app, peer, left>>

\* RemoteNode::disconnect: changeState ...
Disconnect ==
    /\ app = "none" /\ left.disconnects > 0 /\ node.state # "none"
    /\ node' = ChangeState(node, "Stopping")
    /\ app' = "disconnect" /\ left' = [left EXCEPT !.disconnects = @ - 1]
    /\ UNCHANGED <<env, caw, sess, ttq, ctq, hb, peer>>

\* ... deleteAllSesssions
DeleteAllSessions ==
    /\ app = "disconnect" /\ app' = "none"
    /\ ctq' = Append(ctq, Event("DelNxtRmtSession", {}, 0))
    /\ UNCHANGED <<env, node, caw, sess, ttq, hb, peer, left>>

-------------------------------------------------------------------------------
(* The communication thread: LocalNode::onReceive. *)

\* A datagram has come, and what it contains goes to the translation thread.
OnReceive(events) ==
    /\ peer.up /\ Len(ttq) + Len(ctq) < MaxQueue
    /\ node' = Heard(node, caw)
    /\ ttq' = ttq \o events
    /\ UNCHANGED <<env, caw, rs, app, left>>

\* A heartbeat request or an association setup.
ReceiveNodeMsg(type) ==
    /\ type = "HeartbeatReq" => env.heartbeats
    /\ OnReceive(<<Event(type, {}, peer.start)>>)
    /\ UNCHANGED <<maps, phase, ctq, hb, peer>>

\* A heartbeat response; without its request it is discarded.
ReceiveHeartbeatRsp ==
    /\ env.heartbeats
    /\ OnReceive(IF hb >= 0 THEN <<Event("HeartbeatRsp", {}, peer.start)>> ELSE << >>)
    /\ hb' = IF hb >= 0 THEN Off ELSE hb
    /\ UNCHANGED <<maps, phase, ctq, peer>>

\* A session establishment request creates a session of its own.
ReceiveEstReq(s, seid) ==
    /\ s \in env.sessions /\ phase[s] = "free" /\ seid \in Seids \ peer.seids
    /\ OnReceive(<<Event("EstReq", {s}, seid)>>)
    /\ phase' = [phase EXCEPT ![s] = "asked"]
    /\ peer' = [peer EXCEPT !.seids = @ \cup {seid}]
    /\ ctq' = Append(ctq, Event("AddSession", {s}, 0))
    /\ UNCHANGED <<maps, hb>>

\* A session establishment response.
ReceiveEstRsp(s, seid) ==
    /\ phase[s] = "created" /\ seid \in Seids \ peer.seids
    /\ OnReceive(<<Event("EstRsp", {s}, seid)>>)
    /\ phase' = [phase EXCEPT ![s] = "answered"]
    /\ peer' = [peer EXCEPT !.seids = @ \cup {seid}]
    /\ UNCHANGED <<maps, ctq, hb>>

(* The communication thread: timers. *)

\* onTimer: checkActivity, nextActivityWnd.  The heartbeat request before has ended,
\* as hbt1_ * hbn1_ is less than naw_ * law_.
ActivityTimer ==
    LET silent == node.state = "Started" /\ ~CheckActivity(node)
        next   == IF caw + 1 >= Wnds THEN 0 ELSE caw + 1
        kept   == IF silent THEN IncrementActivity(node, caw) ELSE node
    IN
    /\ env.heartbeats /\ (silent => hb = Off)
    /\ caw' = next
    /\ node' = IF node.state = "none" THEN node ELSE NextActivityWnd(kept, next)
    /\ IF silent
         THEN hb' = Coding /\ ttq' = Append(ttq, Event("SndHeartbeatReq", {}, 0))
         ELSE UNCHANGED <<hb, ttq>>
    /\ UNCHANGED <<env, sess, ctq, app, peer, left>>

\* onReqOutTimeout, sndReq of a heartbeat request: sent again, or the node has failed.
HeartbeatTimeout ==
    /\ hb >= 0
    /\ IF hb > 0 THEN hb' = hb - 1 /\ UNCHANGED node
       ELSE hb' = Off /\ node' = ChangeState(node, "Failed")
    /\ UNCHANGED <<env, caw, sess, ttq, ctq, app, peer, left>>

(* The communication thread: the events of its queue. *)

First(q, type) == q # << >> /\ Head(q).type = type
TheSession(e) == CHOOSE s \in e.s : TRUE

OnAddSession ==
    LET s == TheSession(Head(ctq)) IN
    /\ First(ctq, "AddSession") /\ ctq' = Tail(ctq)
    /\ maps' = AddSession(maps, s, rs[s])
    /\ UNCHANGED <<env, node, caw, phase, rs, ttq, hb, app, peer, left>>

OnDelSession ==
    LET s == TheSession(Head(ctq)) IN
    /\ First(ctq, "DelSession") /\ ctq' = Tail(ctq)
    /\ maps' = DelSession(maps, s, rs[s])
    /\ UNCHANGED <<env, node, caw, phase, rs, ttq, hb, app, peer, left>>

\* onDelNxtRmtSession: one session is deleted and the event sent again, until none
\* is left.
OnDelNxtRmtSession ==
    /\ First(ctq, "DelNxtRmtSession")
    /\ \/ \E s \in FirstSessions(maps) :
             /\ maps' = DelSession(maps, s, rs[s])
             /\ ctq' = Append(Tail(ctq), Head(ctq))
             /\ UNCHANGED node
       \/ /\ FirstSessions(maps) = {}
          /\ node' = IF node.state = "Stopping" THEN ChangeState(node, "Stopped") ELSE node
          /\ ctq' = Tail(ctq) /\ UNCHANGED maps
    /\ UNCHANGED <<env, caw, phase, rs, ttq, hb, app, peer, left>>

\* onHeartbeatReq, onHeartbeatRsp: another start time than the one known is a
\* restart; the one known stays.
OnHeartbeat ==
    /\ First(ctq, "HeartbeatReq") \/ First(ctq, "HeartbeatRsp")
    /\ ctq' = Tail(ctq)
    /\ node' = IF node.start # Head(ctq).v THEN ChangeState(node, "Restarted") ELSE node
    /\ UNCHANGED <<env, caw, sess, ttq, hb, app, peer, left>>

\* onSndReq of a heartbeat request, which is sent for the first time.
OnSndReq ==
    /\ First(ctq, "SndReq") /\ ctq' = Tail(ctq) /\ hb' = HbN1 - 1
    /\ UNCHANGED <<env, node, caw, sess, ttq, app, peer, left>>

-------------------------------------------------------------------------------
(* The translation thread. *)

\* A heartbeat received is passed on, or cannot be decoded: RcvdReqError and
\* RcvdRspError are logged and clear a window that is of no consequence here.
TranslateHeartbeat ==
    /\ First(ttq, "HeartbeatReq") \/ First(ttq, "HeartbeatRsp")
    /\ ttq' = Tail(ttq)
    /\ ctq' = Append(ctq, Head(ttq)) \/ UNCHANGED ctq
    /\ UNCHANGED <<env, node, caw, sess, hb, app, peer, left>>

\* onSndHeartbeatReq: the heartbeat request is encoded and sent; or it cannot be, and
\* all that onSndHeartbeatReqError does is to log that.
EncodeHeartbeat ==
    /\ First(ttq, "SndHeartbeatReq") /\ ttq' = Tail(ttq)
    /\ \/ ctq' = Append(ctq, Event("SndReq", {}, 0)) /\ UNCHANGED <<hb, left>>
       \/ /\ left.errors > 0 /\ left' = [left EXCEPT !.errors = @ - 1]
          /\ hb' = Off /\ UNCHANGED ctq
    /\ UNCHANGED <<env, node, caw, sess, app, peer>>

\* An association setup request or response: the start time is learned, once; or the
\* message cannot be decoded.
TranslateAssnSetup ==
    /\ First(ttq, "AssnSetup") /\ ttq' = Tail(ttq)
    /\ \/ node' = IF node.start = 0 THEN [node EXCEPT !.start = Head(ttq).v] ELSE node
       \/ UNCHANGED node
    /\ UNCHANGED <<env, caw, sess, ctq, hb, app, peer, left>>

\* A session establishment: setRemoteSeid, and the application has the session;
\* or the message cannot be decoded, and the session is nobody's.
TranslateEst ==
    LET s == TheSession(Head(ttq)) IN
    /\ First(ttq, "EstReq") \/ First(ttq, "EstRsp")
    /\ ttq' = Tail(ttq)
    /\ \/ /\ rs' = [rs EXCEPT ![s] = Head(ttq).v]
          /\ phase' = [phase EXCEPT ![s] = "up"]
          /\ ctq' = Append(ctq, Event("AddSession", {s}, 0))
       \/ phase' = [phase EXCEPT ![s] = "lost"] /\ UNCHANGED <<rs, ctq>>
    /\ UNCHANGED <<env, node, caw, maps, hb, app, peer, left>>

-------------------------------------------------------------------------------
(* The remote node. *)

\* It restarts, and chooses SEIDs anew.
PeerRestart ==
    /\ peer.up /\ peer.start <= env.restarts
    /\ peer' = [up |-> TRUE, start |-> peer.start + 1, seids |-> {}]
    /\ UNCHANGED <<env, node, caw, sess, ttq, ctq, hb, app, left>>

PeerDies ==
    /\ peer.up /\ peer' = [peer EXCEPT !.up = FALSE]
    /\ UNCHANGED <<env, node, caw, sess, ttq, ctq, hb, app, left>>

Receive ==
    \/ \E type \in {"HeartbeatReq", "AssnSetup"} : ReceiveNodeMsg(type)
    \/ ReceiveHeartbeatRsp
    \/ \E s \in Sessions, seid \in Seids : ReceiveEstReq(s, seid) \/ ReceiveEstRsp(s, seid)

Handle ==
    OnAddSession \/ OnDelSession \/ OnDelNxtRmtSession \/ OnHeartbeat \/ OnSndReq

Translate == TranslateHeartbeat \/ EncodeHeartbeat \/ TranslateAssnSetup \/ TranslateEst

Next ==
    \/ AppCreateNode \/ Disconnect \/ DeleteAllSessions
    \/ \E s \in Sessions : AppCreateSession(s) \/ ReqTimeout(s) \/ Destroy(s)
    \/ Receive \/ ActivityTimer \/ HeartbeatTimeout \/ Handle \/ Translate
    \/ PeerRestart \/ PeerDies

\* The threads run, timers expire, and a call of disconnect goes on.  Nothing need
\* be received, and the application need not begin anything.
Spec ==
    /\ Init /\ [][Next]_vars
    /\ WF_vars(DeleteAllSessions) /\ WF_vars(Handle) /\ WF_vars(Translate)
    /\ WF_vars(ActivityTimer) /\ WF_vars(HeartbeatTimeout)

-------------------------------------------------------------------------------
\* The type of the node, its sessions and the queues.
TypeOK ==
    /\ env \in Envs /\ node \in Nodes /\ caw \in 0 .. Wnds - 1
    /\ maps.local \subseteq Sessions
    /\ DOMAIN maps.remote \subseteq Seids /\ Range(maps.remote) \subseteq Sessions
    /\ phase \in [Sessions -> {"free", "created", "answered", "asked", "up", "failed",
                               "lost", "gone"}]
    /\ rs \in [Sessions -> Seids \cup {0}]
    /\ ttq \in Seq(Events) /\ ctq \in Seq(Events)
    /\ hb \in Off .. HbN1 - 1 /\ app \in {"none", "disconnect"}
    /\ peer \in [up : BOOLEAN, start : Nat, seids : SUBSET Seids]
    /\ left \in [disconnects : 0 .. env.disconnects, errors : 0 .. env.errors]

Queued(type, s) == Event(type, {s}, 0) \in Range(ctq)
InRemote(s) == s \in Range(maps.remote)

\* Who is found by remote SEID has that SEID, and is found by local SEID as well.
RemoteIsLocal ==
    \A seid \in DOMAIN maps.remote :
        /\ rs[maps.remote[seid]] = seid
        /\ maps.remote[seid] \in maps.local

\* A session found by local SEID is found by remote SEID as soon as that is known,
\* unless another one has the same remote SEID.
LocalIsRemote ==
    \A s \in maps.local :
        \/ rs[s] = 0 \/ Queued("AddSession", s) \/ InRemote(s)
        \/ \E t \in Sessions \ {s} : rs[t] = rs[s]

\* A session that was destroyed is not found any more.
GoneIsGone ==
    \A s \in Sessions :
        phase[s] = "gone" /\ ~Queued("DelSession", s) => s \notin maps.local /\ ~InRemote(s)

\* The two maps of sessions agree with each other and with the sessions' lives: what
\* addSession, delSession and the chain of DelNxtRmtSession do to them, in any
\* order in which a session is destroyed after its establishment has ended, leaves no
\* session behind in one of them (epfcp.cpp 2302-2377).
SessionMapsAgree == RemoteIsLocal /\ LocalIsRemote /\ GoneIsGone

\* "Disconnects the remote peer and deletes all associated sessions" (epfcp.h,
\* disconnect): once the node is Stopped and nothing is queued, no session that was
\* established with it is found.
DisconnectDeletesAll ==
    node.state = "Stopped" /\ ttq = << >> /\ ctq = << >> =>
        \A s \in maps.local : phase[s] # "up"

\* A disconnection ends: the chain of DelNxtRmtSession runs out of sessions.
DisconnectEnds == node.state = "Stopping" ~> node.state # "Stopping"

\* A remote node that falls silent does not stay Started: a heartbeat is sent when
\* all windows have passed, and its timeouts fail the node.  One that could not be
\* encoded is followed by another, all windows later; if none ever can be encoded the
\* node stays Started (epfcp.cpp, onSndHeartbeatReqError).
SilenceNoticed == ~peer.up /\ env.heartbeats ~> node.state # "Started"
===============================================================================
