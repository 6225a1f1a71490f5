---------------------------- MODULE PfcpNodesProofs ----------------------------
(***************************************************************************)
(* The types of PfcpNodes, and the agreement of the maps of sessions, for  *)
(* any sessions, SEIDs, activity windows and environments.                 *)
(*                                                                         *)
(* SessionMapsAgree is not inductive: a session is added when its event is *)
(* handled, with the remote SEID that it has by then, so the invariant     *)
(* speaks of the events about each session that are queued.  It is         *)
(* established by one event at most, before it has a SEID; and once it is  *)
(* destroyed, its deletion is queued behind all its additions.             *)
(***************************************************************************)
EXTENDS PfcpNodes, TLAPS

\* An event about the session s, and one that establishes it.
Adds(e, s) == e = Event("AddSession", {s}, 0)
Deletes(e, s) == e = Event("DelSession", {s}, 0)
Establishes(e, s) == e.type \in {"EstReq", "EstRsp"} /\ e.s = {s}

\* Events about sessions carry one session; an establishment carries a SEID.
CtqEvents ==
    {e \in Events : e.type \in {"AddSession", "DelSession"} =>
        \E s \in Sessions : Adds(e, s) \/ Deletes(e, s)}
TtqEvents ==
    {e \in Events : e.type \in {"EstReq", "EstRsp"} =>
        e.v \in Seids /\ \E s \in Sessions : Establishes(e, s)}
Carried == ctq \in Seq(CtqEvents) /\ ttq \in Seq(TtqEvents)

TInv == TypeOK /\ Carried

\* The two orders of the events about s in the queue of the communication thread: a
\* deletion behind every addition, or no addition.
AddsBeforeDelete(q, s) ==
    \E d \in DOMAIN q :
        Deletes(q[d], s) /\ \A k \in DOMAIN q : Adds(q[k], s) => k < d
NoAdds(q, s) == \A k \in DOMAIN q : ~Adds(q[k], s)

\* s is established by an event of the queue of the translation thread, by at most
\* one.
Establishing(q, s) == \E k \in DOMAIN q : Establishes(q[k], s)
EstablishedOnce(q, s) ==
    \A j, k \in DOMAIN q : Establishes(q[j], s) /\ Establishes(q[k], s) => j = k

\* A session is established once, before the application has it.
OneEstablishment ==
    \A s \in Sessions :
        /\ EstablishedOnce(ttq, s)
        /\ Establishing(ttq, s) => phase[s] \in {"asked", "answered"}

\* The remote SEID is known only to a session that is or was up.
SeidKnown == \A s \in Sessions : rs[s] # 0 => phase[s] \in {"up", "gone"}

\* What was destroyed will be deleted after it was added, or is deleted for good.
Destroyed ==
    \A s \in Sessions : phase[s] = "gone" =>
        AddsBeforeDelete(ctq, s) \/ (NoAdds(ctq, s) /\ s \notin maps.local)

IInv ==
    /\ TInv
    /\ OneEstablishment /\ SeidKnown /\ Destroyed
    /\ RemoteIsLocal /\ LocalIsRemote
-------------------------------------------------------------------------------
(* The data. *)

\* The session of an event that carries one.
LEMMA TheSessionIs ==
    ASSUME NEW e, NEW s \in Sessions, e.s = {s}
    PROVE  TheSession(e) = s
BY DEF TheSession

\* The events that the communication thread is sent.
LEMMA CtqEventType ==
    /\ \A s \in Sessions :
          Event("AddSession", {s}, 0) \in CtqEvents /\ Event("DelSession", {s}, 0) \in CtqEvents
    /\ Event("DelNxtRmtSession", {}, 0) \in CtqEvents /\ Event("SndReq", {}, 0) \in CtqEvents
BY DEF Event, Events, CtqEvents, Adds, Deletes

\* The events that the translation thread is sent; heartbeats are passed on.
LEMMA TtqEventType ==
    /\ \A s \in Sessions, seid \in Seids :
          Event("EstReq", {s}, seid) \in TtqEvents /\ Event("EstRsp", {s}, seid) \in TtqEvents
    /\ \A v \in Nat, type \in {"HeartbeatReq", "HeartbeatRsp", "AssnSetup", "SndHeartbeatReq"} :
          Event(type, {}, v) \in TtqEvents
    /\ \A e \in TtqEvents : e.type \in {"HeartbeatReq", "HeartbeatRsp"} => e \in CtqEvents
BY RemoteNodeAssumption DEF Event, Events, CtqEvents, TtqEvents, Establishes

\* A queue without its first event, or with one more.
LEMMA QueueType ==
    ASSUME NEW S, NEW q \in Seq(S)
    PROVE  /\ q # << >> => Head(q) \in S /\ Tail(q) \in Seq(S)
           /\ \A e \in S : Append(q, e) \in Seq(S) /\ q \o <<e>> = Append(q, e)
           /\ q \o << >> = q
OBVIOUS

\* The operations of a remote node keep its type.
LEMMA NodeType ==
    ASSUME NEW n \in Nodes, NEW w \in 0 .. Wnds - 1
    PROVE  /\ NoNode \in Nodes
           /\ \A st \in States : ChangeState(n, st) \in Nodes
           /\ IncrementActivity(n, w) \in Nodes
           /\ NextActivityWnd(n, w) \in Nodes
           /\ CreateRemoteNode(n, w) \in Nodes
           /\ Heard(n, w) \in Nodes
<1> USE RemoteNodeAssumption
<1>1. NoNode \in Nodes /\ [NoNode EXCEPT !.state = "Initialized"] \in Nodes
  BY DEF NoNode, Nodes, States
<1>2. \A m \in Nodes, st \in States : ChangeState(m, st) \in Nodes
  BY DEF ChangeState, Nodes
<1>3. \A m \in Nodes : IncrementActivity(m, w) \in Nodes
  BY DEF IncrementActivity, Nodes
<1>4. \A m \in Nodes : NextActivityWnd(m, w) \in Nodes
  <2>1. \A m \in Nodes : CountWnd(m) \in Nodes
    BY DEF CountWnd, Nodes
  <2>2. \A m \in Nodes : ClearWnd(m, w) \in Nodes
    BY DEF ClearWnd, Nodes
  <2> QED
    BY <2>1, <2>2 DEF NextActivityWnd
<1>5. "Started" \in States
  BY DEF States
<1>6. CreateRemoteNode(n, w) \in Nodes
  BY <1>1, <1>2, <1>4, <1>5 DEF CreateRemoteNode
<1>7. Heard(n, w) \in Nodes
  BY <1>3, <1>6 DEF Heard
<1> QED
  BY <1>1, <1>2, <1>3, <1>4, <1>6, <1>7

\* A state assigned by any handler keeps the type.
LEMMA StateType ==
    ASSUME NEW n \in Nodes
    PROVE  /\ ChangeState(n, "Stopping") \in Nodes /\ ChangeState(n, "Stopped") \in Nodes
           /\ ChangeState(n, "Failed") \in Nodes /\ ChangeState(n, "Restarted") \in Nodes
BY DEF ChangeState, Nodes, States

\* The two maps are of the type that TypeOK says.
MapsType(m) ==
    /\ m.local \subseteq Sessions
    /\ DOMAIN m.remote \subseteq Seids /\ Range(m.remote) \subseteq Sessions

\* Adding and deleting a session keep that type.
LEMMA MapsStayTyped ==
    ASSUME NEW m, MapsType(m), NEW s \in Sessions, NEW r \in Seids \cup {0}
    PROVE  MapsType(AddSession(m, s, r)) /\ MapsType(DelSession(m, s, r))
<1>1. MapsType(AddSession(m, s, r))
  BY DEF MapsType, AddSession, Range
<1>2. MapsType(DelSession(m, s, r))
  BY DEF MapsType, DelSession, Restrict, Range
<1> QED
  BY <1>1, <1>2
-------------------------------------------------------------------------------
(* Types. *)

\* The initial states are typed.
LEMMA InitType == Init => TInv
<1> SUFFICES ASSUME Init PROVE TInv
  OBVIOUS
<1> USE RemoteNodeAssumption, NodesAssumption
<1>1. NoNode \in Nodes
  BY DEF NoNode, Nodes, States
<1>2. env.disconnects \in Nat
  BY DEF Init
<1>3. TypeOK
  BY <1>1, <1>2 DEF Init, TypeOK, NoMaps, Off, Range
<1>4. Carried
  BY DEF Init, Carried
<1> QED
  BY <1>3, <1>4 DEF TInv

\* The queues hold events.
LEMMA QueuesTyped ==
    Seq(CtqEvents) \subseteq Seq(Events) /\ Seq(TtqEvents) \subseteq Seq(Events)
BY DEF CtqEvents, TtqEvents

\* What taking and adding events makes of the queues.
LEMMA Queues ==
    ASSUME Carried
    PROVE  /\ ctq \in Seq(CtqEvents) /\ ttq \in Seq(TtqEvents)
           /\ ctq # << >> => /\ Head(ctq) \in CtqEvents /\ Tail(ctq) \in Seq(CtqEvents)
                             /\ \A e \in CtqEvents : Append(Tail(ctq), e) \in Seq(CtqEvents)
           /\ \A e \in CtqEvents : Append(ctq, e) \in Seq(CtqEvents)
           /\ ttq # << >> => Head(ttq) \in TtqEvents /\ Tail(ttq) \in Seq(TtqEvents)
           /\ \A e \in TtqEvents :
                 Append(ttq, e) \in Seq(TtqEvents) /\ ttq \o <<e>> \in Seq(TtqEvents)
           /\ ttq \o << >> \in Seq(TtqEvents)
<1>1. /\ ctq # << >> => /\ Head(ctq) \in CtqEvents /\ Tail(ctq) \in Seq(CtqEvents)
                        /\ \A e \in CtqEvents : Append(Tail(ctq), e) \in Seq(CtqEvents)
      /\ \A e \in CtqEvents : Append(ctq, e) \in Seq(CtqEvents)
  BY DEF Carried
<1>2. /\ ttq # << >> => Head(ttq) \in TtqEvents /\ Tail(ttq) \in Seq(TtqEvents)
      /\ \A e \in TtqEvents :
            Append(ttq, e) \in Seq(TtqEvents) /\ ttq \o <<e>> \in Seq(TtqEvents)
      /\ ttq \o << >> \in Seq(TtqEvents)
  BY DEF Carried
<1> QED
  BY <1>1, <1>2 DEF Carried

\* The session of the first event, if it is about one.
LEMMA HeadSession ==
    ASSUME Carried
    PROVE  /\ First(ctq, "AddSession") => \E s \in Sessions :
                 Adds(Head(ctq), s) /\ TheSession(Head(ctq)) = s
           /\ First(ctq, "DelSession") => \E s \in Sessions :
                 Deletes(Head(ctq), s) /\ TheSession(Head(ctq)) = s
           /\ First(ttq, "EstReq") \/ First(ttq, "EstRsp") => Head(ttq).v \in Seids /\
                 \E s \in Sessions : Establishes(Head(ttq), s) /\ TheSession(Head(ttq)) = s
<1>1. ctq # << >> => Head(ctq) \in CtqEvents
  BY QueueType DEF Carried
<1>2. ttq # << >> => Head(ttq) \in TtqEvents
  BY QueueType DEF Carried
<1>3. ASSUME NEW s \in Sessions
      PROVE  /\ Event("AddSession", {s}, 0).s = {s} /\ Event("AddSession", {s}, 0).type = "AddSession"
             /\ Event("DelSession", {s}, 0).s = {s} /\ Event("DelSession", {s}, 0).type = "DelSession"
  BY DEF Event
<1>4. ASSUME First(ctq, "AddSession")
      PROVE  \E s \in Sessions : Adds(Head(ctq), s) /\ TheSession(Head(ctq)) = s
  <2>1. PICK s \in Sessions : Adds(Head(ctq), s) \/ Deletes(Head(ctq), s)
    BY <1>1, <1>4 DEF First, CtqEvents
  <2>2. Adds(Head(ctq), s) /\ Head(ctq).s = {s}
    BY <1>3, <1>4, <2>1 DEF First, Adds, Deletes
  <2> QED
    BY <2>2, TheSessionIs
<1>5. ASSUME First(ctq, "DelSession")
      PROVE  \E s \in Sessions : Deletes(Head(ctq), s) /\ TheSession(Head(ctq)) = s
  <2>1. PICK s \in Sessions : Adds(Head(ctq), s) \/ Deletes(Head(ctq), s)
    BY <1>1, <1>5 DEF First, CtqEvents
  <2>2. Deletes(Head(ctq), s) /\ Head(ctq).s = {s}
    BY <1>3, <1>5, <2>1 DEF First, Adds, Deletes
  <2> QED
    BY <2>2, TheSessionIs
<1>6. ASSUME First(ttq, "EstReq") \/ First(ttq, "EstRsp")
      PROVE  Head(ttq).v \in Seids /\
             \E s \in Sessions : Establishes(Head(ttq), s) /\ TheSession(Head(ttq)) = s
  <2>1. Head(ttq).v \in Seids
    BY <1>2, <1>6 DEF First, TtqEvents
  <2>2. PICK s \in Sessions : Establishes(Head(ttq), s)
    BY <1>2, <1>6 DEF First, TtqEvents
  <2>3. TheSession(Head(ttq)) = s
    BY <2>2, TheSessionIs DEF Establishes
  <2> QED
    BY <2>1, <2>2, <2>3
<1> QED
  BY <1>4, <1>5, <1>6

\* The application keeps the types.
LEMMA AppTypes ==
    ASSUME TInv,
           \/ AppCreateNode \/ Disconnect \/ DeleteAllSessions
           \/ \E s \in Sessions : AppCreateSession(s) \/ ReqTimeout(s) \/ Destroy(s)
    PROVE  TInv'
<1> USE Queues, QueuesTyped DEF TInv
<1>1. ASSUME AppCreateNode PROVE TInv'
  <2>1. node' \in Nodes
    BY <1>1, NodeType DEF AppCreateNode, TypeOK
  <2> QED
    BY <1>1, <2>1 DEF AppCreateNode, TypeOK, Carried, sess
<1>2. ASSUME NEW s \in Sessions, AppCreateSession(s) PROVE TInv'
  <2>1. ctq' \in Seq(CtqEvents) /\ ttq' \in Seq(TtqEvents)
    BY <1>2, CtqEventType DEF AppCreateSession
  <2>2. TypeOK'
    BY <1>2, <2>1 DEF AppCreateSession, TypeOK
  <2> QED
    BY <2>1, <2>2 DEF Carried
<1>3. ASSUME NEW s \in Sessions, ReqTimeout(s) PROVE TInv'
  BY <1>3 DEF ReqTimeout, TypeOK, Carried
<1>4. ASSUME NEW s \in Sessions, Destroy(s) PROVE TInv'
  <2>1. ctq' \in Seq(CtqEvents) /\ ttq' \in Seq(TtqEvents)
    BY <1>4, CtqEventType DEF Destroy
  <2>2. TypeOK'
    BY <1>4, <2>1 DEF Destroy, TypeOK
  <2> QED
    BY <2>1, <2>2 DEF Carried
<1>5. ASSUME Disconnect PROVE TInv'
  <2>1. node' \in Nodes
    BY <1>5, StateType DEF Disconnect, TypeOK
  <2>2. left' \in [disconnects : 0 .. env.disconnects, errors : 0 .. env.errors]
    <3>1. env.disconnects \in Nat /\ left.disconnects \in 0 .. env.disconnects
      BY NodesAssumption DEF TypeOK
    <3> QED
      BY <1>5, <3>1 DEF Disconnect, TypeOK
  <2> QED
    BY <1>5, <2>1, <2>2 DEF Disconnect, TypeOK, Carried, sess
<1>6. ASSUME DeleteAllSessions PROVE TInv'
  <2>1. ctq' \in Seq(CtqEvents) /\ ttq' \in Seq(TtqEvents)
    BY <1>6, CtqEventType DEF DeleteAllSessions
  <2>2. TypeOK'
    BY <1>6, <2>1 DEF DeleteAllSessions, TypeOK, sess
  <2> QED
    BY <2>1, <2>2 DEF Carried
<1> QED
  BY <1>1, <1>2, <1>3, <1>4, <1>5, <1>6

\* What is received keeps the types.
LEMMA ReceiveTypes ==
    ASSUME TInv, Receive
    PROVE  TInv'
<1> USE Queues, QueuesTyped DEF TInv
<1>1. ASSUME NEW events, OnReceive(events), events \in {<< >>} \cup {<<e>> : e \in TtqEvents}
      PROVE  node' \in Nodes /\ ttq' \in Seq(TtqEvents) /\ ttq' \in Seq(Events)
  <2>1. node' \in Nodes
    BY <1>1, NodeType DEF OnReceive, TypeOK
  <2>2. ttq' \in Seq(TtqEvents)
    BY <1>1 DEF OnReceive
  <2> QED
    BY <2>1, <2>2
<1>2. peer.start \in Nat
  BY DEF TypeOK
<1>3. ASSUME NEW type \in {"HeartbeatReq", "AssnSetup"}, ReceiveNodeMsg(type) PROVE TInv'
  <2>1. Event(type, {}, peer.start) \in TtqEvents
    BY <1>2, TtqEventType
  <2>2. OnReceive(<<Event(type, {}, peer.start)>>)
    BY <1>3 DEF ReceiveNodeMsg
  <2>3. node' \in Nodes /\ ttq' \in Seq(TtqEvents) /\ ttq' \in Seq(Events)
    BY <2>1, <2>2, <1>1
  <2> QED
    BY <1>3, <2>3 DEF ReceiveNodeMsg, OnReceive, TypeOK, Carried
<1>4. ASSUME ReceiveHeartbeatRsp PROVE TInv'
  <2>1. Event("HeartbeatRsp", {}, peer.start) \in TtqEvents
    BY <1>2, TtqEventType
  <2>2. node' \in Nodes /\ ttq' \in Seq(TtqEvents) /\ ttq' \in Seq(Events)
    BY <1>4, <2>1, <1>1 DEF ReceiveHeartbeatRsp
  <2>3. hb' \in Off .. HbN1 - 1
    BY <1>4, NodesAssumption DEF ReceiveHeartbeatRsp, TypeOK, Off
  <2> QED
    BY <1>4, <2>2, <2>3 DEF ReceiveHeartbeatRsp, OnReceive, TypeOK, Carried
<1>5. ASSUME NEW s \in Sessions, NEW seid \in Seids, ReceiveEstReq(s, seid) PROVE TInv'
  <2>1. Event("EstReq", {s}, seid) \in TtqEvents
    BY TtqEventType
  <2>2. node' \in Nodes /\ ttq' \in Seq(TtqEvents) /\ ttq' \in Seq(Events)
    BY <1>5, <2>1, <1>1 DEF ReceiveEstReq
  <2>3. ctq' \in Seq(CtqEvents)
    BY <1>5, CtqEventType DEF ReceiveEstReq
  <2>4. peer' \in [up : BOOLEAN, start : Nat, seids : SUBSET Seids]
    BY <1>5 DEF ReceiveEstReq, TypeOK
  <2> QED
    BY <1>5, <2>2, <2>3, <2>4 DEF ReceiveEstReq, OnReceive, TypeOK, Carried
<1>6. ASSUME NEW s \in Sessions, NEW seid \in Seids, ReceiveEstRsp(s, seid) PROVE TInv'
  <2>1. Event("EstRsp", {s}, seid) \in TtqEvents
    BY TtqEventType
  <2>2. node' \in Nodes /\ ttq' \in Seq(TtqEvents) /\ ttq' \in Seq(Events)
    BY <1>6, <2>1, <1>1 DEF ReceiveEstRsp
  <2>3. peer' \in [up : BOOLEAN, start : Nat, seids : SUBSET Seids]
    BY <1>6 DEF ReceiveEstRsp, TypeOK
  <2> QED
    BY <1>6, <2>2, <2>3 DEF ReceiveEstRsp, OnReceive, TypeOK, Carried
<1> QED
  BY <1>3, <1>4, <1>5, <1>6 DEF Receive

\* The timers, and the remote node itself, keep the types.
LEMMA TimerTypes ==
    ASSUME TInv, ActivityTimer \/ HeartbeatTimeout \/ PeerRestart \/ PeerDies
    PROVE  TInv'
<1> USE Queues, QueuesTyped DEF TInv
<1>1. ASSUME ActivityTimer PROVE TInv'
  <2>1. caw \in 0 .. Wnds - 1 /\ caw' \in 0 .. Wnds - 1
    BY <1>1, RemoteNodeAssumption DEF ActivityTimer, TypeOK
  <2>2. IncrementActivity(node, caw) \in Nodes
    BY <2>1, NodeType DEF TypeOK
  <2>3. node' \in Nodes
    BY <1>1, <2>1, <2>2, NodeType DEF ActivityTimer, TypeOK
  <2>4. ttq' \in Seq(TtqEvents)
    BY <1>1, TtqEventType DEF ActivityTimer
  <2>5. hb' \in Off .. HbN1 - 1
    BY <1>1, NodesAssumption DEF ActivityTimer, TypeOK, Off, Coding
  <2> QED
    BY <1>1, <2>1, <2>3, <2>4, <2>5 DEF ActivityTimer, TypeOK, Carried, sess
<1>2. ASSUME HeartbeatTimeout PROVE TInv'
  <2>1. node' \in Nodes
    BY <1>2, StateType DEF HeartbeatTimeout, TypeOK
  <2>2. hb' \in Off .. HbN1 - 1
    BY <1>2, NodesAssumption DEF HeartbeatTimeout, TypeOK, Off
  <2> QED
    BY <1>2, <2>1, <2>2 DEF HeartbeatTimeout, TypeOK, Carried, sess
<1>3. ASSUME PeerRestart PROVE TInv'
  <2>1. peer.start + 1 \in Nat
    BY DEF TypeOK
  <2>2. peer' \in [up : BOOLEAN, start : Nat, seids : SUBSET Seids]
    BY <1>3, <2>1 DEF PeerRestart
  <2> QED
    BY <1>3, <2>2 DEF PeerRestart, TypeOK, Carried, sess
<1>4. ASSUME PeerDies PROVE TInv'
  <2>1. peer' \in [up : BOOLEAN, start : Nat, seids : SUBSET Seids]
    BY <1>4 DEF PeerDies, TypeOK
  <2> QED
    BY <1>4, <2>1 DEF PeerDies, TypeOK, Carried, sess
<1> QED
  BY <1>1, <1>2, <1>3, <1>4

\* The handlers of the communication thread keep the types.
LEMMA HandleTypes ==
    ASSUME TInv, Handle
    PROVE  TInv'
<1> USE Queues, QueuesTyped DEF TInv
<1>1. \A s \in Sessions : rs[s] \in Seids \cup {0}
  BY DEF TypeOK
<1>2. MapsType(maps)
  BY DEF TypeOK, MapsType
<1>3. ASSUME OnAddSession PROVE TInv'
  <2>1. MapsType(maps')
    BY <1>1, <1>2, <1>3, HeadSession, MapsStayTyped DEF OnAddSession
  <2>2. ctq' \in Seq(CtqEvents)
    BY <1>3 DEF OnAddSession, First
  <2> QED
    BY <1>3, <2>1, <2>2 DEF OnAddSession, TypeOK, Carried, MapsType
<1>4. ASSUME OnDelSession PROVE TInv'
  <2>1. MapsType(maps')
    BY <1>1, <1>2, <1>4, HeadSession, MapsStayTyped DEF OnDelSession
  <2>2. ctq' \in Seq(CtqEvents)
    BY <1>4 DEF OnDelSession, First
  <2> QED
    BY <1>4, <2>1, <2>2 DEF OnDelSession, TypeOK, Carried, MapsType
<1>5. ASSUME OnDelNxtRmtSession PROVE TInv'
  <2>1. ctq' \in Seq(CtqEvents)
    BY <1>5 DEF OnDelNxtRmtSession, First
  <2>2. MapsType(maps')
    BY <1>1, <1>2, <1>5, MapsStayTyped DEF OnDelNxtRmtSession, FirstSessions, MapsType
  <2>3. node' \in Nodes
    BY <1>5, StateType DEF OnDelNxtRmtSession, TypeOK
  <2> QED
    BY <1>5, <2>1, <2>2, <2>3 DEF OnDelNxtRmtSession, TypeOK, Carried, MapsType
<1>6. ASSUME OnHeartbeat PROVE TInv'
  <2>1. ctq' \in Seq(CtqEvents)
    BY <1>6 DEF OnHeartbeat, First
  <2>2. node' \in Nodes
    BY <1>6, StateType DEF OnHeartbeat, TypeOK
  <2> QED
    BY <1>6, <2>1, <2>2 DEF OnHeartbeat, TypeOK, Carried, sess
<1>7. ASSUME OnSndReq PROVE TInv'
  <2>1. ctq' \in Seq(CtqEvents)
    BY <1>7 DEF OnSndReq, First
  <2>2. hb' \in Off .. HbN1 - 1
    BY <1>7, NodesAssumption DEF OnSndReq, Off
  <2> QED
    BY <1>7, <2>1, <2>2 DEF OnSndReq, TypeOK, Carried, sess
<1> QED
  BY <1>3, <1>4, <1>5, <1>6, <1>7 DEF Handle

\* The translation thread keeps the types.
LEMMA TranslateTypes ==
    ASSUME TInv, Translate
    PROVE  TInv'
<1> USE Queues, QueuesTyped DEF TInv
<1>1. ASSUME TranslateHeartbeat PROVE TInv'
  <2>1. ttq' \in Seq(TtqEvents)
    BY <1>1 DEF TranslateHeartbeat, First
  <2>2. ctq' \in Seq(CtqEvents)
    BY <1>1, CtqEventType, TtqEventType DEF TranslateHeartbeat, First
  <2> QED
    BY <1>1, <2>1, <2>2 DEF TranslateHeartbeat, TypeOK, Carried, sess
<1>4. ASSUME EncodeHeartbeat PROVE TInv'
  <2>1. ttq' \in Seq(TtqEvents)
    BY <1>4 DEF EncodeHeartbeat, First
  <2>2. ctq' \in Seq(CtqEvents)
    BY <1>4, CtqEventType DEF EncodeHeartbeat
  <2>3. left' \in [disconnects : 0 .. env.disconnects, errors : 0 .. env.errors]
    <3>1. env.errors \in Nat /\ left.errors \in 0 .. env.errors
      BY NodesAssumption DEF TypeOK
    <3> QED
      BY <1>4, <3>1 DEF EncodeHeartbeat, TypeOK
  <2>4. hb' \in Off .. HbN1 - 1
    BY <1>4, NodesAssumption DEF EncodeHeartbeat, TypeOK, Off
  <2> QED
    BY <1>4, <2>1, <2>2, <2>3, <2>4 DEF EncodeHeartbeat, TypeOK, Carried, sess
<1>2. ASSUME TranslateAssnSetup PROVE TInv'
  <2>1. ttq' \in Seq(TtqEvents)
    BY <1>2 DEF TranslateAssnSetup, First
  <2>2. Head(ttq).v \in Nat
    BY <1>2 DEF TranslateAssnSetup, First, TtqEvents, Events
  <2>3. node' \in Nodes
    BY <1>2, <2>2 DEF TranslateAssnSetup, TypeOK, Nodes
  <2> QED
    BY <1>2, <2>1, <2>3 DEF TranslateAssnSetup, TypeOK, Carried, sess
<1>3. ASSUME TranslateEst PROVE TInv'
  <2>1. ttq' \in Seq(TtqEvents)
    BY <1>3 DEF TranslateEst, First
  <2>2. PICK s \in Sessions : TheSession(Head(ttq)) = s /\ Head(ttq).v \in Seids
    BY <1>3, HeadSession DEF TranslateEst
  <2>3. ctq' \in Seq(CtqEvents)
    BY <1>3, <2>2, CtqEventType DEF TranslateEst
  <2>4. rs' \in [Sessions -> Seids \cup {0}]
    BY <1>3, <2>2 DEF TranslateEst, TypeOK
  <2>5. phase' \in [Sessions -> {"free", "created", "answered", "asked", "up", "failed",
                                 "lost", "gone"}]
    BY <1>3, <2>2 DEF TranslateEst, TypeOK
  <2> QED
    BY <1>3, <2>1, <2>3, <2>4, <2>5 DEF TranslateEst, TypeOK, Carried
<1> QED
  BY <1>1, <1>2, <1>3, <1>4 DEF Translate

\* Each step keeps the types.
LEMMA TypeStep == TInv /\ [Next]_vars => TInv'
<1>1. ASSUME TInv, UNCHANGED vars PROVE TInv'
  BY <1>1 DEF TInv, TypeOK, Carried, vars, sess
<1> QED
  BY <1>1, AppTypes, ReceiveTypes, TimerTypes, HandleTypes, TranslateTypes DEF Next

\* The node, its sessions, the queues and the heartbeat are of their types for any
\* sessions, SEIDs, windows and environments; the activity windows begun are never
\* more than there are (epfcp.cpp 579-585).
THEOREM TypeCorrect == Spec => []TypeOK
<1>1. TInv => TypeOK
  BY DEF TInv
<1> QED
  BY InitType, TypeStep, <1>1, PTL DEF Spec
-------------------------------------------------------------------------------
(* The queues and the sessions. *)

\* The two events of the communication thread about sessions differ from each other,
\* from those about other sessions and from all other events.
LEMMA EventsDiffer ==
    ASSUME NEW s \in Sessions, NEW t \in Sessions
    PROVE  /\ ~Adds(Event("DelSession", {t}, 0), s) /\ ~Deletes(Event("AddSession", {t}, 0), s)
           /\ Adds(Event("AddSession", {t}, 0), s) => s = t
           /\ Deletes(Event("DelSession", {t}, 0), s) => s = t
           /\ \A e : e.type \notin {"AddSession", "DelSession"} => ~Adds(e, s) /\ ~Deletes(e, s)
           /\ ~Adds(Event("DelNxtRmtSession", {}, 0), s) /\ ~Adds(Event("SndReq", {}, 0), s)
BY DEF Adds, Deletes, Event

\* An event added to a queue that is not the addition of s keeps the order of the
\* events about s; the deletion of s establishes it.
LEMMA AppendKeepsOrder ==
    ASSUME NEW S, NEW q \in Seq(S), NEW e \in S, NEW s \in Sessions
    PROVE  /\ ~Adds(e, s) /\ AddsBeforeDelete(q, s) => AddsBeforeDelete(Append(q, e), s)
           /\ ~Adds(e, s) /\ NoAdds(q, s) => NoAdds(Append(q, e), s)
           /\ ~Adds(e, s) /\ Deletes(e, s) => AddsBeforeDelete(Append(q, e), s)
<1> DEFINE r == Append(q, e)
<1>1. /\ DOMAIN r = 1 .. Len(q) + 1 /\ DOMAIN q = 1 .. Len(q) /\ Len(q) \in Nat
      /\ \A k \in DOMAIN q : r[k] = q[k]
      /\ r[Len(q) + 1] = e
  OBVIOUS
<1> HIDE DEF r
<1>2. ASSUME ~Adds(e, s), AddsBeforeDelete(q, s) PROVE AddsBeforeDelete(r, s)
  <2>1. PICK d \in DOMAIN q : Deletes(q[d], s) /\ \A k \in DOMAIN q : Adds(q[k], s) => k < d
    BY <1>2 DEF AddsBeforeDelete
  <2>2. d \in DOMAIN r /\ Deletes(r[d], s)
    BY <1>1, <2>1
  <2>3. ASSUME NEW k \in DOMAIN r, Adds(r[k], s) PROVE k < d
    <3>1. k \in DOMAIN q
      BY <1>1, <1>2, <2>3
    <3> QED
      BY <1>1, <2>1, <2>3, <3>1
  <2> QED
    BY <2>2, <2>3 DEF AddsBeforeDelete
<1>3. ASSUME ~Adds(e, s), NoAdds(q, s) PROVE NoAdds(r, s)
  BY <1>1, <1>3 DEF NoAdds
<1>4. ASSUME ~Adds(e, s), Deletes(e, s) PROVE AddsBeforeDelete(r, s)
  BY <1>1, <1>4 DEF AddsBeforeDelete
<1> QED
  BY <1>2, <1>3, <1>4 DEF r

\* Without its first event a queue keeps the order of the events about s, unless
\* that event is the last deletion of s, which leaves no addition.
LEMMA TailKeepsOrder ==
    ASSUME NEW S, NEW q \in Seq(S), q # << >>, NEW s \in Sessions
    PROVE  /\ AddsBeforeDelete(q, s) =>
                 \/ AddsBeforeDelete(Tail(q), s)
                 \/ Deletes(Head(q), s) /\ NoAdds(Tail(q), s)
           /\ NoAdds(q, s) => NoAdds(Tail(q), s)
<1> DEFINE r == Tail(q)
<1>1. /\ DOMAIN q = 1 .. Len(q) /\ DOMAIN r = 1 .. Len(q) - 1 /\ Len(q) \in Nat \ {0}
      /\ \A k \in DOMAIN r : r[k] = q[k + 1]
      /\ Head(q) = q[1]
  OBVIOUS
<1> HIDE DEF r
<1>2. ASSUME AddsBeforeDelete(q, s), ~(Deletes(Head(q), s) /\ NoAdds(r, s))
      PROVE  AddsBeforeDelete(r, s)
  <2>1. PICK d \in DOMAIN q : Deletes(q[d], s) /\ \A k \in DOMAIN q : Adds(q[k], s) => k < d
    BY <1>2 DEF AddsBeforeDelete
  <2>2. \A k \in DOMAIN r : Adds(r[k], s) => k + 1 < d
    BY <1>1, <2>1
  <2>3. d # 1
    <3>1. SUFFICES ASSUME d = 1 PROVE FALSE
      OBVIOUS
    <3>2. Deletes(Head(q), s) /\ NoAdds(r, s)
      BY <1>1, <2>1, <2>2, <3>1 DEF NoAdds
    <3> QED
      BY <1>2, <3>2
  <2>4. d - 1 \in DOMAIN r /\ Deletes(r[d - 1], s)
    BY <1>1, <2>1, <2>3
  <2> QED
    BY <1>1, <2>2, <2>4 DEF AddsBeforeDelete
<1>3. ASSUME NoAdds(q, s) PROVE NoAdds(r, s)
  BY <1>1, <1>3 DEF NoAdds
<1> QED
  BY <1>2, <1>3 DEF r

\* What is in a queue stays when an event is added, and when another is taken.
LEMMA RangeKept ==
    ASSUME NEW S, NEW q \in Seq(S)
    PROVE  /\ \A e \in S : Range(Append(q, e)) = Range(q) \cup {e}
           /\ q # << >> => \A x \in Range(q) : x = Head(q) \/ x \in Range(Tail(q))
<1>1. ASSUME NEW e \in S PROVE Range(Append(q, e)) = Range(q) \cup {e}
  <2>1. /\ DOMAIN Append(q, e) = DOMAIN q \cup {Len(q) + 1}
        /\ \A k \in DOMAIN q : Append(q, e)[k] = q[k]
        /\ Append(q, e)[Len(q) + 1] = e
    OBVIOUS
  <2> QED
    BY <2>1 DEF Range
<1>2. ASSUME q # << >>, NEW x \in Range(q) PROVE x = Head(q) \/ x \in Range(Tail(q))
  <2>1. PICK k \in DOMAIN q : x = q[k]
    BY DEF Range
  <2>2. CASE k = 1
    BY <1>2, <2>1, <2>2
  <2>3. CASE k # 1
    <3>1. k - 1 \in DOMAIN Tail(q) /\ Tail(q)[k - 1] = q[k]
      BY <1>2, <2>3
    <3> QED
      BY <2>1, <3>1 DEF Range
  <2> QED
    BY <2>2, <2>3
<1> QED
  BY <1>1, <1>2

\* An event added to the queue of the translation thread establishes a session, or
\* leaves the establishments as they are.
LEMMA AppendEstablishment ==
    ASSUME NEW S, NEW q \in Seq(S), NEW e \in S, NEW s \in Sessions, EstablishedOnce(q, s)
    PROVE  /\ Establishing(Append(q, e), s) => Establishing(q, s) \/ Establishes(e, s)
           /\ ~Establishing(q, s) \/ ~Establishes(e, s) => EstablishedOnce(Append(q, e), s)
<1> DEFINE r == Append(q, e)
<1>1. /\ DOMAIN r = DOMAIN q \cup {Len(q) + 1}
      /\ \A k \in DOMAIN q : r[k] = q[k]
      /\ r[Len(q) + 1] = e
  OBVIOUS
<1> HIDE DEF r
<1>2. Establishing(r, s) => Establishing(q, s) \/ Establishes(e, s)
  BY <1>1 DEF Establishing
<1>3. ASSUME ~Establishing(q, s) \/ ~Establishes(e, s) PROVE EstablishedOnce(r, s)
  BY <1>1, <1>3 DEF Establishing, EstablishedOnce
<1> QED
  BY <1>2, <1>3 DEF r

\* Without its first event the queue establishes what it did, less that one.
LEMMA TailEstablishment ==
    ASSUME NEW S, NEW q \in Seq(S), q # << >>, NEW s \in Sessions, EstablishedOnce(q, s)
    PROVE  /\ EstablishedOnce(Tail(q), s)
           /\ Establishing(Tail(q), s) => Establishing(q, s) /\ ~Establishes(Head(q), s)
           /\ Establishes(Head(q), s) => Establishing(q, s)
<1> DEFINE r == Tail(q)
<1>1. /\ DOMAIN q = 1 .. Len(q) /\ DOMAIN r = 1 .. Len(q) - 1 /\ Len(q) \in Nat \ {0}
      /\ \A k \in DOMAIN r : r[k] = q[k + 1]
      /\ Head(q) = q[1]
  OBVIOUS
<1> HIDE DEF r
<1>2. EstablishedOnce(r, s)
  <2>1. SUFFICES ASSUME NEW j \in DOMAIN r, NEW k \in DOMAIN r,
                        Establishes(r[j], s), Establishes(r[k], s)
                 PROVE  j = k
    BY DEF EstablishedOnce
  <2>2. j + 1 \in DOMAIN q /\ k + 1 \in DOMAIN q
    BY <1>1
  <2>3. j + 1 = k + 1
    BY <1>1, <2>1, <2>2 DEF EstablishedOnce
  <2> QED
    BY <1>1, <2>3
<1>3. ASSUME Establishing(r, s) PROVE Establishing(q, s) /\ ~Establishes(Head(q), s)
  <2>1. PICK k \in DOMAIN r : Establishes(r[k], s)
    BY <1>3 DEF Establishing
  <2>2. k + 1 \in DOMAIN q /\ k + 1 # 1 /\ Establishes(q[k + 1], s) /\ 1 \in DOMAIN q
    BY <1>1, <2>1
  <2> QED
    BY <1>1, <2>2 DEF Establishing, EstablishedOnce
<1>4. ASSUME Establishes(Head(q), s) PROVE Establishing(q, s)
  BY <1>1, <1>4 DEF Establishing
<1> QED
  BY <1>2, <1>3, <1>4 DEF r
-------------------------------------------------------------------------------
(* What a step does to the queues, as far as the session s is concerned. *)

\* The order of the additions and the deletion of s is kept.
OrderKept(s) ==
    /\ AddsBeforeDelete(ctq, s) => AddsBeforeDelete(ctq', s)
    /\ NoAdds(ctq, s) => NoAdds(ctq', s)

\* An addition of s that was queued still is.
AddKept(s) == Queued("AddSession", s) => Queued("AddSession", s)'

CtqKept == \A s \in Sessions : OrderKept(s) /\ AddKept(s)

\* No establishment is added.
TtqKept ==
    \A s \in Sessions :
        /\ EstablishedOnce(ttq', s)
        /\ Establishing(ttq', s) => Establishing(ttq, s)

\* A queue that stays as it is.
LEMMA QueuesSame ==
    ASSUME IInv
    PROVE  (ctq' = ctq => CtqKept) /\ (ttq' = ttq => TtqKept)
<1>1. ctq' = ctq => CtqKept
  BY DEF CtqKept, OrderKept, AddKept, Queued
<1>2. ttq' = ttq => TtqKept
  BY DEF TtqKept, IInv, OneEstablishment
<1> QED
  BY <1>1, <1>2

\* An event e is added to the queue of the communication thread.
LEMMA CtqAppended ==
    ASSUME Carried, NEW e \in CtqEvents, ctq' = Append(ctq, e), NEW s \in Sessions
    PROVE  /\ ~Adds(e, s) => OrderKept(s)
           /\ ~Adds(e, s) /\ Deletes(e, s) => AddsBeforeDelete(ctq', s)
           /\ AddKept(s)
           /\ Adds(e, s) => Queued("AddSession", s)'
<1>1. ctq \in Seq(CtqEvents)
  BY DEF Carried
<1>2. Range(ctq') = Range(ctq) \cup {e}
  BY <1>1, RangeKept
<1>3. /\ ~Adds(e, s) => OrderKept(s)
      /\ ~Adds(e, s) /\ Deletes(e, s) => AddsBeforeDelete(ctq', s)
  BY <1>1, AppendKeepsOrder DEF OrderKept
<1>4. AddKept(s) /\ (Adds(e, s) => Queued("AddSession", s)')
  BY <1>2 DEF AddKept, Queued, Adds
<1> QED
  BY <1>3, <1>4

\* The first event of the communication thread is taken.
LEMMA CtqTaken ==
    ASSUME Carried, ctq # << >>, ctq' = Tail(ctq), NEW s \in Sessions
    PROVE  /\ ~Deletes(Head(ctq), s) => OrderKept(s)
           /\ ~Adds(Head(ctq), s) => AddKept(s)
           /\ AddsBeforeDelete(ctq, s) => AddsBeforeDelete(ctq', s) \/ NoAdds(ctq', s)
           /\ NoAdds(ctq, s) => NoAdds(ctq', s)
<1>1. ctq \in Seq(CtqEvents)
  BY DEF Carried
<1>2. /\ ~Deletes(Head(ctq), s) => OrderKept(s)
      /\ AddsBeforeDelete(ctq, s) => AddsBeforeDelete(ctq', s) \/ NoAdds(ctq', s)
      /\ NoAdds(ctq, s) => NoAdds(ctq', s)
  BY <1>1, TailKeepsOrder DEF OrderKept
<1>3. ~Adds(Head(ctq), s) => AddKept(s)
  BY <1>1, RangeKept DEF AddKept, Queued, Adds
<1> QED
  BY <1>2, <1>3

\* An event is added to the queue of the translation thread.
LEMMA TtqAppended ==
    ASSUME IInv, NEW e \in TtqEvents, ttq' = ttq \o <<e>>, NEW s \in Sessions
    PROVE  /\ ~Establishing(ttq, s) \/ ~Establishes(e, s) => EstablishedOnce(ttq', s)
           /\ Establishing(ttq', s) => Establishing(ttq, s) \/ Establishes(e, s)
<1>1. ttq \in Seq(TtqEvents) /\ EstablishedOnce(ttq, s)
  BY DEF IInv, TInv, Carried, OneEstablishment
<1>2. ttq' = Append(ttq, e)
  BY <1>1
<1> QED
  BY <1>1, <1>2, AppendEstablishment

\* The first event of the translation thread is taken.
LEMMA TtqTaken ==
    ASSUME IInv, ttq # << >>, ttq' = Tail(ttq), NEW s \in Sessions
    PROVE  /\ EstablishedOnce(ttq', s)
           /\ Establishing(ttq', s) => Establishing(ttq, s) /\ ~Establishes(Head(ttq), s)
           /\ Establishes(Head(ttq), s) => Establishing(ttq, s)
<1>1. ttq \in Seq(TtqEvents) /\ EstablishedOnce(ttq, s)
  BY DEF IInv, TInv, Carried, OneEstablishment
<1> QED
  BY <1>1, TailEstablishment

\* LocalIsRemote outlasts a step that leaves the maps and the SEIDs alone.
LEMMA LocalStays ==
    ASSUME TInv, LocalIsRemote, maps' = maps, rs' = rs, \A s \in Sessions : AddKept(s)
    PROVE  LocalIsRemote'
<1>1. maps.local \subseteq Sessions
  BY DEF TInv, TypeOK
<1>2. SUFFICES ASSUME NEW s \in maps.local
               PROVE  \/ rs[s] = 0 \/ Queued("AddSession", s)' \/ InRemote(s)
                      \/ \E t \in Sessions \ {s} : rs[t] = rs[s]
  BY DEF LocalIsRemote, InRemote
<1> QED
  BY <1>1 DEF LocalIsRemote, AddKept

\* A step that leaves the sessions alone and adds no event about them.
LEMMA QuietStep ==
    ASSUME IInv, TInv', UNCHANGED sess, CtqKept, TtqKept
    PROVE  IInv'
<1>1. maps' = maps /\ phase' = phase /\ rs' = rs
  BY DEF sess
<1>2. OneEstablishment'
  BY <1>1 DEF IInv, OneEstablishment, TtqKept
<1>3. SeidKnown'
  BY <1>1 DEF IInv, SeidKnown
<1>4. Destroyed'
  BY <1>1 DEF IInv, Destroyed, CtqKept, OrderKept
<1>5. RemoteIsLocal'
  BY <1>1 DEF IInv, RemoteIsLocal
<1>6. \A s \in Sessions : AddKept(s)
  BY DEF CtqKept
<1>7. LocalIsRemote'
  BY <1>1, <1>6, LocalStays DEF IInv
<1> QED
  BY <1>2, <1>3, <1>4, <1>5, <1>7 DEF IInv

\* A step in the life of the session s, before it is up.
LEMMA PhaseStep ==
    ASSUME IInv, TInv', maps' = maps, rs' = rs,
           NEW s \in Sessions, NEW p, phase' = [phase EXCEPT ![s] = p],
           phase[s] \notin {"up", "gone"}, p # "gone",
           \A t \in Sessions : AddKept(t) /\ (t # s => OrderKept(t)),
           \A t \in Sessions :
              /\ EstablishedOnce(ttq', t)
              /\ Establishing(ttq', t) => phase'[t] \in {"asked", "answered"}
    PROVE  IInv'
<1>1. /\ phase'[s] = p
      /\ \A t \in Sessions \ {s} : phase'[t] = phase[t]
  BY DEF IInv, TInv, TypeOK
<1>2. OneEstablishment'
  BY DEF OneEstablishment
<1>3. SeidKnown'
  BY <1>1 DEF IInv, SeidKnown
<1>4. Destroyed'
  BY <1>1 DEF IInv, Destroyed, OrderKept
<1>5. RemoteIsLocal'
  BY DEF IInv, RemoteIsLocal
<1>6. LocalIsRemote'
  BY LocalStays DEF IInv
<1> QED
  BY <1>2, <1>3, <1>4, <1>5, <1>6 DEF IInv
-------------------------------------------------------------------------------
(* The agreement of the maps. *)

\* Initially there is no session.
LEMMA InitInv == Init => IInv
<1> SUFFICES ASSUME Init PROVE IInv
  OBVIOUS
<1>1. TInv
  BY InitType
<1>2. OneEstablishment /\ SeidKnown /\ Destroyed
  BY DEF Init, OneEstablishment, Establishing, EstablishedOnce, SeidKnown, Destroyed
<1>3. RemoteIsLocal /\ LocalIsRemote
  BY DEF Init, NoMaps, RemoteIsLocal, LocalIsRemote
<1> QED
  BY <1>1, <1>2, <1>3 DEF IInv

\* The application.
LEMMA AppInv ==
    ASSUME IInv, TInv',
           \/ AppCreateNode \/ Disconnect \/ DeleteAllSessions
           \/ \E s \in Sessions : AppCreateSession(s) \/ ReqTimeout(s) \/ Destroy(s)
    PROVE  IInv'
<1>1. ASSUME AppCreateNode \/ Disconnect PROVE IInv'
  <2>1. UNCHANGED sess /\ ctq' = ctq /\ ttq' = ttq
    BY <1>1 DEF AppCreateNode, Disconnect
  <2> QED
    BY <2>1, QueuesSame, QuietStep
<1>2. ASSUME DeleteAllSessions PROVE IInv'
  <2>1. UNCHANGED sess /\ ttq' = ttq /\ ctq' = Append(ctq, Event("DelNxtRmtSession", {}, 0))
    BY <1>2 DEF DeleteAllSessions
  <2>2. CtqKept
    BY <2>1, CtqEventType, EventsDiffer, CtqAppended DEF CtqKept, IInv, TInv
  <2> QED
    BY <2>1, <2>2, QueuesSame, QuietStep
<1>3. \A t \in Sessions :
        /\ EstablishedOnce(ttq, t)
        /\ Establishing(ttq, t) => phase[t] \in {"asked", "answered"}
  BY DEF IInv, OneEstablishment
<1>4. \A s \in Sessions : \A v : \A t \in Sessions :
        [phase EXCEPT ![s] = v][t] = IF t = s THEN v ELSE phase[t]
  BY DEF IInv, TInv, TypeOK
<1>5. ASSUME NEW s \in Sessions, AppCreateSession(s) PROVE IInv'
  <2>1. /\ phase[s] = "free" /\ phase' = [phase EXCEPT ![s] = "created"]
        /\ maps' = maps /\ rs' = rs /\ ttq' = ttq
        /\ ctq' = Append(ctq, Event("AddSession", {s}, 0))
    BY <1>5 DEF AppCreateSession
  <2>2. \A t \in Sessions : AddKept(t) /\ (t # s => OrderKept(t))
    BY <2>1, CtqEventType, EventsDiffer, CtqAppended DEF IInv, TInv
  <2>3. \A t \in Sessions :
          /\ EstablishedOnce(ttq', t)
          /\ Establishing(ttq', t) => phase'[t] \in {"asked", "answered"}
    BY <1>3, <1>4, <2>1
  <2> QED
    BY <2>1, <2>2, <2>3, PhaseStep
<1>6. ASSUME NEW s \in Sessions, ReqTimeout(s) PROVE IInv'
  <2>1. /\ phase[s] = "created" /\ phase' = [phase EXCEPT ![s] = "failed"]
        /\ maps' = maps /\ rs' = rs /\ ttq' = ttq /\ ctq' = ctq
    BY <1>6 DEF ReqTimeout
  <2>2. CtqKept
    BY <2>1, QueuesSame
  <2>3. \A t \in Sessions :
          /\ EstablishedOnce(ttq', t)
          /\ Establishing(ttq', t) => phase'[t] \in {"asked", "answered"}
    BY <1>3, <1>4, <2>1
  <2> QED
    BY <2>1, <2>2, <2>3, PhaseStep DEF CtqKept
<1>7. ASSUME NEW s \in Sessions, Destroy(s) PROVE IInv'
  <2>1. /\ phase[s] \in {"up", "failed"} /\ phase' = [phase EXCEPT ![s] = "gone"]
        /\ maps' = maps /\ rs' = rs /\ ttq' = ttq
        /\ ctq' = Append(ctq, Event("DelSession", {s}, 0))
    BY <1>7 DEF Destroy
  <2>2. \A t \in Sessions : AddKept(t) /\ OrderKept(t)
    BY <2>1, CtqEventType, EventsDiffer, CtqAppended DEF IInv, TInv
  <2>3. AddsBeforeDelete(ctq', s)
    BY <2>1, CtqEventType, EventsDiffer, CtqAppended DEF IInv, TInv, Deletes
  <2>4. OneEstablishment'
    BY <1>3, <1>4, <2>1 DEF OneEstablishment
  <2>5. SeidKnown'
    BY <1>4, <2>1 DEF IInv, SeidKnown
  <2>6. Destroyed'
    <3>1. ASSUME NEW t \in Sessions \ {s}, phase'[t] = "gone"
          PROVE  AddsBeforeDelete(ctq', t) \/ (NoAdds(ctq', t) /\ t \notin maps'.local)
      <4>1. phase[t] = "gone"
        BY <1>4, <2>1, <3>1
      <4>2. AddsBeforeDelete(ctq, t) \/ (NoAdds(ctq, t) /\ t \notin maps.local)
        BY <4>1 DEF IInv, Destroyed
      <4> QED
        BY <2>1, <2>2, <4>2 DEF OrderKept
    <3> QED
      BY <2>3, <3>1 DEF Destroyed
  <2>7. RemoteIsLocal'
    BY <2>1 DEF IInv, RemoteIsLocal
  <2>8. LocalIsRemote'
    BY <2>1, <2>2, LocalStays DEF IInv
  <2> QED
    BY <2>4, <2>5, <2>6, <2>7, <2>8 DEF IInv
<1> QED
  BY <1>1, <1>2, <1>5, <1>6, <1>7

\* What is received adds establishments of sessions that have none yet.
LEMMA ReceiveInv ==
    ASSUME IInv, TInv', Receive
    PROVE  IInv'
<1>1. peer.start \in Nat
  BY DEF IInv, TInv, TypeOK
<1>2. \A type \in {"HeartbeatReq", "HeartbeatRsp", "AssnSetup"}, v \in Nat, s \in Sessions :
        Event(type, {}, v) \in TtqEvents /\ ~Establishes(Event(type, {}, v), s)
  BY TtqEventType DEF Event, Establishes
<1>3. ASSUME NEW type \in {"HeartbeatReq", "HeartbeatRsp", "AssnSetup"},
             ttq' = ttq \o <<Event(type, {}, peer.start)>>
      PROVE  TtqKept
  BY <1>1, <1>2, <1>3, TtqAppended DEF TtqKept
<1>4. ASSUME NEW type \in {"HeartbeatReq", "AssnSetup"}, ReceiveNodeMsg(type) PROVE IInv'
  <2>1. UNCHANGED sess /\ ctq' = ctq /\ ttq' = ttq \o <<Event(type, {}, peer.start)>>
    BY <1>4 DEF ReceiveNodeMsg, OnReceive, sess
  <2> QED
    BY <1>3, <2>1, QueuesSame, QuietStep
<1>5. ASSUME ReceiveHeartbeatRsp PROVE IInv'
  <2>1. /\ UNCHANGED sess /\ ctq' = ctq
        /\ \/ ttq' = ttq \o <<Event("HeartbeatRsp", {}, peer.start)>>
           \/ ttq' = ttq \o << >>
    BY <1>5 DEF ReceiveHeartbeatRsp, OnReceive, sess
  <2>2. ttq \o << >> = ttq
    BY DEF IInv, TInv, Carried
  <2> QED
    BY <1>3, <2>1, <2>2, QueuesSame, QuietStep
<1>6. \A t \in Sessions :
        /\ EstablishedOnce(ttq, t)
        /\ Establishing(ttq, t) => phase[t] \in {"asked", "answered"}
  BY DEF IInv, OneEstablishment
<1>7. DOMAIN phase = Sessions
  BY DEF IInv, TInv, TypeOK
<1>8. \A type \in {"EstReq", "EstRsp"}, s \in Sessions, seid \in Seids, t \in Sessions :
        /\ Event(type, {s}, seid) \in TtqEvents
        /\ Establishes(Event(type, {s}, seid), t) => t = s
  BY TtqEventType DEF Event, Establishes
<1>9. ASSUME NEW s \in Sessions, NEW seid \in Seids, ReceiveEstReq(s, seid) PROVE IInv'
  <2>1. /\ phase[s] = "free" /\ phase' = [phase EXCEPT ![s] = "asked"]
        /\ maps' = maps /\ rs' = rs /\ ttq' = ttq \o <<Event("EstReq", {s}, seid)>>
        /\ ctq' = Append(ctq, Event("AddSession", {s}, 0))
    BY <1>9 DEF ReceiveEstReq, OnReceive
  <2>2. \A t \in Sessions : AddKept(t) /\ (t # s => OrderKept(t))
    BY <2>1, CtqEventType, EventsDiffer, CtqAppended DEF IInv, TInv
  <2>3. Event("EstReq", {s}, seid) \in TtqEvents /\ ~Establishing(ttq, s)
    BY <1>6, <1>8, <2>1
  <2>4. ASSUME NEW t \in Sessions
        PROVE  /\ EstablishedOnce(ttq', t)
               /\ Establishing(ttq', t) => Establishing(ttq, t) \/ t = s
    BY <1>8, <2>1, <2>3, TtqAppended
  <2>5. phase'[s] = "asked" /\ \A t \in Sessions \ {s} : phase'[t] = phase[t]
    BY <1>7, <2>1
  <2>6. \A t \in Sessions :
          /\ EstablishedOnce(ttq', t)
          /\ Establishing(ttq', t) => phase'[t] \in {"asked", "answered"}
    BY <1>6, <2>4, <2>5
  <2> QED
    BY <2>1, <2>2, <2>6, PhaseStep
<1>10. ASSUME NEW s \in Sessions, NEW seid \in Seids, ReceiveEstRsp(s, seid) PROVE IInv'
  <2>1. /\ phase[s] = "created" /\ phase' = [phase EXCEPT ![s] = "answered"]
        /\ maps' = maps /\ rs' = rs /\ ttq' = ttq \o <<Event("EstRsp", {s}, seid)>>
        /\ ctq' = ctq
    BY <1>10 DEF ReceiveEstRsp, OnReceive
  <2>2. CtqKept
    BY <2>1, QueuesSame
  <2>3. Event("EstRsp", {s}, seid) \in TtqEvents /\ ~Establishing(ttq, s)
    BY <1>6, <1>8, <2>1
  <2>4. ASSUME NEW t \in Sessions
        PROVE  /\ EstablishedOnce(ttq', t)
               /\ Establishing(ttq', t) => Establishing(ttq, t) \/ t = s
    BY <1>8, <2>1, <2>3, TtqAppended
  <2>5. phase'[s] = "answered" /\ \A t \in Sessions \ {s} : phase'[t] = phase[t]
    BY <1>7, <2>1
  <2>6. \A t \in Sessions :
          /\ EstablishedOnce(ttq', t)
          /\ Establishing(ttq', t) => phase'[t] \in {"asked", "answered"}
    BY <1>6, <2>4, <2>5
  <2> QED
    BY <2>1, <2>2, <2>6, PhaseStep DEF CtqKept
<1> QED
  BY <1>4, <1>5, <1>9, <1>10 DEF Receive

\* The timers, and the remote node itself, do nothing to the sessions.
LEMMA TimerInv ==
    ASSUME IInv, TInv', ActivityTimer \/ HeartbeatTimeout \/ PeerRestart \/ PeerDies
    PROVE  IInv'
<1>1. UNCHANGED sess /\ ctq' = ctq
  BY DEF ActivityTimer, HeartbeatTimeout, PeerRestart, PeerDies
<1>2. ttq' = ttq \/ ttq' = Append(ttq, Event("SndHeartbeatReq", {}, 0))
  BY DEF ActivityTimer, HeartbeatTimeout, PeerRestart, PeerDies
<1>3. ASSUME ttq' = Append(ttq, Event("SndHeartbeatReq", {}, 0)) PROVE TtqKept
  <2>1. /\ Event("SndHeartbeatReq", {}, 0) \in TtqEvents
        /\ \A s \in Sessions : ~Establishes(Event("SndHeartbeatReq", {}, 0), s)
    BY TtqEventType DEF Event, Establishes
  <2>2. ttq' = ttq \o <<Event("SndHeartbeatReq", {}, 0)>>
    BY <1>3, <2>1 DEF IInv, TInv, Carried
  <2> QED
    BY <2>1, <2>2, TtqAppended DEF TtqKept
<1> QED
  BY <1>1, <1>2, <1>3, QueuesSame, QuietStep

\* Adding a session keeps the agreement of the maps, also when its SEID is taken.
LEMMA AddKeepsMaps ==
    ASSUME IInv, NEW s \in Sessions, maps' = AddSession(maps, s, rs[s]), rs' = rs,
           \A t \in Sessions \ {s} : AddKept(t)
    PROVE  RemoteIsLocal' /\ LocalIsRemote' /\ maps'.local = maps.local \cup {s}
<1>1. /\ MapsType(maps) /\ RemoteIsLocal /\ LocalIsRemote
      /\ \A t \in Sessions : rs[t] \in Seids \cup {0}
  BY DEF IInv, TInv, TypeOK, MapsType
<1>2. maps'.local = maps.local \cup {s}
  BY DEF AddSession
<1>3. rs[s] = 0 \/ rs[s] \in DOMAIN maps.remote => maps'.remote = maps.remote
  BY DEF AddSession
<1>4. rs[s] # 0 /\ rs[s] \notin DOMAIN maps.remote =>
          /\ DOMAIN maps'.remote = DOMAIN maps.remote \cup {rs[s]}
          /\ maps'.remote[rs[s]] = s
          /\ \A x \in DOMAIN maps.remote : maps'.remote[x] = maps.remote[x]
  BY DEF AddSession
<1>5. RemoteIsLocal'
  BY <1>1, <1>2, <1>3, <1>4 DEF RemoteIsLocal
<1>6. \A t \in Sessions : InRemote(t) => InRemote(t)'
  BY <1>3, <1>4 DEF InRemote, Range
<1>7. rs[s] = 0 \/ InRemote(s)' \/ \E t \in Sessions \ {s} : rs[t] = rs[s]
  <2>1. CASE rs[s] # 0 /\ rs[s] \notin DOMAIN maps.remote
    BY <1>4, <2>1 DEF InRemote, Range
  <2>2. CASE rs[s] \in DOMAIN maps.remote
    <3>1. maps.remote[rs[s]] \in Sessions /\ rs[maps.remote[rs[s]]] = rs[s]
      BY <1>1, <2>2 DEF MapsType, RemoteIsLocal
    <3>2. maps.remote[rs[s]] = s => InRemote(s)'
      BY <1>3, <2>2 DEF InRemote, Range
    <3> QED
      BY <3>1, <3>2
  <2> QED
    BY <2>1, <2>2
<1>8. LocalIsRemote'
  <2>1. SUFFICES ASSUME NEW t \in Sessions, t \in maps.local \cup {s}
                 PROVE  \/ rs[t] = 0 \/ Queued("AddSession", t)' \/ InRemote(t)'
                        \/ \E u \in Sessions \ {t} : rs[u] = rs[t]
    BY <1>1, <1>2 DEF LocalIsRemote, MapsType
  <2>2. CASE t = s
    BY <1>7, <2>2
  <2>3. CASE t # s
    <3>1. t \in maps.local
      BY <2>1, <2>3
    <3>2. \/ rs[t] = 0 \/ Queued("AddSession", t) \/ InRemote(t)
          \/ \E u \in Sessions \ {t} : rs[u] = rs[t]
      BY <1>1, <3>1 DEF LocalIsRemote
    <3> QED
      BY <1>6, <2>3, <3>2 DEF AddKept
  <2> QED
    BY <2>2, <2>3
<1> QED
  BY <1>2, <1>5, <1>8

\* Deleting a session keeps it, too: another session that loses its entry has the
\* SEID of the one that is deleted.
LEMMA DelKeepsMaps ==
    ASSUME IInv, NEW s \in Sessions, maps' = DelSession(maps, s, rs[s]), rs' = rs,
           \A t \in Sessions : AddKept(t)
    PROVE  RemoteIsLocal' /\ LocalIsRemote' /\ maps'.local = maps.local \ {s}
<1>1. /\ MapsType(maps) /\ RemoteIsLocal /\ LocalIsRemote
  BY DEF IInv, TInv, TypeOK, MapsType
<1>2. /\ maps'.local = maps.local \ {s}
      /\ DOMAIN maps'.remote = DOMAIN maps.remote \ {rs[s]}
      /\ \A x \in DOMAIN maps'.remote : maps'.remote[x] = maps.remote[x]
  BY DEF DelSession, Restrict
<1>3. RemoteIsLocal'
  BY <1>1, <1>2 DEF RemoteIsLocal
<1>4. ASSUME NEW t \in Sessions \ {s}, InRemote(t) PROVE InRemote(t)' \/ rs[s] = rs[t]
  <2>1. PICK x \in DOMAIN maps.remote : maps.remote[x] = t
    BY <1>4 DEF InRemote, Range
  <2>2. rs[t] = x
    BY <1>1, <2>1 DEF RemoteIsLocal
  <2> QED
    BY <1>2, <2>1, <2>2 DEF InRemote, Range
<1>5. LocalIsRemote'
  <2>1. SUFFICES ASSUME NEW t \in Sessions \ {s}, t \in maps.local
                 PROVE  \/ rs[t] = 0 \/ Queued("AddSession", t)' \/ InRemote(t)'
                        \/ \E u \in Sessions \ {t} : rs[u] = rs[t]
    BY <1>1, <1>2 DEF LocalIsRemote, MapsType
  <2>2. \/ rs[t] = 0 \/ Queued("AddSession", t) \/ InRemote(t)
        \/ \E u \in Sessions \ {t} : rs[u] = rs[t]
    BY <1>1, <2>1 DEF LocalIsRemote
  <2> QED
    BY <1>4, <2>2 DEF AddKept
<1> QED
  BY <1>2, <1>3, <1>5

\* The handlers of the communication thread keep the maps in agreement.
LEMMA HandleInv ==
    ASSUME IInv, TInv', Handle
    PROVE  IInv'
<1>1. Carried /\ ctq \in Seq(CtqEvents)
  BY DEF IInv, TInv, Carried
<1>2. ASSUME OnAddSession PROVE IInv'
  <2>1. PICK s \in Sessions : Adds(Head(ctq), s) /\ TheSession(Head(ctq)) = s
    BY <1>1, <1>2, HeadSession DEF OnAddSession
  <2>2. /\ ctq # << >> /\ ctq' = Tail(ctq) /\ maps' = AddSession(maps, s, rs[s])
        /\ phase' = phase /\ rs' = rs /\ ttq' = ttq
    BY <1>2, <2>1 DEF OnAddSession, First
  <2>3. \A t \in Sessions : OrderKept(t) /\ (t # s => AddKept(t))
    BY <1>1, <2>1, <2>2, EventsDiffer, CtqTaken DEF Adds
  <2>4. RemoteIsLocal' /\ LocalIsRemote' /\ maps'.local = maps.local \cup {s}
    BY <2>2, <2>3, AddKeepsMaps
  <2>5. ~NoAdds(ctq, s)
    <3>1. 1 \in DOMAIN ctq /\ Head(ctq) = ctq[1]
      BY <1>1, <2>2
    <3> QED
      BY <2>1, <3>1 DEF NoAdds
  <2>6. Destroyed'
    BY <2>2, <2>3, <2>4, <2>5 DEF IInv, Destroyed, OrderKept
  <2>7. OneEstablishment' /\ SeidKnown'
    BY <2>2 DEF IInv, OneEstablishment, SeidKnown
  <2> QED
    BY <2>4, <2>6, <2>7 DEF IInv
<1>3. ASSUME OnDelSession PROVE IInv'
  <2>1. PICK s \in Sessions : Deletes(Head(ctq), s) /\ TheSession(Head(ctq)) = s
    BY <1>1, <1>3, HeadSession DEF OnDelSession
  <2>2. /\ ctq # << >> /\ ctq' = Tail(ctq) /\ maps' = DelSession(maps, s, rs[s])
        /\ phase' = phase /\ rs' = rs /\ ttq' = ttq
    BY <1>3, <2>1 DEF OnDelSession, First
  <2>3. \A t \in Sessions : AddKept(t) /\ (t # s => OrderKept(t))
    BY <1>1, <2>1, <2>2, EventsDiffer, CtqTaken DEF Deletes
  <2>4. RemoteIsLocal' /\ LocalIsRemote' /\ maps'.local = maps.local \ {s}
    BY <2>2, <2>3, DelKeepsMaps
  <2>5. /\ AddsBeforeDelete(ctq, s) => AddsBeforeDelete(ctq', s) \/ NoAdds(ctq', s)
        /\ NoAdds(ctq, s) => NoAdds(ctq', s)
    BY <1>1, <2>2, CtqTaken
  <2>6. Destroyed'
    BY <2>2, <2>3, <2>4, <2>5 DEF IInv, Destroyed, OrderKept
  <2>7. OneEstablishment' /\ SeidKnown'
    BY <2>2 DEF IInv, OneEstablishment, SeidKnown
  <2> QED
    BY <2>4, <2>6, <2>7 DEF IInv
<1>4. ASSUME OnHeartbeat \/ OnSndReq PROVE IInv'
  <2>1. /\ UNCHANGED sess /\ ttq' = ttq /\ ctq # << >> /\ ctq' = Tail(ctq)
        /\ Head(ctq).type \notin {"AddSession", "DelSession"}
    BY <1>4 DEF OnHeartbeat, OnSndReq, First
  <2>2. CtqKept
    BY <1>1, <2>1, EventsDiffer, CtqTaken DEF CtqKept
  <2> QED
    BY <2>1, <2>2, QueuesSame, QuietStep
<1>5. ASSUME OnDelNxtRmtSession PROVE IInv'
  <2>1. /\ ctq # << >> /\ Head(ctq).type \notin {"AddSession", "DelSession"}
        /\ phase' = phase /\ rs' = rs /\ ttq' = ttq
        /\ \/ /\ \E s \in FirstSessions(maps) : maps' = DelSession(maps, s, rs[s])
              /\ ctq' = Append(Tail(ctq), Head(ctq))
           \/ maps' = maps /\ ctq' = Tail(ctq)
    BY <1>5 DEF OnDelNxtRmtSession, First
  <2>2. CASE maps' = maps /\ ctq' = Tail(ctq)
    <3>1. CtqKept
      BY <1>1, <2>1, <2>2, EventsDiffer, CtqTaken DEF CtqKept
    <3>2. UNCHANGED sess
      BY <2>1, <2>2 DEF sess
    <3> QED
      BY <2>1, <3>1, <3>2, QueuesSame, QuietStep
  <2>3. CASE /\ \E s \in FirstSessions(maps) : maps' = DelSession(maps, s, rs[s])
             /\ ctq' = Append(Tail(ctq), Head(ctq))
    <3>1. PICK s \in Sessions : maps' = DelSession(maps, s, rs[s])
      BY <2>3 DEF FirstSessions, IInv, TInv, TypeOK
    <3>2. Head(ctq) \in CtqEvents /\ Tail(ctq) \in Seq(CtqEvents)
      BY <1>1, <2>1
    <3>3. \A t \in Sessions : ~Adds(Head(ctq), t) /\ ~Deletes(Head(ctq), t)
      BY <2>1, EventsDiffer
    <3>4. ASSUME NEW t \in Sessions PROVE OrderKept(t)
      <4>1. /\ AddsBeforeDelete(ctq, t) => AddsBeforeDelete(Tail(ctq), t)
            /\ NoAdds(ctq, t) => NoAdds(Tail(ctq), t)
        BY <1>1, <2>1, <3>3, TailKeepsOrder
      <4>2. /\ AddsBeforeDelete(Tail(ctq), t) => AddsBeforeDelete(ctq', t)
            /\ NoAdds(Tail(ctq), t) => NoAdds(ctq', t)
        BY <2>3, <3>2, <3>3, AppendKeepsOrder
      <4> QED
        BY <4>1, <4>2 DEF OrderKept
    <3>5. ASSUME NEW t \in Sessions PROVE AddKept(t)
      <4>1. Range(ctq') = Range(Tail(ctq)) \cup {Head(ctq)}
        <5>1. \A q \in Seq(CtqEvents), e \in CtqEvents : Range(Append(q, e)) = Range(q) \cup {e}
          BY RangeKept
        <5> QED
          BY <2>3, <3>2, <5>1, Zenon
      <4>2. \A x \in Range(ctq) : x = Head(ctq) \/ x \in Range(Tail(ctq))
        BY <1>1, <2>1, RangeKept
      <4> QED
        BY <4>1, <4>2 DEF AddKept, Queued
    <3>6. RemoteIsLocal' /\ LocalIsRemote' /\ maps'.local = maps.local \ {s}
      BY <2>1, <3>1, <3>5, DelKeepsMaps
    <3>7. Destroyed'
      BY <2>1, <3>4, <3>6 DEF IInv, Destroyed, OrderKept
    <3>8. OneEstablishment' /\ SeidKnown'
      BY <2>1 DEF IInv, OneEstablishment, SeidKnown
    <3> QED
      BY <3>6, <3>7, <3>8 DEF IInv
  <2> QED
    BY <2>1, <2>2, <2>3
<1> QED
  BY <1>2, <1>3, <1>4, <1>5 DEF Handle

\* The translation thread makes the remote SEID of a session known, once.
LEMMA TranslateInv ==
    ASSUME IInv, TInv', Translate
    PROVE  IInv'
<1>1. Carried /\ ttq \in Seq(TtqEvents)
  BY DEF IInv, TInv, Carried
<1>2. ASSUME ttq # << >>, ttq' = Tail(ttq) PROVE TtqKept
  BY <1>2, TtqTaken DEF TtqKept
<1>3. ASSUME TranslateAssnSetup PROVE IInv'
  <2>1. UNCHANGED sess /\ ctq' = ctq /\ ttq # << >> /\ ttq' = Tail(ttq)
    BY <1>3 DEF TranslateAssnSetup, First
  <2> QED
    BY <1>2, <2>1, QueuesSame, QuietStep
<1>4. ASSUME TranslateHeartbeat PROVE IInv'
  <2>1. UNCHANGED sess /\ ttq # << >> /\ ttq' = Tail(ttq)
    BY <1>4 DEF TranslateHeartbeat, First
  <2>2. CASE UNCHANGED ctq
    BY <1>2, <2>1, <2>2, QueuesSame, QuietStep
  <2>3. CASE ctq' = Append(ctq, Head(ttq))
    <3>1. First(ttq, "HeartbeatReq") \/ First(ttq, "HeartbeatRsp")
      BY <1>4 DEF TranslateHeartbeat
    <3>2. Head(ttq) \in CtqEvents
      BY <1>1, <3>1, TtqEventType DEF First
    <3>3. \A s \in Sessions : ~Adds(Head(ttq), s) /\ ~Deletes(Head(ttq), s)
      BY <3>1, EventsDiffer DEF First
    <3>4. CtqKept
      BY <1>1, <2>3, <3>2, <3>3, CtqAppended DEF CtqKept
    <3> QED
      BY <1>2, <2>1, <3>4, QuietStep
  <2> QED
    BY <1>4, <2>2, <2>3 DEF TranslateHeartbeat
<1>6. ASSUME EncodeHeartbeat PROVE IInv'
  <2>1. UNCHANGED sess /\ ttq # << >> /\ ttq' = Tail(ttq)
    BY <1>6 DEF EncodeHeartbeat, First
  <2>2. CASE UNCHANGED ctq
    BY <1>2, <2>1, <2>2, QueuesSame, QuietStep
  <2>3. CASE ctq' = Append(ctq, Event("SndReq", {}, 0))
    <3>1. Event("SndReq", {}, 0).type = "SndReq"
      BY DEF Event
    <3>2. CtqKept
      BY <1>1, <2>3, <3>1, CtqEventType, EventsDiffer, CtqAppended DEF CtqKept
    <3> QED
      BY <1>2, <2>1, <3>2, QuietStep
  <2> QED
    BY <1>6, <2>2, <2>3 DEF EncodeHeartbeat
<1>5. ASSUME TranslateEst PROVE IInv'
  <2>1. PICK s \in Sessions :
            TheSession(Head(ttq)) = s /\ Head(ttq).v \in Seids /\ Establishes(Head(ttq), s)
    BY <1>1, <1>5, HeadSession DEF TranslateEst
  <2>2. ttq # << >> /\ ttq' = Tail(ttq) /\ maps' = maps
    BY <1>5 DEF TranslateEst, First
  <2>3. phase[s] \in {"asked", "answered"} /\ rs[s] = 0
    BY <2>1, <2>2, TtqTaken DEF IInv, OneEstablishment, SeidKnown
  <2>4. \A t \in Sessions :
          /\ EstablishedOnce(ttq', t)
          /\ Establishing(ttq', t) => t # s /\ phase[t] \in {"asked", "answered"}
    BY <2>1, <2>2, TtqTaken DEF IInv, OneEstablishment
  <2>5. DOMAIN phase = Sessions /\ DOMAIN rs = Sessions /\ MapsType(maps)
    BY DEF IInv, TInv, TypeOK, MapsType
  <2>6. CASE phase' = [phase EXCEPT ![s] = "lost"] /\ rs' = rs /\ ctq' = ctq
    <3>1. CtqKept
      BY <2>6, QueuesSame
    <3>2. \A t \in Sessions :
            /\ EstablishedOnce(ttq', t)
            /\ Establishing(ttq', t) => phase'[t] \in {"asked", "answered"}
      BY <2>4, <2>5, <2>6
    <3> QED
      BY <2>2, <2>3, <2>6, <3>1, <3>2, PhaseStep DEF CtqKept
  <2>7. CASE /\ rs' = [rs EXCEPT ![s] = Head(ttq).v]
             /\ phase' = [phase EXCEPT ![s] = "up"]
             /\ ctq' = Append(ctq, Event("AddSession", {s}, 0))
    <3>1. /\ phase'[s] = "up" /\ \A t \in Sessions \ {s} : phase'[t] = phase[t]
          /\ \A t \in Sessions \ {s} : rs'[t] = rs[t]
      BY <2>5, <2>7
    <3>2. \A t \in Sessions : AddKept(t) /\ (t # s => OrderKept(t))
      BY <1>1, <2>7, CtqEventType, EventsDiffer, CtqAppended
    <3>3. Queued("AddSession", s)'
      BY <1>1, <2>7, CtqEventType, CtqAppended DEF Adds
    <3>4. OneEstablishment'
      BY <2>4, <3>1 DEF OneEstablishment
    <3>5. SeidKnown'
      BY <3>1 DEF IInv, SeidKnown
    <3>6. Destroyed'
      BY <2>2, <3>1, <3>2 DEF IInv, Destroyed, OrderKept
    <3>7. RemoteIsLocal'
      <4>1. SUFFICES ASSUME NEW x \in DOMAIN maps.remote
                     PROVE  rs'[maps.remote[x]] = x /\ maps.remote[x] \in maps.local
        BY <2>2 DEF RemoteIsLocal
      <4>2. /\ maps.remote[x] \in Sessions /\ x # 0
            /\ rs[maps.remote[x]] = x /\ maps.remote[x] \in maps.local
        BY <2>5, RemoteNodeAssumption DEF MapsType, Range, IInv, RemoteIsLocal
      <4> QED
        BY <2>3, <3>1, <4>2
    <3>8. LocalIsRemote'
      <4>1. SUFFICES ASSUME NEW t \in Sessions, t \in maps.local
                     PROVE  \/ rs'[t] = 0 \/ Queued("AddSession", t)' \/ InRemote(t)
                            \/ \E u \in Sessions \ {t} : rs'[u] = rs'[t]
        BY <2>2, <2>5 DEF LocalIsRemote, InRemote, MapsType
      <4>2. CASE t = s
        BY <3>3, <4>2
      <4>3. CASE t # s
        <5>1. \/ rs[t] = 0 \/ Queued("AddSession", t) \/ InRemote(t)
              \/ \E u \in Sessions \ {t} : rs[u] = rs[t]
          BY <4>1 DEF IInv, LocalIsRemote
        <5>2. \A u \in Sessions : rs[t] # 0 /\ rs[u] = rs[t] => rs'[u] = rs'[t]
          BY <2>3, <3>1, <4>3
        <5> QED
          BY <3>1, <3>2, <4>3, <5>1, <5>2 DEF AddKept
      <4> QED
        BY <4>2, <4>3
    <3> QED
      BY <3>4, <3>5, <3>6, <3>7, <3>8 DEF IInv
  <2> QED
    BY <1>5, <2>1, <2>6, <2>7 DEF TranslateEst
<1> QED
  BY <1>3, <1>4, <1>5, <1>6 DEF Translate

\* Each step keeps the invariant.
LEMMA InvStep == IInv /\ [Next]_vars => IInv'
<1>1. ASSUME IInv, [Next]_vars PROVE TInv'
  BY <1>1, TypeStep DEF IInv
<1>2. ASSUME IInv, UNCHANGED vars PROVE IInv'
  <2>1. UNCHANGED sess /\ ctq' = ctq /\ ttq' = ttq
    BY <1>2 DEF vars
  <2> QED
    BY <1>1, <1>2, <2>1, QueuesSame, QuietStep
<1>3. ASSUME IInv, Next PROVE IInv'
  <2>1. TInv'
    BY <1>1, <1>3
  <2> QED
    BY <1>3, <2>1, AppInv, ReceiveInv, TimerInv, HandleInv, TranslateInv DEF Next
<1> QED
  BY <1>2, <1>3

\* A destroyed session whose deletion is not queued has been deleted.
LEMMA InvGivesGone == IInv => GoneIsGone
<1> SUFFICES ASSUME IInv, NEW s \in Sessions, phase[s] = "gone", ~Queued("DelSession", s)
             PROVE  s \notin maps.local /\ ~InRemote(s)
  BY DEF GoneIsGone
<1>1. ~AddsBeforeDelete(ctq, s)
  BY DEF AddsBeforeDelete, Queued, Deletes, Range
<1>2. s \notin maps.local
  BY <1>1 DEF IInv, Destroyed
<1>3. ~InRemote(s)
  BY <1>2 DEF IInv, RemoteIsLocal, InRemote, Range
<1> QED
  BY <1>2, <1>3

\* For any sessions, SEIDs and environments the two maps of sessions agree with each
\* other and with the sessions' lives, in whatever order addSession, delSession and
\* the chain of DelNxtRmtSession run (epfcp.cpp 2302-2377).
THEOREM MapsAgreement == Spec => []SessionMapsAgree
<1>1. IInv => SessionMapsAgree
  BY InvGivesGone DEF IInv, SessionMapsAgree
<1> QED
  BY InitInv, InvStep, <1>1, PTL DEF Spec
===============================================================================
