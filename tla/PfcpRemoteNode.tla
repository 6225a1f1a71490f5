---------------------------- MODULE PfcpRemoteNode ----------------------------
(***************************************************************************)
(* The data of a remote PFCP node (RemoteNode, Node in epfcp.h/.cpp): its  *)
(* state, the windows in which it was heard, and the maps through which    *)
(* its sessions are found.                                                 *)
(***************************************************************************)
EXTENDS Integers, Functions

CONSTANTS
    Sessions,   \* the session objects
    Seids,      \* the SEIDs that the remote node may choose
    Wnds        \* Configuration::nbrActivityWnds()

ASSUME RemoteNodeAssumption == Wnds \in Nat \ {0} /\ Seids \subseteq Nat \ {0}

States == {"none", "Initialized", "Started", "Stopping", "Stopped", "Failed", "Restarted"}

\* start: st_.  active: the windows of awnds_ that are not 0.
Nodes == [state : States, start : Nat, active : SUBSET (0 .. Wnds - 1), awndcnt : 0 .. Wnds]

\* "none": not in rns_ of the local node.
NoNode == [state |-> "none", start |-> 0, active |-> {}, awndcnt |-> 0]

ChangeState(n, state) == [n EXCEPT !.state = state]

IncrementActivity(n, w) == [n EXCEPT !.active = @ \cup {w}]

\* The windows begun are counted, until all have been; the new one is cleared.
CountWnd(n) == [n EXCEPT !.awndcnt = IF @ < Wnds THEN @ + 1 ELSE @]
ClearWnd(n, w) == [n EXCEPT !.active = @ \ {w}]

\* Faulty variant: the new window is not cleared.
NextActivityWndStale(n, w) == CountWnd(n)

\* Faulty variant: awndcnt_ <= awnds_.size().
NextActivityWndCounts(n, w) ==
    ClearWnd([n EXCEPT !.awndcnt = IF @ <= Wnds THEN @ + 1 ELSE @], w)

\* RemoteNode::nextActivityWnd
NextActivityWnd(n, w) == ClearWnd(CountWnd(n), w)

CheckActivity(n) == n.awndcnt < Wnds \/ n.active # {}

\* LocalNode::createRemoteNode, of a node that is not Started.
CreateRemoteNode(n, w) ==
    IF n.state = "none"
      THEN ChangeState(NextActivityWnd([NoNode EXCEPT !.state = "Initialized"], w), "Started")
      ELSE ChangeState(n, "Started")

\* LocalNode::onReceive, what every datagram does to the node it comes from.
Heard(n, w) ==
    IncrementActivity(IF n.state = "Started" THEN n ELSE CreateRemoteNode(n, w), w)

-------------------------------------------------------------------------------
(***************************************************************************)
(* The maps of sessions: of the local node, by local SEID, and of the      *)
(* remote node, by remote SEID.  Local SEIDs are all different (they do    *)
(* not wrap), so the first map is the set of sessions in it; rs is the     *)
(* remote SEID of the session, 0 while it is not known.                    *)
(***************************************************************************)
NoMaps == [local |-> {}, remote |-> << >>]

\* CommunicationThread::addSession: a SEID that is taken keeps its session.
AddSession(m, s, rs) ==
    [local  |-> m.local \cup {s},
     remote |-> IF rs = 0 \/ rs \in DOMAIN m.remote THEN m.remote
                ELSE [x \in DOMAIN m.remote \cup {rs} |-> IF x = rs THEN s ELSE m.remote[x]]]

\* Faulty variant: the entry of the remote node is kept.
DelSessionLocal(m, s, rs) == [m EXCEPT !.local = @ \ {s}]

\* CommunicationThread::delSession: the SEID is erased whichever session has it.
DelSession(m, s, rs) ==
    [local  |-> m.local \ {s},
     remote |-> Restrict(m.remote, DOMAIN m.remote \ {rs})]

\* Node::getFirstSession, the first of an unordered map.
FirstSessions(m) == Range(m.remote)
===============================================================================
