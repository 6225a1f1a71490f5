----------------------------- MODULE PfcpNetwork -----------------------------
(***************************************************************************)
(* The datagrams between two PFCP nodes, and the environment of a run.     *)
(*                                                                         *)
(* UDP loses, delays, reorders and may duplicate.  A datagram stays at most *)
(* env.transit units of time in the network; one that is not received by   *)
(* then is lost.                                                           *)
(***************************************************************************)
EXTENDS Integers, Sequences

CONSTANTS
    Reqs,     \* the requests, each with a sequence number of its own
    Envs      \* the environments to consider

\* transit: how long a datagram may be under way.  service: how long the peer's
\* application may take to answer.  duplicates: the network duplicates.
\* undecodable: the translator may fail to decode a message.  sessions: the requests
\* whose message class is Session; those of the others is Node.
ASSUME EnvsAssumption ==
    Envs \subseteq [transit : Nat, service : Nat, duplicates : BOOLEAN,
                    undecodable : BOOLEAN, sessions : SUBSET Reqs]

VARIABLES
    env,      \* the environment
    net       \* the datagrams under way

\* twice: the network may still deliver it twice.
Datagrams == [kind : {"req", "rsp"}, req : Reqs, left : 0 .. env.transit,
              twice : BOOLEAN]

\* socket_.write(..)
NetSend(kind, r) ==
    net' = net \cup {[kind |-> kind, req |-> r, left |-> env.transit,
                      twice |-> env.duplicates]}

\* A datagram is received; one that is doubled stays under way for a second time.
NetReceive(d) ==
    /\ d \in net
    /\ \/ net' = net \ {d}
       \/ d.twice /\ net' = (net \ {d}) \cup {[d EXCEPT !.twice = FALSE]}

\* One unit of time: the datagrams that are late are lost.
NetTick ==
    net' = {[d EXCEPT !.left = @ - 1] : d \in {e \in net : e.left > 0}}
===============================================================================
