-------------------------- MODULE MCPfcpTransactions --------------------------
(* Instances of PfcpTransactions for TLC: see the .cfg files. *)
EXTENDS PfcpTransactions

E(transit, service, duplicates, undecodable, sessions) ==
    [transit |-> transit, service |-> service, duplicates |-> duplicates,
     undecodable |-> undecodable, sessions |-> sessions]

\* Responses that come in time; that may be late; that may be late and doubled;
\* and messages that cannot be decoded: to a request of class Node or Session.
MCEnvs == UNION {{E(1, 0, FALSE, FALSE, s), E(1, 3, FALSE, FALSE, s),
                  E(1, 3, TRUE, FALSE, s), E(1, 1, FALSE, TRUE, s)} : s \in SUBSET Reqs}

\* A peer that takes as long as T1 to answer.
MCLate == {E(1, 3, FALSE, FALSE, {})}

\* A peer that answers in time, over a network that doubles datagrams.
MCDuplicates == {E(1, 0, TRUE, FALSE, {})}
===============================================================================
