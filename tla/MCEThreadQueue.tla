---------------------------- MODULE MCEThreadQueue ----------------------------
(* Instances of EThreadQueue for TLC: see the .cfg files. *)
EXTENDS EThreadQueue

\* A work group, an event thread, a socket thread (which polls its queue) and an
\* event thread whose senders do not wait.
MCUsages ==
    {[push |-> TRUE, pop |-> TRUE, multipleReaders |-> TRUE],
     [push |-> TRUE, pop |-> TRUE, multipleReaders |-> FALSE],
     [push |-> TRUE, pop |-> FALSE, multipleReaders |-> FALSE],
     [push |-> FALSE, pop |-> TRUE, multipleReaders |-> FALSE]}

\* An event thread.
MCEventThread == {[push |-> TRUE, pop |-> TRUE, multipleReaders |-> FALSE]}
===============================================================================
