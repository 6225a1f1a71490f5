------------------------------ MODULE MCPfcpNodes ------------------------------
(***************************************************************************)
(* Small instances of PfcpNodes.                                           *)
(***************************************************************************)
EXTENDS PfcpNodes

\* A run over activity windows without sessions, in which a heartbeat cannot be
\* encoded, and a short run with sessions, each with a restart and a disconnect.
MCEnvs ==
    {[sessions |-> {}, restarts |-> 1, disconnects |-> 1, heartbeats |-> TRUE,
      errors |-> 1],
     [sessions |-> Sessions, restarts |-> 1, disconnects |-> 1, heartbeats |-> FALSE,
      errors |-> 0]}

\* One disconnect of a remote node that does not restart.
DisconnectEnvs ==
    {[sessions |-> Sessions, restarts |-> 0, disconnects |-> 1, heartbeats |-> FALSE,
      errors |-> 0]}
===============================================================================
