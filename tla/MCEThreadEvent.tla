---------------------------- MODULE MCEThreadEvent ----------------------------
(***************************************************************************)
(* A small instance of the event threads and work groups.                  *)
(***************************************************************************)
EXTENDS EThreadEvent
===============================================================================
