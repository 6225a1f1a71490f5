----------------------------- MODULE MCETimerPool -----------------------------
(***************************************************************************)
(* Small instances of the timer pool.                                      *)
(***************************************************************************)
EXTENDS ETimerPool
===============================================================================
