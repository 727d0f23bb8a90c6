---------------------------- MODULE MCSelfCheck ----------------------------
(* Small instances of SelfCheck for TLC. *)
EXTENDS SelfCheck, MCFlexIngest

\* The errors that cool the queue; "waiting" comes from a reclaimed job.
CoolingMessages == {{"throttledCode"}}
=============================================================================
