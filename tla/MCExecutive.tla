---------------------------- MODULE MCExecutive ----------------------------
(* Two transactions of up to two messages each, on two rows: enough for a   *)
(* call in the middle of a transaction and for a deadlock of two waits.     *)
EXTENDS Executive
=============================================================================
