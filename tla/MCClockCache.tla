---------------------------- MODULE MCClockCache ----------------------------
(* Three threads on a shard of capacity two; the two hashes have the same  *)
(* low 32 bits.                                                            *)
EXTENDS ClockCache

MCLow(h) == IF h = 3 THEN 1 ELSE h
=============================================================================
