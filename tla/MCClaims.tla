------------------------------ MODULE MCClaims ------------------------------
(***************************************************************************)
(* Small instances of Claims for TLC.                                      *)
(***************************************************************************)
EXTENDS Claims

CONSTANTS d1, d2

(* Both clocks agree with the board's. *)
SameClocks == [d \in Daemon |-> 0]

(* d2's clock is one unit ahead. *)
SkewedClocks == [d \in Daemon |-> IF d = d2 THEN 1 ELSE 0]

(* A behaviour with a fault gets one comment less than one without. *)
Budget == Len(log) + faults <= MaxComments
=============================================================================
