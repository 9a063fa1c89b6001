--------------------------- MODULE MCSourceCache ----------------------------
(* Two daemons, one card, and two sources of one remote.                   *)
EXTENDS SourceCache, TLC

Refs     == [app |-> "main", lib |-> "release"]
Symmetry == Permutations(Daemon)
=============================================================================
