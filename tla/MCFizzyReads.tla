---------------------------- MODULE MCFizzyReads ----------------------------
(* Two reads at a time of the comments of a card and of a comment with the *)
(* number of that card, which share a key.                                 *)
EXTENDS FizzyReads, TLC

Things   == {[kind |-> "comments", id |-> 7], [kind |-> "comment", id |-> 7]}
Symmetry == Permutations(Task) \cup Permutations(Context)
=============================================================================
