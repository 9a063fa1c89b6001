------------------------- MODULE MCOperatorCommands -------------------------
(* Two requests beside an attempt at a card, of up to two turns.           *)
EXTENDS OperatorCommands
=============================================================================
