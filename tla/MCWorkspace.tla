---------------------------- MODULE MCWorkspace -----------------------------
(***************************************************************************)
(* Small instances of Workspace for TLC.                                   *)
(***************************************************************************)
EXTENDS Workspace

CONSTANTS r1, r2

NoFaults  == {}
AllFaults == FaultKind
=============================================================================
