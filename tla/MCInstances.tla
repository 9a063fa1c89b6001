----------------------------- MODULE MCInstances ----------------------------
(***************************************************************************)
(* Small instances of Instances for TLC.  Ids and paths are named from p1. *)
(* A foreign program may hold the first port: p1 and p2 then have one port *)
(* between them, as under a fixed allocation.  What the past process has   *)
(* left and where its configuration is are tied to each other, one pair of *)
(* each.                                                                   *)
(***************************************************************************)
EXTENDS Instances

CONSTANTS p1, p2, a, b

MCInit ==
    /\ Init
    /\ ident[p1] = a /\ ident[Old] = a /\ path[p1] = "this" /\ path[p2] = "this"
    /\ foreign \in {{}, {1}} /\ (foreign = {1} <=> path[Old] = "that")
    /\ attempt[Old] = IF file[ident[Old]] = None THEN "none"
                      ELSE IF file[ident[Old]].recent THEN "running" ELSE "cleaning"
MCSpec == MCInit /\ [][Next]_vars /\ Fairness
=============================================================================
