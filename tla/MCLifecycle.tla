---------------------------- MODULE MCLifecycle -----------------------------
(***************************************************************************)
(* Instances of Lifecycle.  The sets of faults have names so that a run    *)
(* looks at one kind of trouble at a time.                                 *)
(***************************************************************************)
EXTENDS Lifecycle

NoFaults    == {}
AllFaults   == FaultKind
LocalFaults == {"board", "runner", "workspace"}
DiskFaults  == {"disk"}

(* What may go on at once: two faults, or one and an act of a person.  In its second
   turn the first attempt has one of them, and the second attempt none. *)
Budget ==
    /\ faults + human <= 2
    /\ turn > 1 => faults + human <= 2 - cur
=============================================================================
