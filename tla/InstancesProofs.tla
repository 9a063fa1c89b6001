-------------------------- MODULE InstancesProofs ---------------------------
(***************************************************************************)
(* Proofs about Instances, for any processes, ids, ports and faults: the   *)
(* types, that an instance id is held by one process unless its exclusion  *)
(* lapsed, and that a process that ended in order leaves no record.        *)
(***************************************************************************)
EXTENDS Instances, TLAPS

(* NoOne owns no process's record. *)
LEMMA NoOneIsNobody == NoOne \notin Anyone
BY InstancesAssumption DEF Anyone

LEMMA ProcFacts == Proc \subseteq Anyone /\ Old \in Anyone /\ Old \notin Proc
BY InstancesAssumption DEF Anyone

-----------------------------------------------------------------------------
(* Types. *)

(* What most steps do: one process moves to another stage, and every other *)
(* variable keeps its type.                                                *)
LEMMA InitTypeOK == Init => TypeOK
<1> SUFFICES ASSUME Init PROVE TypeOK
  OBVIOUS
<1> USE DEF Init
<1>1. file \in [Id -> Record \cup {None}]
  <2>1. PICK r \in {None} \cup [owner : {Old}, recent : BOOLEAN] :
          file = [i \in Id |-> IF i = ident[Old] THEN r ELSE None]
    OBVIOUS
  <2>2. r \in Record \cup {None}
    BY ProcFacts DEF Record
  <2> QED
    BY <2>1, <2>2
<1>2. attempt \in [Anyone -> Attempt]
  <2>1. PICK a \in {"none"} \cup Active :
          attempt = [p \in Anyone |-> IF p = Old THEN a ELSE "none"]
    OBVIOUS
  <2> QED
    BY <2>1 DEF Active, Attempt
<1>3. stage \in [Proc -> Stages] /\ port \in [Proc -> 0..MaxPort] /\ faults \in 0..MaxFaults
  BY InstancesAssumption DEF Stages
<1>4. view \in [Proc -> [Id -> Record \cup {None}]]
  OBVIOUS
<1> QED
  BY <1>1, <1>2, <1>3, <1>4 DEF TypeOK

LEMMA FaultType == ASSUME TypeOK, Fault PROVE faults' \in 0..MaxFaults
BY InstancesAssumption DEF TypeOK, Fault

LEMMA DeleteType ==
    ASSUME TypeOK, NEW p \in Proc, NEW i \in Id, Delete(p, i)
    PROVE  file' \in [Id -> Record \cup {None}] /\ lapsed' \subseteq Id
BY DEF TypeOK, Delete

LEMMA NextTypeOK == TypeOK /\ [Next]_vars => TypeOK'
<1> SUFFICES ASSUME TypeOK, [Next]_vars PROVE TypeOK'
  OBVIOUS
<1> USE DEF To, config
<1>1. ASSUME NEW p \in Proc, Read(p) PROVE TypeOK'
  <2>1. "judge" \in Stages
    BY DEF Stages, Starting
  <2> QED
    BY <1>1, <2>1 DEF Read, TypeOK
<1>2. ASSUME NEW p \in Proc, NEW i \in Id, Judge(p, i) PROVE TypeOK'
  <2>1. "gone" \in Stages
    BY DEF Stages
  <2>2. stage' \in [Proc -> Stages]
    BY <1>2, <2>1 DEF Judge, TypeOK
  <2>3. view' \in [Proc -> [Id -> Record \cup {None}]]
    BY <1>2 DEF Judge, TypeOK
  <2>4. file' \in [Id -> Record \cup {None}] /\ lapsed' \subseteq Id
    <3>1. Delete(p, i) \/ UNCHANGED <<file, lapsed>>
      BY <1>2 DEF Judge
    <3> QED
      BY <3>1, DeleteType DEF TypeOK
  <2> QED
    BY <1>2, <2>2, <2>3, <2>4 DEF Judge, TypeOK
<1>3. ASSUME NEW p \in Proc, Judged(p) PROVE TypeOK'
  <2>1. "bind" \in Stages /\ 1 \in 0..MaxPort
    BY InstancesAssumption DEF Stages, Starting
  <2> QED
    BY <1>3, <2>1 DEF Judged, TypeOK
<1>4. ASSUME NEW p \in Proc, Bind(p) PROVE TypeOK'
  <2>1. "publish" \in Stages /\ "gone" \in Stages
    BY DEF Stages, Starting
  <2>2. port[p] \in 0..MaxPort
    BY DEF TypeOK
  <2>3. port[p] < MaxPort => port[p] + 1 \in 0..MaxPort
    BY <2>2, InstancesAssumption
  <2>4. stage' \in [Proc -> Stages] /\ port' \in [Proc -> 0..MaxPort]
    BY <1>4, <2>1, <2>3 DEF Bind, TypeOK
  <2> QED
    BY <1>4, <2>4 DEF Bind, TypeOK
<1>5. ASSUME NEW p \in Proc, Publish(p) PROVE TypeOK'
  <2>1. "validate" \in Stages
    BY DEF Stages, Starting
  <2>2. [owner |-> p, recent |-> TRUE] \in Record
    BY ProcFacts DEF Record
  <2>3. ident[p] \in Id
    BY ProcFacts DEF TypeOK
  <2>4. missed' \in [Proc -> SUBSET Proc]
    BY <1>5 DEF Publish, TypeOK
  <2> QED
    BY <1>5, <2>1, <2>2, <2>3, <2>4 DEF Publish, TypeOK
<1>6. ASSUME NEW p \in Proc, Validate(p) PROVE TypeOK'
  <2>1. "recover" \in Stages
    BY DEF Stages, Starting
  <2>2. {<<q, attempt[q]>> : q \in {a \in Anyone : attempt[a] \in Active}} \in SUBSET (Anyone \X Active)
    OBVIOUS
  <2> QED
    BY <1>6, <2>1, <2>2 DEF Validate, TypeOK
<1>7. ASSUME NEW p \in Proc, NEW q \in Anyone, RecoverOne(p, q) PROVE TypeOK'
  <2>1. attempt' \in [Anyone -> Attempt]
    <3>1. {"interrupted", "preserved"} \subseteq Attempt /\ attempt \in [Anyone -> Attempt]
      BY DEF TypeOK, Attempt
    <3> QED
      BY <1>7, <3>1 DEF RecoverOne
  <2>2. todo' \in [Proc -> SUBSET (Anyone \X Active)]
    <3>1. todo \in [Proc -> SUBSET (Anyone \X Active)]
      BY DEF TypeOK
    <3>2. \E k : todo' = [todo EXCEPT ![p] = todo[p] \ {<<q, k>>}]
      BY <1>7 DEF RecoverOne
    <3> QED
      BY <3>1, <3>2
  <2> QED
    BY <1>7, <2>1, <2>2 DEF RecoverOne, TypeOK
<1>8. ASSUME NEW p \in Proc, Recovered(p) \/ Started(p) \/ StopStray(p) \/ StrayEnds(p) \/ Stop(p) PROVE TypeOK'
  <2>1. {"snapshot", "up", "stray_cancel", "gone", "close"} \subseteq Stages
    BY DEF Stages, Starting, Stopping, Strays
  <2> QED
    BY <1>8, <2>1 DEF Recovered, Started, StopStray, StrayEnds, Stop, TypeOK
<1>9. ASSUME NEW p \in Proc, Close(p) PROVE TypeOK'
  <2>1. "cancel" \in Stages /\ 0 \in 0..MaxPort
    BY InstancesAssumption DEF Stages, Stopping
  <2> QED
    BY <1>9, <2>1 DEF Close, TypeOK
<1>10. ASSUME NEW p \in Proc, CancelRuns(p) \/ CancelStray(p) PROVE TypeOK'
  <2>1. "flush" \in Stages /\ "redo" \in Stages
    BY DEF Stages, Stopping, Failing
  <2> QED
    <3>1. attempt' \in [Anyone -> Attempt]
      <4>1. "over" \in Attempt /\ attempt \in [Anyone -> Attempt]
        BY DEF TypeOK, Attempt
      <4> QED
        BY <1>10, <4>1, ProcFacts DEF CancelRuns, CancelStray
    <3>2. stage' \in [Proc -> Stages]
      BY <1>10, <2>1 DEF CancelRuns, CancelStray, TypeOK
    <3> QED
      BY <1>10, <3>1, <3>2 DEF CancelRuns, CancelStray, TypeOK
<1>11. ASSUME NEW p \in Proc, Cleanup(p) PROVE TypeOK'
  <2>1. ASSUME NEW from \in Stages, NEW to \in Stages, Flush(p, from, to) PROVE TypeOK'
    <3>1. 0 \in 0..MaxPort
      BY InstancesAssumption
    <3> QED
      BY <2>1, <3>1 DEF Flush, TypeOK
  <2>2. ASSUME NEW from \in Stages, NEW to \in Stages, Remove(p, from, to) PROVE TypeOK'
    <3>1. ident[p] \in Id
      BY ProcFacts DEF TypeOK
    <3>2. file' \in [Id -> Record \cup {None}] /\ lapsed' \subseteq Id
      BY <2>2, <3>1, DeleteType DEF Remove
    <3> QED
      BY <2>2, <3>2 DEF Remove, TypeOK
  <2>3. {"flush", "remove", "gone", "undo", "undo_remove", "redo", "abort", "rollback",
         "rollback_remove", "stray"} \subseteq Stages
    BY DEF Stages, Stopping, Failing, Strays
  <2> QED
    BY <1>11, <2>1, <2>2, <2>3 DEF Cleanup
<1>12. ASSUME NEW p \in Proc, PublishFails(p) \/ SnapshotFails(p) PROVE TypeOK'
  <2>1. "gone" \in Stages /\ "rollback" \in Stages
    BY DEF Stages, Strays
  <2>2. Fault
    BY <1>12 DEF PublishFails, SnapshotFails
  <2> QED
    BY <1>12, <2>1, <2>2, FaultType DEF PublishFails, SnapshotFails, TypeOK
<1>13. ASSUME NEW p \in Proc, ValidateFails(p) PROVE TypeOK'
  <2>1. "undo" \in Stages
    BY DEF Stages, Failing
  <2> QED
    BY <1>13, <2>1 DEF ValidateFails, TypeOK
<1>14. ASSUME NEW p \in Proc, RecoverFails(p) PROVE TypeOK'
  <2>1. "undo" \in Stages /\ "abort" \in Stages
    BY DEF Stages, Failing
  <2>2. stage' \in [Proc -> Stages]
    BY <1>14, <2>1 DEF RecoverFails, TypeOK
  <2>3. faults' \in 0..MaxFaults
    BY <1>14, FaultType DEF RecoverFails
  <2> QED
    BY <1>14, <2>2, <2>3 DEF RecoverFails, TypeOK
<1>15. ASSUME NEW p \in Proc, CancelFails(p) PROVE TypeOK'
  <2>1. "dead" \in Stages
    BY DEF Stages
  <2>2. faults' \in 0..MaxFaults
    BY <1>15, FaultType DEF CancelFails
  <2> QED
    BY <1>15, <2>1, <2>2 DEF CancelFails, TypeOK, Attempt
<1>16. ASSUME NEW p \in Proc, Crash(p) PROVE TypeOK'
  <2>1. "dead" \in Stages
    BY DEF Stages
  <2>2. faults' \in 0..MaxFaults
    BY <1>16, FaultType DEF Crash
  <2> QED
    BY <1>16, <2>1, <2>2 DEF Crash, TypeOK
<1>17. ASSUME NEW p \in Proc, HeartbeatBegins(p) PROVE TypeOK'
  BY <1>17 DEF HeartbeatBegins, TypeOK
<1>18. ASSUME NEW p \in Proc, HeartbeatEnds(p) PROVE TypeOK'
  <2>1. [owner |-> p, recent |-> TRUE] \in Record
    BY ProcFacts DEF Record
  <2> QED
    BY <1>18, <2>1 DEF HeartbeatEnds, TypeOK
<1>19. ASSUME NEW p \in Proc, Work(p) PROVE TypeOK'
  BY <1>19 DEF Work, TypeOK, Attempt
<1>20. ASSUME NEW i \in Id, Age(i) PROVE TypeOK'
  <2>1. file[i] \in Record
    BY <1>20 DEF Age, TypeOK, None
  <2>2. file' \in [Id -> Record \cup {None}]
    BY <1>20, <2>1 DEF Age, TypeOK, Record
  <2>3. faults' \in 0..MaxFaults /\ lapsed' \subseteq Id
    BY <1>20, FaultType DEF Age, TypeOK
  <2> QED
    BY <1>20, <2>2, <2>3 DEF Age, TypeOK
<1>21. CASE UNCHANGED vars
  BY <1>21 DEF vars, TypeOK
<1> QED
  BY <1>1, <1>2, <1>3, <1>4, <1>5, <1>6, <1>7, <1>8, <1>9, <1>10, <1>11, <1>12, <1>13, <1>14,
     <1>15, <1>16, <1>17, <1>18, <1>19, <1>20, <1>21 DEF Next, Step, Fails

(* Every variable keeps its type, for every value of the constants. *)
THEOREM TypeCorrect == Spec => []TypeOK
<1> QED
  BY InitTypeOK, NextTypeOK, PTL DEF Spec

-----------------------------------------------------------------------------
(* Exclusion.                                                              *)
(*                                                                         *)
(* The invariant by itself says nothing of the file that protects it.  The *)
(* strengthening does: while an id has not lapsed, its one holder's record *)
(* is in place and recent (Named), nobody else writes (Writers), and a     *)
(* process on its way to publish has either seen that record or is known   *)
(* to have missed it (Readers).                                            *)

Reading == {"judge", "bind", "publish"}
Kept    == Holding \cup {"remove", "undo_remove", "redo", "rollback_remove", "dead"}

Mine(p) == [owner |-> p, recent |-> TRUE]

Sole    == \A p, q \in Proc : Holds(p) /\ Holds(q) /\ ident[p] = ident[q] /\ ident[p] \notin lapsed => p = q
Named   == \A p \in Proc : Holds(p) /\ ident[p] \notin lapsed => file[ident[p]] = Mine(p)
Writers == \A p \in Proc : writing[p] => Holds(p)
Readers ==
    \A p, q \in Proc :
        stage[p] \in Reading /\ Holds(q) /\ ident[p] = ident[q] /\ ident[p] \notin lapsed =>
            \/ q \in missed[p]
            \/ stage[p] = "judge" /\ view[p][ident[p]] = Mine(q)
Traces  == \A p \in Proc, i \in Id : file[i].owner = p => ident[p] = i /\ stage[p] \in Kept

Excl == Sole /\ Named /\ Writers /\ Readers /\ Traces

LEMMA InitExcl == Init => Excl
<1> SUFFICES ASSUME Init PROVE Excl
  OBVIOUS
<1>1. \A p \in Proc : stage[p] = "off" /\ ~Holds(p) /\ writing[p] = FALSE
  BY DEF Init, Holds, Holding
<1>2. ASSUME NEW p \in Proc, NEW i \in Id PROVE file[i].owner # p
  <2>1. PICK r \in {None} \cup [owner : {Old}, recent : BOOLEAN] :
          file = [j \in Id |-> IF j = ident[Old] THEN r ELSE None]
    BY DEF Init
  <2>2. r.owner \in {NoOne, Old} /\ None.owner = NoOne
    BY DEF None
  <2> QED
    BY <2>1, <2>2, ProcFacts, NoOneIsNobody
<1> QED
  BY <1>1, <1>2 DEF Excl, Sole, Named, Writers, Readers, Traces, Reading

(* A process moves from a stage to another, and the registry does not      *)
(* change: enough that it does not come to hold, to read or to publish, and *)
(* that it drops its write when it stops holding.                          *)
LEMMA MoveExcl ==
    ASSUME TypeOK, Excl, NEW p \in Proc, NEW s \in Stages,
           stage' = [stage EXCEPT ![p] = s],
           s \in Holding => stage[p] \in Holding,
           s \in Reading => stage[p] \in Reading /\ (stage[p] = "judge" => s = "judge" \/ view[p][ident[p]] = None),
           s \notin Kept => stage[p] \notin Kept \/ file[ident[p]].owner # p,
           writing' \in {writing, [writing EXCEPT ![p] = FALSE]},
           s \notin Holding => writing'[p] = FALSE,
           view' \in {view, [view EXCEPT ![p] = [i \in Id |-> None]]},
           s \in Reading => view' = view,
           UNCHANGED <<ident, file, missed, lapsed>>
    PROVE  Excl'
<1>1. \A q \in Proc : stage'[q] = IF q = p THEN s ELSE stage[q]
  BY DEF TypeOK
<1>2. \A q \in Proc : Holds(q)' => Holds(q)
  BY <1>1 DEF Holds
<1>3. Sole' /\ Named'
  BY <1>2 DEF Excl, Sole, Named
<1>4. Writers'
  <2> SUFFICES ASSUME NEW q \in Proc, writing'[q] PROVE Holds(q)'
    BY DEF Writers
  <2>1. writing \in [Proc -> BOOLEAN]
    BY DEF TypeOK
  <2>2. CASE q = p
    <3>1. s \in Holding
      BY <2>2
    <3> QED
      BY <1>1, <2>2, <3>1 DEF Holds
  <2>3. CASE q # p
    <3>1. writing'[q] = writing[q]
      BY <2>1, <2>3
    <3> QED
      BY <1>1, <2>3, <3>1 DEF Holds, Excl, Writers
  <2> QED
    BY <2>2, <2>3
<1>5. Readers'
  <2> SUFFICES ASSUME NEW r \in Proc, NEW q \in Proc,
                      stage'[r] \in Reading, Holds(q)', ident[r] = ident[q], ident[r] \notin lapsed
               PROVE  \/ q \in missed[r]
                      \/ stage'[r] = "judge" /\ view'[r][ident[r]] = Mine(q)
    BY DEF Readers, Mine
  <2>1. stage[r] \in Reading
    BY <1>1
  <2>2. q \in missed[r] \/ (stage[r] = "judge" /\ view[r][ident[r]] = Mine(q))
    BY <1>2, <2>1 DEF Excl, Readers
  <2>3. CASE r = p
    <3>1. view[r][ident[r]] = Mine(q) => view[r][ident[r]] # None
      BY NoOneIsNobody, ProcFacts DEF Mine, None
    <3> QED
      BY <1>1, <2>2, <2>3, <3>1
  <2>4. CASE r # p
    <3>1. view'[r] = view[r]
      BY <2>4 DEF TypeOK
    <3> QED
      BY <1>1, <2>2, <2>4, <3>1
  <2> QED
    BY <2>3, <2>4
<1>6. Traces'
  <2> SUFFICES ASSUME NEW q \in Proc, NEW i \in Id, file[i].owner = q
               PROVE  ident[q] = i /\ stage'[q] \in Kept
    BY DEF Traces
  <2>1. ident[q] = i /\ stage[q] \in Kept
    BY DEF Excl, Traces
  <2> QED
    BY <1>1, <2>1
<1> QED
  BY <1>3, <1>4, <1>5, <1>6 DEF Excl

(* No process moves, and nothing the invariant speaks of changes. *)
LEMMA StillExcl ==
    ASSUME Excl, UNCHANGED <<ident, stage, file, view, writing, missed, lapsed>>
    PROVE  Excl'
BY DEF Excl, Sole, Named, Writers, Readers, Traces, Holds, Mine

(* A file is deleted: its id has lapsed, unless nobody else needs it. *)
LEMMA DeleteNamed ==
    ASSUME TypeOK, Excl, NEW p \in Proc, NEW i \in Id, Delete(p, i), stage[p] \notin Holding,
           UNCHANGED ident, \A q \in Proc : Holds(q)' => Holds(q)
    PROVE  Sole' /\ Named'
<1>1. lapsed \subseteq lapsed'
  BY DEF Delete
<1>2. Sole'
  BY <1>1 DEF Excl, Sole
<1>3. Named'
  <2> SUFFICES ASSUME NEW q \in Proc, Holds(q), ident[q] \notin lapsed' PROVE file'[ident[q]] = Mine(q)
    BY <1>1 DEF Named, Mine
  <2>1. q # p
    BY DEF Holds
  <2>2. ident[q] # i
    BY <2>1 DEF Delete
  <2>3. ident[q] \in Id
    BY ProcFacts DEF TypeOK
  <2> QED
    BY <1>1, <2>2, <2>3 DEF Delete, Excl, Named, TypeOK
<1> QED
  BY <1>2, <1>3

(* No file is anyone's that was not so before. *)
LEMMA DeleteOwner ==
    ASSUME TypeOK, NEW p \in Proc, NEW i \in Id, Delete(p, i), NEW q \in Proc, NEW j \in Id,
           file'[j].owner = q
    PROVE  j # i /\ file[j].owner = q
<1>1. j # i
  BY NoOneIsNobody, ProcFacts DEF Delete, None, TypeOK
<1> QED
  BY <1>1 DEF Delete, TypeOK

LEMMA RemoveExcl ==
    ASSUME TypeOK, Excl, NEW p \in Proc, NEW from \in Stages, NEW to \in Stages, Remove(p, from, to),
           from \notin Holding, to \notin Holding \cup Reading
    PROVE  Excl'
<1>1. \A q \in Proc : stage'[q] = IF q = p THEN to ELSE stage[q]
  BY DEF Remove, To, TypeOK
<1>2. \A q \in Proc : Holds(q)' <=> Holds(q)
  BY <1>1 DEF Holds, Remove
<1>3. Delete(p, ident[p]) /\ ident[p] \in Id /\ stage[p] \notin Holding
  BY ProcFacts DEF Remove, TypeOK
<1>4. UNCHANGED <<ident, view, writing, missed>> /\ lapsed \subseteq lapsed'
  BY <1>3 DEF Remove, config, Delete
<1>5. Sole' /\ Named'
  BY <1>2, <1>3, <1>4, DeleteNamed
<1>6. Writers'
  BY <1>2, <1>4 DEF Excl, Writers
<1>7. Readers'
  BY <1>1, <1>2, <1>4 DEF Excl, Readers, Mine
<1>8. Traces'
  <2> SUFFICES ASSUME NEW q \in Proc, NEW j \in Id, file'[j].owner = q
               PROVE  ident[q] = j /\ stage'[q] \in Kept
    BY <1>4 DEF Traces
  <2>1. j # ident[p] /\ file[j].owner = q
    BY <1>3, DeleteOwner
  <2>2. ident[q] = j /\ stage[q] \in Kept
    BY <2>1 DEF Excl, Traces
  <2> QED
    BY <1>1, <2>1, <2>2
<1> QED
  BY <1>5, <1>6, <1>7, <1>8 DEF Excl

LEMMA JudgeExcl ==
    ASSUME TypeOK, Excl, NEW p \in Proc, NEW i \in Id, Judge(p, i)
    PROVE  Excl'
<1>1. /\ stage[p] = "judge" /\ view' = [view EXCEPT ![p][i] = None]
      /\ UNCHANGED <<ident, writing, missed>>
  BY DEF Judge, config
<1>2. stage' = stage \/ stage' = [stage EXCEPT ![p] = "gone"]
  BY DEF Judge, To
<1>3. \A q \in Proc : stage'[q] = stage[q] \/ (q = p /\ stage'[q] = "gone")
  BY <1>2 DEF TypeOK
<1>4. \A q \in Proc : Holds(q)' <=> Holds(q)
  BY <1>1, <1>3 DEF Holds, Holding
<1>5. Delete(p, i) \/ UNCHANGED <<file, lapsed>>
  BY DEF Judge
<1>6. lapsed \subseteq lapsed'
  BY <1>5 DEF Delete
<1>7. Sole' /\ Named'
  <2>1. CASE Delete(p, i)
    BY <1>1, <1>4, <2>1, DeleteNamed DEF Holding
  <2>2. CASE UNCHANGED <<file, lapsed>>
    BY <1>1, <1>4, <2>2 DEF Excl, Sole, Named, Mine
  <2> QED
    BY <1>5, <2>1, <2>2
<1>8. Writers'
  BY <1>1, <1>4 DEF Excl, Writers
<1>9. Readers'
  <2> SUFFICES ASSUME NEW r \in Proc, NEW q \in Proc,
                      stage'[r] \in Reading, Holds(q), ident[r] = ident[q], ident[r] \notin lapsed
               PROVE  \/ q \in missed[r]
                      \/ stage'[r] = "judge" /\ view'[r][ident[r]] = Mine(q)
    BY <1>1, <1>4, <1>6 DEF Readers, Mine
  <2>1. stage'[r] = stage[r]
    BY <1>3 DEF Reading
  <2>2. q \in missed[r] \/ (stage[r] = "judge" /\ view[r][ident[r]] = Mine(q))
    BY <2>1 DEF Excl, Readers
  <2>3. CASE r = p /\ i = ident[p] /\ view[p][i] = Mine(q)
    <3>1. Probe(view[p][i].owner) = {TRUE} /\ view[p][i].recent
      <4>1. view[p][i].owner = q /\ view[p][i].recent = TRUE
        BY <2>3 DEF Mine
      <4>2. Alive(q)
        BY DEF Alive, Holds, Holding
      <4> QED
        BY <4>1, <4>2 DEF Probe
    <3>2. To(p, "gone")
      BY <2>3, <3>1 DEF Judge
    <3>3. stage'[p] = "gone"
      BY <3>2 DEF To, TypeOK
    <3> QED
      BY <2>3, <3>3 DEF Reading
  <2>4. CASE ~(r = p /\ i = ident[p])
    <3>1. ident[r] \in Id /\ view[r] \in [Id -> Record \cup {None}]
      BY ProcFacts DEF TypeOK
    <3>2. view'[r][ident[r]] = view[r][ident[r]]
      BY <1>1, <2>4, <3>1 DEF TypeOK
    <3> QED
      BY <2>1, <2>2, <3>2
  <2> QED
    BY <2>2, <2>3, <2>4
<1>10. Traces'
  <2> SUFFICES ASSUME NEW q \in Proc, NEW j \in Id, file'[j].owner = q
               PROVE  ident[q] = j /\ stage'[q] \in Kept
    BY <1>1 DEF Traces
  <2>1. file[j].owner = q
    BY <1>5, DeleteOwner
  <2>2. ident[q] = j /\ stage[q] \in Kept
    BY <2>1 DEF Excl, Traces
  <2>3. q # p
    BY <1>1, <2>2 DEF Kept, Holding
  <2> QED
    BY <1>3, <2>2, <2>3
<1> QED
  BY <1>7, <1>8, <1>9, <1>10 DEF Excl

LEMMA ReadExcl ==
    ASSUME TypeOK, Excl, NEW p \in Proc, Read(p)
    PROVE  Excl'
<1>1. /\ \A q \in Proc : stage'[q] = IF q = p THEN "judge" ELSE stage[q]
      /\ \A q \in Proc : view'[q] = IF q = p THEN file ELSE view[q]
      /\ UNCHANGED <<ident, file, writing, missed, lapsed>> /\ stage[p] = "off"
  BY DEF Read, To, TypeOK, config
<1>2. \A q \in Proc : Holds(q)' <=> Holds(q)
  BY <1>1 DEF Holds, Holding
<1>3. Sole' /\ Named' /\ Writers'
  BY <1>1, <1>2 DEF Excl, Sole, Named, Writers, Mine
<1>4. Readers'
  <2> SUFFICES ASSUME NEW r \in Proc, NEW q \in Proc,
                      stage'[r] \in Reading, Holds(q), ident[r] = ident[q], ident[r] \notin lapsed
               PROVE  \/ q \in missed[r]
                      \/ stage'[r] = "judge" /\ view'[r][ident[r]] = Mine(q)
    BY <1>1, <1>2 DEF Readers, Mine
  <2>1. CASE r = p
    <3>1. file[ident[q]] = Mine(q)
      BY DEF Excl, Named
    <3> QED
      BY <1>1, <2>1, <3>1
  <2>2. CASE r # p
    BY <1>1, <2>2 DEF Excl, Readers
  <2> QED
    BY <2>1, <2>2
<1>5. Traces'
  <2> SUFFICES ASSUME NEW q \in Proc, NEW j \in Id, file[j].owner = q
               PROVE  ident[q] = j /\ stage'[q] \in Kept
    BY <1>1 DEF Traces
  <2>1. ident[q] = j /\ stage[q] \in Kept
    BY DEF Excl, Traces
  <2> QED
    BY <1>1, <2>1 DEF Kept, Holding
<1> QED
  BY <1>3, <1>4, <1>5 DEF Excl

LEMMA PublishExcl ==
    ASSUME TypeOK, Excl, NEW p \in Proc, Publish(p)
    PROVE  Excl'
<1>1. /\ \A q \in Proc : stage'[q] = IF q = p THEN "validate" ELSE stage[q]
      /\ \A i \in Id : file'[i] = IF i = ident[p] THEN Mine(p) ELSE file[i]
      /\ UNCHANGED <<ident, view, writing>> /\ stage[p] = "publish" /\ ident[p] \in Id
  BY ProcFacts DEF Publish, To, TypeOK, config, Mine
<1>2. \A q \in Proc : Holds(q)' <=> Holds(q) \/ q = p
  BY <1>1 DEF Holds, Holding
<1>3. /\ lapsed \subseteq lapsed'
      /\ (\E q \in missed[p] : Holds(q)) => ident[p] \in lapsed'
  BY DEF Publish
<1>4. ASSUME NEW q \in Proc, q # p, Holds(q), ident[q] = ident[p], ident[p] \notin lapsed'
      PROVE  FALSE
  <2>1. q \in missed[p]
    BY <1>1, <1>3, <1>4 DEF Excl, Readers, Reading
  <2> QED
    BY <1>3, <1>4, <2>1
<1>5. Sole'
  <2> SUFFICES ASSUME NEW q \in Proc, NEW r \in Proc, Holds(q)', Holds(r)', ident[q] = ident[r],
                      ident[q] \notin lapsed'
               PROVE  q = r
    BY <1>1 DEF Sole
  <2>1. CASE Holds(q) /\ Holds(r)
    BY <1>3, <2>1 DEF Excl, Sole
  <2>2. CASE q = p
    BY <1>2, <1>4, <2>2
  <2>3. CASE r = p
    BY <1>2, <1>4, <2>3
  <2> QED
    BY <1>2, <2>1, <2>2, <2>3
<1>6. Named'
  <2> SUFFICES ASSUME NEW q \in Proc, Holds(q)', ident[q] \notin lapsed' PROVE file'[ident[q]] = Mine(q)
    BY <1>1 DEF Named, Mine
  <2>1. ident[q] \in Id
    BY ProcFacts DEF TypeOK
  <2>2. CASE q = p
    BY <1>1, <2>1, <2>2
  <2>3. CASE q # p
    <3>1. ident[q] # ident[p]
      BY <1>2, <1>4, <2>3
    <3> QED
      BY <1>1, <1>2, <1>3, <2>1, <2>3, <3>1 DEF Excl, Named
  <2> QED
    BY <2>2, <2>3
<1>7. Writers'
  BY <1>1, <1>2 DEF Excl, Writers
<1>8. Readers'
  <2> SUFFICES ASSUME NEW r \in Proc, NEW q \in Proc,
                      stage'[r] \in Reading, Holds(q)', ident[r] = ident[q], ident[r] \notin lapsed'
               PROVE  \/ q \in missed'[r]
                      \/ stage'[r] = "judge" /\ view[r][ident[r]] = Mine(q)
    BY <1>1 DEF Readers, Mine
  <2>1. r # p /\ stage[r] \in Reading /\ stage'[r] = stage[r]
    BY <1>1 DEF Reading
  <2>2. missed[r] \subseteq missed'[r] /\ (ident[r] = ident[p] => p \in missed'[r])
    BY <2>1 DEF Publish, Reading, TypeOK
  <2>3. CASE q = p
    BY <2>2, <2>3
  <2>4. CASE q # p
    BY <1>2, <1>3, <2>1, <2>2, <2>4 DEF Excl, Readers
  <2> QED
    BY <2>3, <2>4
<1>9. Traces'
  <2> SUFFICES ASSUME NEW q \in Proc, NEW j \in Id, file'[j].owner = q
               PROVE  ident[q] = j /\ stage'[q] \in Kept
    BY <1>1 DEF Traces
  <2>1. CASE j = ident[p]
    BY <1>1, <2>1 DEF Mine, Kept, Holding
  <2>2. CASE j # ident[p]
    <3>1. ident[q] = j /\ stage[q] \in Kept
      BY <1>1, <2>2 DEF Excl, Traces
    <3> QED
      BY <1>1, <3>1 DEF Kept, Holding
  <2> QED
    BY <2>1, <2>2
<1> QED
  BY <1>5, <1>6, <1>7, <1>8, <1>9 DEF Excl

LEMMA HeartbeatExcl ==
    ASSUME TypeOK, Excl, NEW p \in Proc, HeartbeatBegins(p) \/ HeartbeatEnds(p)
    PROVE  Excl'
<1>1. CASE HeartbeatBegins(p)
  <2>1. \A q \in Proc : writing'[q] => writing[q] \/ (q = p /\ Holds(p))
    BY <1>1 DEF HeartbeatBegins, Beating, Holds, Holding, TypeOK
  <2>2. UNCHANGED <<ident, stage, file, view, missed, lapsed>>
    BY <1>1 DEF HeartbeatBegins, config
  <2>3. Writers'
    BY <2>1, <2>2 DEF Excl, Writers, Holds
  <2> QED
    BY <2>2, <2>3 DEF Excl, Sole, Named, Readers, Traces, Holds, Mine
<1>2. CASE HeartbeatEnds(p)
  <2>1. /\ UNCHANGED <<ident, stage, view, missed, lapsed>> /\ ident[p] \in Id /\ Holds(p)
        /\ \A q \in Proc : writing'[q] => writing[q]
        /\ \A i \in Id : file'[i] = IF i = ident[p] THEN Mine(p) ELSE file[i]
    <3>1. writing[p] /\ Holds(p) /\ ident[p] \in Id
      BY <1>2, ProcFacts DEF HeartbeatEnds, Excl, Writers, TypeOK
    <3> QED
      BY <1>2, <3>1 DEF HeartbeatEnds, config, TypeOK, Mine
  <2>2. Sole' /\ Writers' /\ Readers'
    BY <2>1 DEF Excl, Sole, Writers, Readers, Holds, Mine
  <2>3. Named'
    <3> SUFFICES ASSUME NEW q \in Proc, Holds(q), ident[q] \notin lapsed PROVE file'[ident[q]] = Mine(q)
      BY <2>1 DEF Named, Mine, Holds
    <3>1. ident[q] \in Id
      BY ProcFacts DEF TypeOK
    <3>2. ident[q] = ident[p] => q = p
      BY <2>1 DEF Excl, Sole
    <3> QED
      BY <2>1, <3>1, <3>2 DEF Excl, Named
  <2>4. Traces'
    BY <2>1 DEF Excl, Traces, Mine, Holds, Kept
  <2> QED
    BY <2>2, <2>3, <2>4 DEF Excl
<1> QED
  BY <1>1, <1>2

LEMMA AgeExcl ==
    ASSUME TypeOK, Excl, NEW i \in Id, Age(i)
    PROVE  Excl'
<1>1. /\ UNCHANGED <<ident, stage, view, writing, missed>> /\ lapsed \subseteq lapsed'
      /\ \A j \in Id : file'[j].owner = file[j].owner /\ (j # i => file'[j] = file[j])
  <2>1. file[i] \in Record
    BY DEF Age, TypeOK, None
  <2> QED
    BY <2>1 DEF Age, config, TypeOK, Record
<1>2. Sole' /\ Writers' /\ Readers' /\ Traces'
  BY <1>1 DEF Excl, Sole, Writers, Readers, Traces, Holds, Mine
<1>3. Named'
  <2> SUFFICES ASSUME NEW q \in Proc, Holds(q), ident[q] \notin lapsed' PROVE file'[ident[q]] = Mine(q)
    BY <1>1 DEF Named, Mine, Holds
  <2>1. ident[q] \in Id /\ file[ident[q]] = Mine(q)
    BY <1>1, ProcFacts DEF TypeOK, Excl, Named
  <2>2. ident[q] # i
    BY <2>1 DEF Age, Mine
  <2> QED
    BY <1>1, <2>1, <2>2
<1> QED
  BY <1>2, <1>3 DEF Excl

(* Every step that only moves a process preserves the exclusion. *)
LEMMA StepsExcl ==
    ASSUME TypeOK, Excl, NEW p \in Proc,
           \/ Judged(p) \/ Bind(p) \/ Validate(p) \/ Recovered(p) \/ Started(p) \/ Close(p)
           \/ CancelRuns(p) \/ CancelStray(p) \/ StrayEnds(p) \/ Stop(p) \/ StopStray(p) \/ Fails(p)
    PROVE  Excl'
<1> USE DEF To, config
<1> DEFINE Same == UNCHANGED <<ident, file, missed, lapsed>>
<1>1. CASE Judged(p)
  <2>1. view[p][ident[p]] = None
    BY <1>1, ProcFacts DEF Judged, TypeOK
  <2>2. /\ stage' = [stage EXCEPT ![p] = "bind"] /\ UNCHANGED <<view, writing>> /\ Same
        /\ "bind" \in Stages /\ stage[p] = "judge" /\ writing[p] = FALSE
    BY <1>1 DEF Judged, Stages, Starting, TypeOK, Excl, Writers, Holds, Holding
  <2>3. "bind" \notin Holding /\ {"bind", "judge"} \subseteq Reading /\ "judge" \notin Kept
    BY DEF Holding, Reading, Kept
  <2> QED
    BY <2>1, <2>2, <2>3, MoveExcl
<1>2. CASE Bind(p)
  <2>1. /\ UNCHANGED <<view, writing>> /\ Same /\ stage[p] = "bind" /\ writing[p] = FALSE
    BY <1>2 DEF Bind, TypeOK, Excl, Writers, Holds, Holding
  <2>2. {"publish", "gone"} \subseteq Stages /\ "bind" \in Reading /\ "gone" \notin Reading
        /\ {"publish", "gone", "bind"} \cap Kept = {} /\ {"publish", "gone"} \cap Holding = {}
    BY DEF Stages, Starting, Reading, Kept, Holding
  <2>3. CASE stage' = [stage EXCEPT ![p] = "publish"]
    BY <2>1, <2>2, <2>3, MoveExcl
  <2>4. CASE stage' = [stage EXCEPT ![p] = "gone"]
    BY <2>1, <2>2, <2>4, MoveExcl
  <2>5. CASE UNCHANGED stage
    BY <2>1, <2>5, StillExcl
  <2> QED
    BY <1>2, <2>3, <2>4, <2>5 DEF Bind
<1>3. CASE Validate(p) \/ Recovered(p) \/ Started(p) \/ Close(p) \/ CancelRuns(p) \/ Stop(p)
           \/ ValidateFails(p) \/ RecoverFails(p) \/ SnapshotFails(p)
  <2>1. PICK s \in {"recover", "snapshot", "up", "cancel", "flush", "close", "undo", "abort", "rollback"} :
          stage' = [stage EXCEPT ![p] = s]
    BY <1>3 DEF Validate, Recovered, Started, Close, CancelRuns, Stop, ValidateFails, RecoverFails, SnapshotFails
  <2>2. UNCHANGED <<view, writing>> /\ Same
    BY <1>3 DEF Validate, Recovered, Started, Close, CancelRuns, Stop, ValidateFails, RecoverFails, SnapshotFails
  <2>3. stage[p] \in Holding
    BY <1>3 DEF Validate, Recovered, Started, Close, CancelRuns, Stop, ValidateFails, RecoverFails,
                SnapshotFails, Holding
  <2>4. s \in Stages /\ s \in Holding /\ s \notin Reading /\ s \in Kept
    BY DEF Stages, Starting, Stopping, Failing, Strays, Holding, Reading, Kept
  <2> QED
    BY <2>1, <2>2, <2>3, <2>4, MoveExcl
<1>4. CASE CancelStray(p) \/ StrayEnds(p) \/ StopStray(p) \/ PublishFails(p)
  <2>1. PICK s \in {"redo", "gone", "stray_cancel"} : stage' = [stage EXCEPT ![p] = s]
    BY <1>4 DEF CancelStray, StrayEnds, StopStray, PublishFails
  <2>2. UNCHANGED <<view, writing>> /\ Same
    BY <1>4 DEF CancelStray, StrayEnds, StopStray, PublishFails
  <2>3. stage[p] \in {"stray", "stray_cancel", "publish"}
    BY <1>4 DEF CancelStray, StrayEnds, StopStray, PublishFails
  <2>4. writing[p] = FALSE /\ stage[p] \notin Kept
    BY <2>3 DEF TypeOK, Excl, Writers, Holds, Holding, Kept
  <2>5. s \in Stages /\ s \notin Holding /\ s \notin Reading
    BY DEF Stages, Failing, Strays, Holding, Reading
  <2> QED
    BY <2>1, <2>2, <2>4, <2>5, MoveExcl
<1>5. CASE CancelFails(p) \/ Crash(p)
  <2>1. /\ stage' = [stage EXCEPT ![p] = "dead"] /\ writing' = [writing EXCEPT ![p] = FALSE] /\ Same
        /\ view' \in {view, [view EXCEPT ![p] = [i \in Id |-> None]]}
    BY <1>5 DEF CancelFails, Crash
  <2>2. writing'[p] = FALSE
    BY <2>1 DEF TypeOK
  <2>3. "dead" \in Stages /\ "dead" \notin Holding /\ "dead" \notin Reading /\ "dead" \in Kept
    BY DEF Stages, Holding, Reading, Kept
  <2> QED
    BY <2>1, <2>2, <2>3, MoveExcl
<1> QED
  BY <1>1, <1>2, <1>3, <1>4, <1>5 DEF Fails

(* cleanup: what it flushes it stops holding, what it removes it held no more. *)
LEMMA CleanupExcl ==
    ASSUME TypeOK, Excl, NEW p \in Proc, Cleanup(p)
    PROVE  Excl'
<1>1. ASSUME NEW from \in {"flush", "undo", "abort", "rollback"},
             NEW to \in {"remove", "undo_remove", "redo", "rollback_remove"}, Flush(p, from, to)
      PROVE  Excl'
  <2>1. /\ stage' = [stage EXCEPT ![p] = to] /\ writing[p] = FALSE
        /\ UNCHANGED <<ident, file, view, writing, missed, lapsed>>
    BY <1>1 DEF Flush, To, config, TypeOK
  <2>2. to \in Stages /\ to \notin Holding /\ to \notin Reading /\ to \in Kept
    BY DEF Stages, Stopping, Failing, Strays, Holding, Reading, Kept
  <2> QED
    BY <2>1, <2>2, MoveExcl
<1>2. ASSUME NEW from \in {"remove", "undo_remove", "redo", "rollback_remove"},
             NEW to \in {"gone", "redo", "stray"}, Remove(p, from, to)
      PROVE  Excl'
  <2>1. /\ from \in Stages /\ from \notin Holding
        /\ to \in Stages /\ to \notin Holding \cup Reading
    BY DEF Stages, Stopping, Failing, Strays, Holding, Reading
  <2> QED
    BY <1>2, <2>1, RemoveExcl
<1> QED
  BY <1>1, <1>2 DEF Cleanup

LEMMA NextExcl == TypeOK /\ Excl /\ [Next]_vars => Excl'
<1> SUFFICES ASSUME TypeOK, Excl, [Next]_vars PROVE Excl'
  OBVIOUS
<1>1. ASSUME NEW p \in Proc, NEW q \in Anyone, RecoverOne(p, q) PROVE Excl'
  BY <1>1, StillExcl DEF RecoverOne, config
<1>2. ASSUME NEW p \in Proc, Work(p) PROVE Excl'
  BY <1>2, StillExcl DEF Work, config
<1>3. CASE UNCHANGED vars
  BY <1>3, StillExcl DEF vars
<1> QED
  BY <1>1, <1>2, <1>3, ReadExcl, JudgeExcl, PublishExcl, HeartbeatExcl, AgeExcl, StepsExcl, CleanupExcl
  DEF Next, Step

LEMMA SpecExcl == Spec => [](TypeOK /\ Excl)
<1>1. Init => TypeOK /\ Excl
  BY InitTypeOK, InitExcl
<1>2. TypeOK /\ Excl /\ [Next]_vars => (TypeOK /\ Excl)'
  BY NextTypeOK, NextExcl
<1> QED
  BY <1>1, <1>2, PTL DEF Spec

(* Two live processes never hold one instance id, unless its exclusion has  *)
(* lapsed: for any number of processes, ids, ports and faults.              *)
THEOREM Exclusion == Spec => []ExclusiveUnlessLapsed
<1>1. Excl => ExclusiveUnlessLapsed
  BY DEF Excl, Sole, ExclusiveUnlessLapsed
<1> QED
  BY <1>1, SpecExcl, PTL

(* No process that ended in order has left its record behind. *)
THEOREM NoRecordLeft == Spec => []LeavesNoRecord
<1>1. Excl => LeavesNoRecord
  BY DEF Excl, Traces, LeavesNoRecord, Kept, Holding
<1> QED
  BY <1>1, SpecExcl, PTL

-----------------------------------------------------------------------------
(* Recovery marks the ended.                                               *)
(*                                                                         *)
(* A recovery works from a list it has read, and the processes go on under *)
(* it.  Busy says where the process of an active attempt can be; Marked,   *)
(* that an entry whose process is alive and whose attempt is still active  *)
(* is one the exclusion of its id had failed for when the list was read.   *)

Ticks == {"snapshot", "up", "close", "cancel"} \cup Strays

Busy ==
    \A q \in Proc : /\ stage[q] = "off" => attempt[q] = "none"
                    /\ Alive(q) /\ attempt[q] \in Active => stage[q] \in Ticks
Marked ==
    \A p \in Proc : /\ todo[p] # {} => stage[p] = "recover"
                    /\ \A q \in Proc, k \in Active :
                        <<q, k>> \in todo[p] =>
                            /\ attempt[q] # "none"
                            /\ Alive(q) /\ attempt[q] \in Active /\ ident[p] = ident[q] =>
                                    ident[q] \in lapsed \/ stage[q] \in Strays
Marks == Busy /\ Marked

LEMMA InitMarks == Init => Marks
<1> SUFFICES ASSUME Init PROVE Marks
  OBVIOUS
<1>1. \A q \in Proc : stage[q] = "off" /\ todo[q] = {}
  BY DEF Init
<1>2. \A q \in Proc : attempt[q] = "none"
  BY ProcFacts DEF Init
<1> QED
  BY <1>1, <1>2 DEF Marks, Busy, Marked, Alive

(* One process moves on: its attempt stays or is over, and its list is done. *)
LEMMA MoveMarks ==
    ASSUME TypeOK, Marks, NEW p \in Proc, NEW s \in Stages,
           stage' = [stage EXCEPT ![p] = s], s # "off", stage[p] \notin {"gone", "dead"},
           attempt' \in {attempt, [attempt EXCEPT ![p] = IF @ = "none" THEN @ ELSE "over"]},
           todo' \in {todo, [todo EXCEPT ![p] = {}]}, todo'[p] = {},
           UNCHANGED ident, lapsed \subseteq lapsed',
           \/ s \in {"gone", "dead"} \/ attempt'[p] \notin Active
           \/ s \in Ticks /\ (stage[p] \in Strays => s \in Strays)
    PROVE  Marks'
<1>1. \A q \in Proc : stage'[q] = IF q = p THEN s ELSE stage[q]
  BY DEF TypeOK
<1>2. \A q \in Proc : /\ attempt'[q] = "none" <=> attempt[q] = "none"
                      /\ attempt'[q] \in Active => attempt'[q] = attempt[q]
                      /\ q # p => attempt'[q] = attempt[q]
  BY ProcFacts DEF TypeOK, Active
<1>3. \A r \in Proc : todo'[r] \subseteq todo[r] /\ (r # p => todo'[r] = todo[r])
  BY DEF TypeOK
<1>4. \A q \in Proc : Alive(q)' => Alive(q) \/ stage[q] = "off"
  BY <1>1 DEF Alive
<1>5. Busy'
  <2> SUFFICES ASSUME NEW q \in Proc
               PROVE  /\ stage'[q] = "off" => attempt'[q] = "none"
                      /\ Alive(q)' /\ attempt'[q] \in Active => stage'[q] \in Ticks
    BY DEF Busy
  <2>1. CASE q = p
    BY <1>1, <2>1 DEF Alive
  <2>2. CASE q # p
    BY <1>1, <1>2, <2>2 DEF Marks, Busy, Alive
  <2> QED
    BY <2>1, <2>2
<1>6. Marked'
  <2>1. ASSUME NEW r \in Proc, todo'[r] # {} PROVE stage'[r] = "recover"
    BY <1>1, <1>3, <2>1 DEF Marks, Marked
  <2>2. ASSUME NEW r \in Proc, NEW q \in Proc, NEW k \in Active, <<q, k>> \in todo'[r]
        PROVE  /\ attempt'[q] # "none"
               /\ Alive(q)' /\ attempt'[q] \in Active /\ ident[r] = ident[q] =>
                       ident[q] \in lapsed' \/ stage'[q] \in Strays
    <3>1. /\ attempt[q] # "none"
          /\ Alive(q) /\ attempt[q] \in Active /\ ident[r] = ident[q] =>
                  ident[q] \in lapsed \/ stage[q] \in Strays
      BY <1>3, <2>2 DEF Marks, Marked
    <3>2. stage[q] # "off"
      BY <3>1 DEF Marks, Busy
    <3>3. Alive(q)' /\ attempt'[q] \in Active /\ stage[q] \in Strays => stage'[q] \in Strays
      BY <1>1 DEF Alive
    <3> QED
      BY <1>2, <1>4, <3>1, <3>2, <3>3
  <2> QED
    BY <2>1, <2>2 DEF Marked
<1> QED
  BY <1>5, <1>6 DEF Marks

(* One attempt changes, of a process that ticks or whose recovery says so. *)
LEMMA AttemptMarks ==
    ASSUME TypeOK, Marks, NEW q \in Anyone, NEW a \in Attempt, a # "none",
           attempt' = [attempt EXCEPT ![q] = a],
           \/ a \notin Active /\ (q \in Proc => attempt[q] # "none")
           \/ q \in Proc /\ stage[q] \in Ticks /\ (attempt[q] \in Active \cup {"none"}),
           \A r \in Proc : todo'[r] \subseteq todo[r],
           UNCHANGED <<ident, stage, lapsed>>
    PROVE  Marks'
<1>1. \A r \in Anyone : attempt'[r] = IF r = q THEN a ELSE attempt[r]
  BY DEF TypeOK
<1>2. \A r \in Proc : Alive(r)' <=> Alive(r)
  BY DEF Alive
<1>3. Busy'
  <2> SUFFICES ASSUME NEW r \in Proc
               PROVE  /\ stage[r] = "off" => attempt'[r] = "none"
                      /\ Alive(r) /\ attempt'[r] \in Active => stage[r] \in Ticks
    BY <1>2 DEF Busy
  <2>1. CASE r = q
    <3>1. stage[r] # "off"
      BY <2>1 DEF Marks, Busy, Ticks, Strays
    <3> QED
      BY <1>1, <2>1, <3>1, ProcFacts
  <2>2. CASE r # q
    BY <1>1, <2>2, ProcFacts DEF Marks, Busy
  <2> QED
    BY <2>1, <2>2
<1>4. Marked'
  <2>1. ASSUME NEW p \in Proc, todo'[p] # {} PROVE stage[p] = "recover"
    BY <2>1 DEF Marks, Marked
  <2>2. ASSUME NEW p \in Proc, NEW r \in Proc, NEW k \in Active, <<r, k>> \in todo'[p]
        PROVE  /\ attempt'[r] # "none"
               /\ Alive(r) /\ attempt'[r] \in Active /\ ident[p] = ident[r] =>
                       ident[r] \in lapsed \/ stage[r] \in Strays
    <3>1. /\ attempt[r] # "none"
          /\ Alive(r) /\ attempt[r] \in Active /\ ident[p] = ident[r] =>
                  ident[r] \in lapsed \/ stage[r] \in Strays
      BY <2>2 DEF Marks, Marked
    <3>2. CASE r = q
      BY <1>1, <3>1, <3>2, ProcFacts
    <3>3. CASE r # q
      BY <1>1, <3>1, <3>3, ProcFacts
    <3> QED
      BY <3>2, <3>3
  <2> QED
    BY <1>2, <2>1, <2>2 DEF Marked
<1> QED
  BY <1>3, <1>4 DEF Marks

LEMMA ValidateMarks ==
    ASSUME TypeOK, Excl, Marks, NEW p \in Proc, Validate(p)
    PROVE  Marks'
<1>1. /\ UNCHANGED <<ident, attempt, lapsed>> /\ stage[p] = "validate"
      /\ \A q \in Proc : stage'[q] = IF q = p THEN "recover" ELSE stage[q]
      /\ \A q \in Proc : q # p => todo'[q] = todo[q]
      /\ todo'[p] = {<<q, attempt[q]>> : q \in {a \in Anyone : attempt[a] \in Active}}
  BY DEF Validate, To, config, TypeOK
<1>2. \A q \in Proc : Alive(q)' <=> Alive(q)
  BY <1>1 DEF Alive
<1>3. Busy'
  <2>1. attempt[p] \notin Active
    BY <1>1 DEF Marks, Busy, Alive, Ticks, Strays
  <2> QED
    BY <1>1, <1>2, <2>1 DEF Marks, Busy
<1>4. ASSUME NEW q \in Proc, NEW k \in Active, <<q, k>> \in todo'[p]
      PROVE  /\ attempt[q] # "none"
             /\ Alive(q) /\ attempt[q] \in Active /\ ident[p] = ident[q] =>
                     ident[q] \in lapsed \/ stage'[q] \in Strays
  <2>1. attempt[q] \in Active
    BY <1>1, <1>4
  <2>2. ASSUME Alive(q), ident[p] = ident[q], stage[q] \notin Strays PROVE ident[q] \in lapsed
    <3>1. stage[q] \in Ticks
      BY <2>1, <2>2 DEF Marks, Busy
    <3>2. Holds(q) /\ Holds(p) /\ q # p
      BY <1>1, <2>2, <3>1 DEF Holds, Holding, Ticks
    <3> QED
      BY <2>2, <3>2 DEF Excl, Sole
  <2>3. stage[q] \in Strays => stage'[q] \in Strays
    BY <1>1 DEF Strays
  <2> QED
    BY <2>1, <2>2, <2>3 DEF Active
<1>5. ASSUME NEW r \in Proc, r # p, NEW q \in Proc, NEW k \in Active, <<q, k>> \in todo'[r]
      PROVE  /\ attempt[q] # "none"
             /\ Alive(q) /\ attempt[q] \in Active /\ ident[r] = ident[q] =>
                     ident[q] \in lapsed \/ stage'[q] \in Strays
  <2>1. stage[q] \in Strays => stage'[q] \in Strays
    BY <1>1 DEF Strays
  <2> QED
    BY <1>1, <1>5, <2>1 DEF Marks, Marked
<1>6. \A r \in Proc : todo'[r] # {} => stage'[r] = "recover"
  BY <1>1 DEF Marks, Marked
<1>7. Marked'
  BY <1>1, <1>2, <1>4, <1>5, <1>6 DEF Marked
<1> QED
  BY <1>3, <1>7 DEF Marks

LEMMA StillMarks ==
    ASSUME Marks, UNCHANGED <<ident, stage, attempt, todo>>, lapsed \subseteq lapsed'
    PROVE  Marks'
BY DEF Marks, Busy, Marked, Alive

(* A process that is not ticking has no active attempt, and lists nothing   *)
(* unless it recovers.                                                      *)
LEMMA Idle ==
    ASSUME Marks, NEW p \in Proc
    PROVE  /\ stage[p] \notin Ticks \cup {"gone", "dead"} => attempt[p] \notin Active
           /\ stage[p] # "recover" => todo[p] = {}
BY DEF Marks, Busy, Marked, Alive, Active

LEMMA StartMarks ==
    ASSUME TypeOK, Marks, NEW p \in Proc,
           \/ Read(p) \/ (\E i \in Id : Judge(p, i)) \/ Judged(p) \/ Bind(p) \/ Publish(p)
           \/ PublishFails(p) \/ ValidateFails(p)
    PROVE  Marks'
<1>1. stage[p] \in {"off", "judge", "bind", "publish", "validate"}
  BY DEF Read, Judge, Judged, Bind, Publish, PublishFails, ValidateFails
<1>2. attempt[p] \notin Active /\ todo[p] = {} /\ stage[p] \notin {"gone", "dead"}
  BY <1>1, Idle DEF Ticks, Strays
<1>3. UNCHANGED <<ident, attempt, todo>> /\ lapsed \subseteq lapsed'
  BY DEF Read, Judge, Judged, Bind, Publish, PublishFails, ValidateFails, config, Delete
<1>4. UNCHANGED stage \/ \E s \in {"judge", "gone", "bind", "publish", "validate", "undo"} :
        stage' = [stage EXCEPT ![p] = s]
  BY DEF Read, Judge, Judged, Bind, Publish, PublishFails, ValidateFails, To
<1>5. CASE UNCHANGED stage
  BY <1>3, <1>5, StillMarks
<1>6. ASSUME NEW s \in {"judge", "gone", "bind", "publish", "validate", "undo"},
             stage' = [stage EXCEPT ![p] = s]
      PROVE  Marks'
  <2>1. s \in Stages /\ s # "off"
    BY DEF Stages, Starting, Failing
  <2> QED
    BY <1>2, <1>3, <1>6, <2>1, MoveMarks
<1> QED
  BY <1>4, <1>5, <1>6

LEMMA EndMarks ==
    ASSUME TypeOK, Marks, NEW p \in Proc,
           \/ RecoverFails(p) \/ Recovered(p) \/ Started(p) \/ SnapshotFails(p) \/ Stop(p) \/ Close(p)
           \/ CancelRuns(p) \/ CancelFails(p) \/ StopStray(p) \/ CancelStray(p) \/ StrayEnds(p)
    PROVE  Marks'
<1> USE DEF To, config
<1> DEFINE Over == [attempt EXCEPT ![p] = IF @ = "none" THEN @ ELSE "over"]
<1>1. UNCHANGED <<ident, lapsed>>
  BY DEF RecoverFails, Recovered, Started, SnapshotFails, Stop, Close, CancelRuns, CancelFails, StopStray,
         CancelStray, StrayEnds
<1>2. Over[p] \notin Active
  BY ProcFacts DEF TypeOK, Active
<1>3. CASE RecoverFails(p)
  <2>1. PICK s \in {"undo", "abort"} : stage' = [stage EXCEPT ![p] = s]
    BY <1>3 DEF RecoverFails
  <2>2. attempt' = attempt /\ attempt[p] \notin Active /\ stage[p] = "recover"
        /\ todo' = [todo EXCEPT ![p] = {}] /\ todo'[p] = {}
    BY <1>3, Idle DEF RecoverFails, Ticks, Strays, TypeOK
  <2>3. s \in Stages /\ s # "off"
    BY DEF Stages, Failing
  <2> QED
    BY <1>1, <2>1, <2>2, <2>3, MoveMarks
<1>4. CASE Recovered(p)
  <2>1. /\ stage' = [stage EXCEPT ![p] = "snapshot"] /\ stage[p] = "recover" /\ todo[p] = {}
        /\ UNCHANGED <<attempt, todo>> /\ attempt[p] \notin Active
    BY <1>4, Idle DEF Recovered, Ticks, Strays
  <2>2. "snapshot" \in Stages
    BY DEF Stages, Starting
  <2> QED
    BY <1>1, <2>1, <2>2, MoveMarks
<1>5. CASE Started(p) \/ SnapshotFails(p) \/ Stop(p) \/ Close(p)
  <2>1. PICK s \in {"up", "rollback", "close", "cancel"} : stage' = [stage EXCEPT ![p] = s]
    BY <1>5 DEF Started, SnapshotFails, Stop, Close
  <2>2. stage[p] \in {"snapshot", "up", "close"} /\ UNCHANGED <<attempt, todo>>
    BY <1>5 DEF Started, SnapshotFails, Stop, Close
  <2>3. todo[p] = {} /\ stage[p] \notin Strays /\ stage[p] \notin {"gone", "dead"}
    BY <2>2, Idle DEF Strays
  <2>4. s \in Stages /\ s # "off" /\ s \in Ticks
    BY DEF Stages, Ticks, Strays, Stopping
  <2> QED
    BY <1>1, <2>1, <2>2, <2>3, <2>4, MoveMarks
<1>6. CASE CancelRuns(p) \/ CancelFails(p) \/ CancelStray(p)
  <2>1. PICK s \in {"flush", "dead", "redo"} : stage' = [stage EXCEPT ![p] = s]
    BY <1>6 DEF CancelRuns, CancelFails, CancelStray
  <2>2. stage[p] \in {"cancel", "stray_cancel"} /\ attempt' = Over /\ UNCHANGED todo
    BY <1>6 DEF CancelRuns, CancelFails, CancelStray
  <2>3. todo[p] = {} /\ attempt'[p] \notin Active
    BY <1>2, <2>2, Idle
  <2>4. s \in Stages /\ s # "off"
    BY DEF Stages, Stopping, Failing
  <2> QED
    BY <1>1, <2>1, <2>2, <2>3, <2>4, MoveMarks
<1>7. CASE StopStray(p) \/ StrayEnds(p)
  <2>1. PICK s \in {"stray_cancel", "gone"} : stage' = [stage EXCEPT ![p] = s]
    BY <1>7 DEF StopStray, StrayEnds
  <2>2. stage[p] = "stray" /\ UNCHANGED <<attempt, todo>>
    BY <1>7 DEF StopStray, StrayEnds
  <2>3. todo[p] = {}
    BY <2>2, Idle
  <2>4. s \in Stages /\ s # "off" /\ (s = "gone" \/ s \in Strays) /\ Strays \subseteq Ticks
    BY DEF Stages, Ticks, Strays
  <2> QED
    BY <1>1, <2>1, <2>2, <2>3, <2>4, MoveMarks
<1> QED
  BY <1>3, <1>4, <1>5, <1>6, <1>7

LEMMA CrashMarks ==
    ASSUME TypeOK, Marks, NEW p \in Proc, Crash(p)
    PROVE  Marks'
<1>1. /\ stage' = [stage EXCEPT ![p] = "dead"] /\ stage[p] \notin {"gone", "dead"}
      /\ todo' = [todo EXCEPT ![p] = {}] /\ todo'[p] = {} /\ UNCHANGED <<ident, lapsed, attempt>>
  BY DEF Crash, Alive, To, config, TypeOK
<1>2. "dead" \in Stages
  BY DEF Stages
<1> QED
  BY <1>1, <1>2, MoveMarks

LEMMA CleanupMarks ==
    ASSUME TypeOK, Marks, NEW p \in Proc, Cleanup(p)
    PROVE  Marks'
<1>1. ASSUME NEW from \in {"flush", "undo", "abort", "remove", "undo_remove", "redo"},
             NEW to \in {"remove", "undo_remove", "redo", "gone"},
             Flush(p, from, to) \/ Remove(p, from, to)
      PROVE  Marks'
  <2>1. /\ stage' = [stage EXCEPT ![p] = to] /\ stage[p] = from /\ UNCHANGED <<ident, attempt, todo>>
        /\ lapsed \subseteq lapsed'
    BY <1>1 DEF Flush, Remove, To, config, Delete
  <2>2. attempt[p] \notin Active /\ todo[p] = {}
    BY <2>1, Idle DEF Ticks, Strays
  <2>3. to \in Stages /\ to # "off" /\ from \notin {"gone", "dead"}
    BY DEF Stages, Stopping, Failing
  <2> QED
    BY <2>1, <2>2, <2>3, MoveMarks
<1>2. ASSUME NEW from \in {"rollback", "rollback_remove"}, NEW to \in {"rollback_remove", "stray"},
             Flush(p, from, to) \/ Remove(p, from, to)
      PROVE  Marks'
  <2>1. /\ stage' = [stage EXCEPT ![p] = to] /\ stage[p] = from /\ UNCHANGED <<ident, attempt, todo>>
        /\ lapsed \subseteq lapsed'
    BY <1>2 DEF Flush, Remove, To, config, Delete
  <2>2. todo[p] = {}
    BY <2>1, Idle
  <2>3. to \in Stages /\ to # "off" /\ from \notin {"gone", "dead"} /\ to \in Strays /\ Strays \subseteq Ticks
    BY DEF Stages, Strays, Ticks
  <2> QED
    BY <2>1, <2>2, <2>3, MoveMarks
<1> QED
  BY <1>1, <1>2 DEF Cleanup

LEMMA WorkMarks ==
    ASSUME TypeOK, Marks, NEW p \in Proc, Work(p)
    PROVE  Marks'
<1>1. UNCHANGED <<ident, stage, todo, lapsed>> /\ stage[p] \in Ticks /\ p \in Anyone
  BY ProcFacts DEF Work, config, Working, Ticks, Strays
<1>2. {"running", "cleaning", "over"} \subseteq Attempt
  BY DEF Attempt
<1>3. CASE attempt[p] = "none" /\ attempt' = [attempt EXCEPT ![p] = "running"]
  BY <1>1, <1>2, <1>3, AttemptMarks
<1>4. CASE attempt[p] = "running" /\ attempt' = [attempt EXCEPT ![p] = "cleaning"]
  BY <1>1, <1>2, <1>4, AttemptMarks DEF Active
<1>5. CASE attempt[p] \notin {"none", "over"} /\ attempt' = [attempt EXCEPT ![p] = "over"]
  BY <1>1, <1>2, <1>5, AttemptMarks DEF Active
<1> QED
  BY <1>3, <1>4, <1>5 DEF Work

LEMMA RecoverMarks ==
    ASSUME TypeOK, Marks, NEW p \in Proc, NEW q \in Anyone, RecoverOne(p, q)
    PROVE  Marks'
<1>1. /\ UNCHANGED <<ident, stage, lapsed>>
      /\ \A r \in Proc : todo'[r] \subseteq todo[r]
  <2>1. \E job : todo' = [todo EXCEPT ![p] = @ \ {job}]
    BY DEF RecoverOne
  <2>2. DOMAIN todo = Proc
    BY DEF TypeOK
  <2> QED
    BY <2>1, <2>2 DEF RecoverOne, config
<1>2. \E k \in Active : <<q, k>> \in todo[p]
  BY DEF RecoverOne, Active
<1>3. q \in Proc => attempt[q] # "none"
  BY <1>2 DEF Marks, Marked
<1>4. PICK a \in {"interrupted", "preserved"} : attempt' = [attempt EXCEPT ![q] = a]
  BY DEF RecoverOne
<1>5. a \in Attempt /\ a \notin Active /\ a # "none"
  BY DEF Attempt, Active
<1> QED
  BY <1>1, <1>3, <1>4, <1>5, AttemptMarks

LEMMA NextMarks == TypeOK /\ Excl /\ Marks /\ [Next]_vars => Marks'
<1> SUFFICES ASSUME TypeOK, Excl, Marks, [Next]_vars PROVE Marks'
  OBVIOUS
<1>1. ASSUME NEW p \in Proc, HeartbeatBegins(p) \/ HeartbeatEnds(p) PROVE Marks'
  BY <1>1, StillMarks DEF HeartbeatBegins, HeartbeatEnds, config
<1>2. ASSUME NEW i \in Id, Age(i) PROVE Marks'
  BY <1>2, StillMarks DEF Age, config
<1>3. CASE UNCHANGED vars
  BY <1>3, StillMarks DEF vars
<1> QED
  BY <1>1, <1>2, <1>3, StartMarks, ValidateMarks, EndMarks, CrashMarks, CleanupMarks, WorkMarks, RecoverMarks
  DEF Next, Step, Fails

(* Only a recovery takes an attempt for interrupted. *)
LEMMA OnlyRecoveryMarks ==
    ASSUME TypeOK, [Next]_vars, NEW q \in Proc, attempt[q] \in Active,
           attempt'[q] \in {"interrupted", "preserved"}
    PROVE  \E p \in Proc : RecoverOne(p, q)
<1>1. attempt'[q] # attempt[q]
  BY DEF Active
<1>2. ASSUME NEW p \in Proc, attempt' = [attempt EXCEPT ![p] = IF @ = "none" THEN @ ELSE "over"] PROVE FALSE
  BY <1>1, <1>2, ProcFacts DEF TypeOK
<1>3. ASSUME NEW p \in Proc, Work(p) PROVE FALSE
  BY <1>1, <1>3, ProcFacts DEF Work, TypeOK
<1>4. ASSUME NEW p \in Proc, Step(p), \A r \in Anyone : ~RecoverOne(p, r) PROVE FALSE
  BY <1>1, <1>2, <1>4
  DEF Step, Judge, Judged, Bind, Publish, Validate, Recovered, Started, Close, CancelRuns, Cleanup, Flush,
      Remove, CancelStray, StrayEnds, config
<1>5. ASSUME NEW p \in Proc, Fails(p) PROVE FALSE
  BY <1>1, <1>2, <1>5 DEF Fails, PublishFails, ValidateFails, RecoverFails, SnapshotFails, CancelFails, Crash, config
<1>6. ASSUME NEW p \in Proc, Read(p) \/ Stop(p) \/ StopStray(p) \/ HeartbeatBegins(p) \/ HeartbeatEnds(p)
      PROVE  FALSE
  BY <1>1, <1>6 DEF Read, Stop, StopStray, HeartbeatBegins, HeartbeatEnds, config
<1>7. ASSUME NEW i \in Id, Age(i) PROVE FALSE
  BY <1>1, <1>7 DEF Age, config
<1>8. ~UNCHANGED vars
  BY <1>1 DEF vars
<1>9. PICK p \in Proc, r \in Anyone : RecoverOne(p, r)
  BY <1>3, <1>4, <1>5, <1>6, <1>7, <1>8 DEF Next
<1>10. r = q
  <2>1. attempt \in [Anyone -> Attempt] /\ q \in Anyone
    BY ProcFacts DEF TypeOK
  <2>2. attempt' \in {[attempt EXCEPT ![r] = "interrupted"], [attempt EXCEPT ![r] = "preserved"]}
    BY <1>9 DEF RecoverOne
  <2> QED
    BY <1>1, <2>1, <2>2
<1> QED
  BY <1>9, <1>10

LEMMA StepMarksOnlyEnded ==
    ASSUME TypeOK, Marks, [Next]_vars, NEW q \in Proc, attempt[q] \in Active,
           attempt'[q] \in {"interrupted", "preserved"}
    PROVE  \/ ~Alive(q) \/ ident[q] \in lapsed \/ stage[q] \in Strays
           \/ \E p \in Proc : todo'[p] # todo[p] /\ ident[p] # ident[q]
<1>1. PICK p \in Proc : RecoverOne(p, q)
  BY OnlyRecoveryMarks
<1>2. PICK k \in Active : <<q, k>> \in todo[p] /\ <<q, k>> \notin todo'[p]
  BY <1>1 DEF RecoverOne, Active, TypeOK
<1>3. CASE ident[p] = ident[q]
  BY <1>2, <1>3 DEF Marks, Marked
<1>4. CASE ident[p] # ident[q]
  BY <1>2, <1>4
<1> QED
  BY <1>3, <1>4

(* Recovery takes for interrupted only attempts of the dead, of other ids,  *)
(* of an id whose exclusion has lapsed, or of a process whose start failed. *)
THEOREM RecoveryMarksEnded == Spec => MarksOnlyEnded
<1>1. Init => TypeOK /\ Excl /\ Marks
  BY InitTypeOK, InitExcl, InitMarks
<1>2. TypeOK /\ Excl /\ Marks /\ [Next]_vars => (TypeOK /\ Excl /\ Marks)'
  BY NextTypeOK, NextExcl, NextMarks
<1>3. TypeOK /\ Marks /\ [Next]_vars =>
        [\A q \in Proc : attempt[q] \in Active /\ attempt'[q] \in {"interrupted", "preserved"} =>
            \/ ~Alive(q) \/ ident[q] \in lapsed \/ stage[q] \in Strays
            \/ \E p \in Proc : todo'[p] # todo[p] /\ ident[p] # ident[q]]_vars
  BY StepMarksOnlyEnded
<1> QED
  BY <1>1, <1>2, <1>3, PTL DEF Spec, MarksOnlyEnded
=============================================================================
