----------------------------- MODULE Instances ------------------------------
(***************************************************************************)
(* Daemon processes on one machine, from start to end: the instance        *)
(* registry (src/instance-registry.js), the listener (src/listener.js),    *)
(* the order of startDaemon and stop (src/daemon.js), and the recovery of  *)
(* the attempts of earlier daemons (src/recovery.js, src/run-registry.js). *)
(*                                                                         *)
(* The processes share one registry directory, one range of ports and one  *)
(* state directory.  Nothing locks these: a process reads, decides and     *)
(* writes with an await between any two steps, and others step in between. *)
(* A process may crash anywhere, and a heartbeat may come late (a machine  *)
(* that slept, a blocked event loop).                                      *)
(***************************************************************************)
EXTENDS Naturals

CONSTANTS
    Proc,       \* the processes that are started, each once
    Old,        \* a process of the past, dead, that may have left its files
    Id,         \* instance ids
    NoOne,
    MaxPort,    \* bound: ports tried by next_available (100 in the code); 1 is a fixed port
    MaxFaults   \* bound: crashes, late heartbeats and failed writes, together

ASSUME InstancesAssumption ==
    /\ Old \notin Proc /\ NoOne \notin Proc \cup {Old}
    /\ MaxPort \in Nat \ {0} /\ MaxFaults \in Nat

VARIABLES
    ident,     \* the instance id of each process (resolveInstanceIdentity)
    path,      \* its config path
    foreign,   \* the ports other programs listen on
    stage,     \* where startDaemon or stop is
    file,      \* the registry file of each id: whose record, and is its heartbeat recent
    view,      \* the records a starting process has read and not judged yet
    port,      \* the port a process tries or listens on
    writing,   \* a heartbeat's write is under way
    attempt,   \* the record of the one run attempt of each process
    todo,      \* the attempts a recovery has read and not updated yet
    missed,    \* ghost: the ids' processes that published since this one read the registry
    lapsed,    \* ghost: the ids whose exclusion was broken before, and by what
    faults

vars == <<ident, path, foreign, stage, file, view, port, writing, attempt, todo, missed, lapsed,
          faults>>
config == <<ident, path, foreign>>

Anyone  == Proc \cup {Old}
Config  == {"this", "that"}
Record  == [owner : Anyone, recent : BOOLEAN]
None    == [owner |-> NoOne, recent |-> FALSE]
Attempt == {"none", "running", "cleaning", "over", "interrupted", "preserved"}

(* A start: read and judge the registry, bind, write the record, validate,  *)
(* recover, start the scheduler, write the first snapshot.                  *)
Starting == {"judge", "bind", "publish", "validate", "recover", "snapshot"}
(* The end: stop()'s listener.close, cancelActiveRuns, snapshot and cleanup. *)
Stopping == {"close", "cancel", "flush", "remove"}
(* The cleanup of a failed start: twice after errors that startDaemon finds  *)
(* itself (undo, redo), once after a throw (abort), and once under a tick    *)
(* that goes on (rollback).                                                  *)
Failing  == {"undo", "undo_remove", "abort", "redo"}
Strays   == {"rollback", "rollback_remove", "stray", "stray_cancel"}
Stages   == {"off", "up", "gone", "dead"} \cup Starting \cup Stopping \cup Failing \cup Strays

\* The process runs.
Alive(p) == p \in Proc /\ stage[p] \notin {"off", "gone", "dead"}

\* It has a record and has not begun to remove it.
Holding == {"validate", "recover", "snapshot", "up", "close", "cancel", "flush",
            "undo", "abort", "rollback"}
Holds(p) == p \in Proc /\ stage[p] \in Holding

\* Its heartbeat timer runs.
Beating == {"validate", "recover", "snapshot", "up", "close", "cancel"}

\* Its listener is bound.
Listening == {"publish", "validate", "recover", "snapshot", "up", "close", "undo",
              "abort", "rollback"}

\* A tick of it may be running.
Working == {"snapshot", "up", "rollback", "rollback_remove", "stray"}

Active == {"running", "cleaning"}

To(p, s) == stage' = [stage EXCEPT ![p] = s]

Init ==
    /\ ident \in [Anyone -> Id] /\ path \in [Anyone -> Config] /\ foreign \in SUBSET (1..MaxPort)
    /\ stage = [p \in Proc |-> "off"]
    /\ \E r \in {None} \cup [owner : {Old}, recent : BOOLEAN] :
         file = [i \in Id |-> IF i = ident[Old] THEN r ELSE None]
    /\ view = [p \in Proc |-> [i \in Id |-> None]]
    /\ port = [p \in Proc |-> 0]
    /\ writing = [p \in Proc |-> FALSE]
    /\ \E a \in {"none"} \cup Active :
         attempt = [p \in Anyone |-> IF p = Old THEN a ELSE "none"]
    /\ todo = [p \in Proc |-> {}]
    /\ missed = [p \in Proc |-> {}] /\ lapsed = {}
    /\ faults = 0

Fault == faults < MaxFaults /\ faults' = faults + 1

-----------------------------------------------------------------------------
(* startLocalInstance: inspect, bind, publish. *)

\* readRegistryRecords; the directory is read in one step.
Read(p) ==
    /\ stage[p] = "off"
    /\ To(p, "judge")
    /\ view' = [view EXCEPT ![p] = file]
    /\ UNCHANGED <<config, file, port, writing, attempt, todo, missed, lapsed, faults>>

\* process.kill(pid, 0): the pid of a dead process may have been given to another program.
Probe(q) == IF Alive(q) THEN {TRUE} ELSE {FALSE, TRUE}

SameConfig(p, q) == path[p] = path[q]

\* The file of id i is deleted.  The ghost notes when it was somebody's who still needs it.
Delete(p, i) ==
    /\ file' = [file EXCEPT ![i] = None]
    /\ lapsed' = IF \E q \in Proc \ {p} : Holds(q) /\ ident[q] = i THEN lapsed \cup {i} ELSE lapsed

(* Slip: the heartbeat is read the wrong way round, and a late twin refused. *)
JudgeSwapped(p, i) ==
    LET r == view[p][i] IN
    /\ stage[p] = "judge" /\ r # None
    /\ view' = [view EXCEPT ![p][i] = None]
    /\ \E live \in Probe(r.owner) :
        /\ IF ~r.recent /\ ~live /\ SameConfig(p, r.owner)
           THEN Delete(p, i) ELSE UNCHANGED <<file, lapsed>>
        /\ IF ~r.recent /\ live /\ i = ident[p]
           THEN To(p, "gone") ELSE UNCHANGED stage
    /\ UNCHANGED <<config, port, writing, attempt, todo, missed, faults>>

(* One record of the inspection: confirmed stale, it is removed; recent, alive *)
(* and of one's own id, it refuses the start; else it is only reported.        *)
Judge(p, i) ==
    LET r == view[p][i] IN
    /\ stage[p] = "judge" /\ r # None
    /\ view' = [view EXCEPT ![p][i] = None]
    /\ \E live \in Probe(r.owner) :
        /\ IF ~r.recent /\ ~live /\ SameConfig(p, r.owner)
           THEN Delete(p, i) ELSE UNCHANGED <<file, lapsed>>
        /\ IF r.recent /\ live /\ i = ident[p]
           THEN To(p, "gone") ELSE UNCHANGED stage
    /\ UNCHANGED <<config, port, writing, attempt, todo, missed, faults>>

Judged(p) ==
    /\ stage[p] = "judge" /\ \A i \in Id : view[p][i] = None
    /\ To(p, "bind")
    /\ port' = [port EXCEPT ![p] = 1]
    /\ UNCHANGED <<config, file, view, writing, attempt, todo, missed, lapsed, faults>>

Taken(n) == n \in foreign \/ \E q \in Proc : stage[q] \in Listening /\ port[q] = n

\* Slip: after the last port it begins again.
BindAgain(p) ==
    /\ stage[p] = "bind"
    /\ \/ ~Taken(port[p]) /\ To(p, "publish") /\ UNCHANGED port
       \/ Taken(port[p]) /\ port' = [port EXCEPT ![p] = IF @ = MaxPort THEN 1 ELSE @ + 1] /\ UNCHANGED stage
    /\ UNCHANGED <<config, file, view, writing, attempt, todo, missed, lapsed, faults>>

\* bindServerListener: one port after the other; a fixed port is the only one.
Bind(p) ==
    /\ stage[p] = "bind"
    /\ \/ ~Taken(port[p]) /\ To(p, "publish") /\ UNCHANGED port
       \/ Taken(port[p]) /\ port[p] < MaxPort /\ port' = [port EXCEPT ![p] = @ + 1] /\ UNCHANGED stage
       \/ Taken(port[p]) /\ port[p] = MaxPort /\ To(p, "gone") /\ UNCHANGED port
    /\ UNCHANGED <<config, file, view, writing, attempt, todo, missed, lapsed, faults>>

\* writeInstanceRecord and startHeartbeat.  The ghosts: who has read too early to see this
\* record, and whether this process has read too early to see another one's.
Publish(p) ==
    /\ stage[p] = "publish"
    /\ To(p, "validate")
    /\ file' = [file EXCEPT ![ident[p]] = [owner |-> p, recent |-> TRUE]]
    /\ missed' = [q \in Proc |-> IF q = p THEN {}
                                 ELSE IF stage[q] \in {"judge", "bind", "publish"} /\ ident[q] = ident[p]
                                      THEN missed[q] \cup {p} ELSE missed[q]]
    /\ lapsed' = IF \E q \in missed[p] : Holds(q) THEN lapsed \cup {ident[p]} ELSE lapsed
    /\ UNCHANGED <<config, view, port, writing, attempt, todo, faults>>

\* The write fails: the listener is closed and the start throws.
PublishFails(p) ==
    /\ stage[p] = "publish" /\ Fault
    /\ To(p, "gone")
    /\ UNCHANGED <<config, file, view, port, writing, attempt, todo, missed, lapsed>>

-----------------------------------------------------------------------------
(* The heartbeat: a timer that rewrites the record, whoever's is there.  A  *)
(* write that finds its own recent record and that nobody will await changes *)
(* nothing, and is left out.                                                 *)

HeartbeatBegins(p) ==
    /\ stage[p] \in Beating /\ ~writing[p]
    /\ file[ident[p]] # [owner |-> p, recent |-> TRUE] \/ stage[p] \in {"validate", "cancel"}
    /\ writing' = [writing EXCEPT ![p] = TRUE]
    /\ UNCHANGED <<config, stage, file, view, port, attempt, todo, missed, lapsed, faults>>

\* Slip: a heartbeat renews its own record, and writes no other.
HeartbeatEndsOnOwn(p) ==
    /\ Alive(p) /\ writing[p]
    /\ writing' = [writing EXCEPT ![p] = FALSE]
    /\ file' = IF file[ident[p]].owner = p THEN [file EXCEPT ![ident[p]].recent = TRUE] ELSE file
    /\ UNCHANGED <<config, stage, view, port, attempt, todo, missed, lapsed, faults>>

HeartbeatEnds(p) ==
    /\ Alive(p) /\ writing[p]
    /\ writing' = [writing EXCEPT ![p] = FALSE]
    /\ file' = [file EXCEPT ![ident[p]] = [owner |-> p, recent |-> TRUE]]
    /\ UNCHANGED <<config, stage, view, port, attempt, todo, missed, lapsed, faults>>

\* A record that is not renewed gets old; that of a beating process only when it is late.
Age(i) ==
    LET q == file[i].owner IN
    /\ file[i].recent
    /\ file' = [file EXCEPT ![i].recent = FALSE]
    /\ IF Holds(q)
       THEN Fault /\ lapsed' = lapsed \cup {i}
       ELSE UNCHANGED <<faults, lapsed>>
    /\ UNCHANGED <<config, stage, view, port, writing, attempt, todo, missed>>

-----------------------------------------------------------------------------
(* Validation, recovery and the start of the scheduler. *)

\* validateStartup, then readAttempts: every attempt file, whichever instance wrote it.
Validate(p) ==
    /\ stage[p] = "validate"
    /\ To(p, "recover")
    /\ todo' = [todo EXCEPT ![p] = {<<q, attempt[q]>> : q \in {a \in Anyone : attempt[a] \in Active}}]
    /\ UNCHANGED <<config, file, view, port, writing, attempt, missed, lapsed, faults>>

\* Validation finds errors: cleanup, throw, and the catch cleans up again.
ValidateFails(p) ==
    /\ stage[p] = "validate"
    /\ To(p, "undo")
    /\ UNCHANGED <<config, file, view, port, writing, attempt, todo, missed, lapsed, faults>>

(* The records are updated one after the other, those of interrupted runs  *)
(* first.  A cleanup that had begun is never safe to resume: the daemon    *)
(* writes neither completion_policy_state nor terminal_claim_persisted.    *)
RecoverOne(p, q) ==
    /\ stage[p] = "recover"
    /\ \/ /\ <<q, "running">> \in todo[p]
          /\ todo' = [todo EXCEPT ![p] = @ \ {<<q, "running">>}]
          /\ attempt' = [attempt EXCEPT ![q] = "interrupted"]
       \/ /\ <<q, "cleaning">> \in todo[p]
          /\ \A a \in Anyone : <<a, "running">> \notin todo[p]
          /\ todo' = [todo EXCEPT ![p] = @ \ {<<q, "cleaning">>}]
          /\ attempt' = [attempt EXCEPT ![q] = "preserved"]
    /\ UNCHANGED <<config, stage, file, view, port, writing, missed, lapsed, faults>>

\* The scan of the workspaces reports errors, or a write of the recovery throws.
RecoverFails(p) ==
    /\ stage[p] = "recover" /\ Fault
    /\ \/ todo[p] = {} /\ To(p, "undo")
       \/ To(p, "abort")
    /\ todo' = [todo EXCEPT ![p] = {}]
    /\ UNCHANGED <<config, file, view, port, writing, attempt, missed, lapsed>>

\* installSignalHandlers, runnerHealth.start, scheduler.start with its immediate tick.
Recovered(p) ==
    /\ stage[p] = "recover" /\ todo[p] = {}
    /\ To(p, "snapshot")
    /\ UNCHANGED <<config, file, view, port, writing, attempt, todo, missed, lapsed, faults>>

Started(p) ==
    /\ stage[p] = "snapshot"
    /\ To(p, "up")
    /\ UNCHANGED <<config, file, view, port, writing, attempt, todo, missed, lapsed, faults>>

\* The first snapshot cannot be written: the start is undone under a tick that goes on.
SnapshotFails(p) ==
    /\ stage[p] = "snapshot" /\ Fault
    /\ To(p, "rollback")
    /\ UNCHANGED <<config, file, view, port, writing, attempt, todo, missed, lapsed>>

-----------------------------------------------------------------------------
(* The attempt of a process: the tick's runs, seen through their records.   *)

Work(p) ==
    /\ stage[p] \in Working
    /\ \/ attempt[p] = "none" /\ attempt' = [attempt EXCEPT ![p] = "running"]
       \/ attempt[p] = "running" /\ attempt' = [attempt EXCEPT ![p] = "cleaning"]
       \/ attempt[p] \notin {"none", "over"} /\ attempt' = [attempt EXCEPT ![p] = "over"]
    /\ UNCHANGED <<config, stage, file, view, port, writing, todo, missed, lapsed, faults>>

-----------------------------------------------------------------------------
(* The end. *)

\* Slip: the heartbeat's last write is not awaited.
FlushAtOnce(p, from, to) ==
    /\ stage[p] = from
    /\ To(p, to)
    /\ port' = [port EXCEPT ![p] = 0]
    /\ UNCHANGED <<config, file, view, writing, attempt, todo, missed, lapsed, faults>>

\* instance.cleanup, first half: the heartbeat stops, its last write is awaited, the
\* listener is closed.
Flush(p, from, to) ==
    /\ stage[p] = from /\ ~writing[p]
    /\ To(p, to)
    /\ port' = [port EXCEPT ![p] = 0]
    /\ UNCHANGED <<config, file, view, writing, attempt, todo, missed, lapsed, faults>>

\* Second half: the file is removed, whoever's record it holds.
Remove(p, from, to) ==
    /\ stage[p] = from
    /\ To(p, to)
    /\ Delete(p, ident[p])
    /\ UNCHANGED <<config, view, port, writing, attempt, todo, missed, faults>>

\* A signal, once the handlers are installed: before, it ends the process (Crash).
Stop(p) ==
    /\ stage[p] \in {"snapshot", "up"}
    /\ To(p, "close")
    /\ UNCHANGED <<config, file, view, port, writing, attempt, todo, missed, lapsed, faults>>

Close(p) ==
    /\ stage[p] = "close"
    /\ To(p, "cancel")
    /\ port' = [port EXCEPT ![p] = 0]
    /\ UNCHANGED <<config, file, view, writing, attempt, todo, missed, lapsed, faults>>

\* cancelActiveRuns, recordShutdown and the last snapshot.
CancelRuns(p) ==
    /\ stage[p] = "cancel"
    /\ To(p, "flush")
    /\ attempt' = [attempt EXCEPT ![p] = IF @ = "none" THEN @ ELSE "over"]
    /\ UNCHANGED <<config, file, view, port, writing, todo, missed, lapsed, faults>>

\* The snapshot cannot be written: stop() rejects and the process ends with its record in place.
CancelFails(p) ==
    /\ stage[p] = "cancel" /\ Fault
    /\ To(p, "dead")
    /\ attempt' = [attempt EXCEPT ![p] = IF @ = "none" THEN @ ELSE "over"]
    /\ writing' = [writing EXCEPT ![p] = FALSE]
    /\ UNCHANGED <<config, file, view, port, todo, missed, lapsed>>

Cleanup(p) ==
    \/ Flush(p, "flush", "remove")       \/ Remove(p, "remove", "gone")
    \/ Flush(p, "undo", "undo_remove")   \/ Remove(p, "undo_remove", "redo")
    \/ Flush(p, "abort", "redo")         \/ Remove(p, "redo", "gone")
    \/ Flush(p, "rollback", "rollback_remove") \/ Remove(p, "rollback_remove", "stray")

\* A signal in a process whose start failed under a running tick: stop(), as above.
StopStray(p) ==
    /\ stage[p] = "stray"
    /\ To(p, "stray_cancel")
    /\ UNCHANGED <<config, file, view, port, writing, attempt, todo, missed, lapsed, faults>>

CancelStray(p) ==
    /\ stage[p] = "stray_cancel"
    /\ To(p, "redo")
    /\ attempt' = [attempt EXCEPT ![p] = IF @ = "none" THEN @ ELSE "over"]
    /\ UNCHANGED <<config, file, view, port, writing, todo, missed, lapsed, faults>>

\* That tick is over, and nothing keeps the process.
StrayEnds(p) ==
    /\ stage[p] = "stray" /\ attempt[p] \notin Active
    /\ To(p, "gone")
    /\ UNCHANGED <<config, file, view, port, writing, attempt, todo, missed, lapsed, faults>>

\* A crash, or a heartbeat whose write fails: its rejection is handled by nobody.
Crash(p) ==
    /\ Alive(p) /\ Fault
    /\ To(p, "dead")
    /\ writing' = [writing EXCEPT ![p] = FALSE]
    /\ view' = [view EXCEPT ![p] = [i \in Id |-> None]]
    /\ todo' = [todo EXCEPT ![p] = {}]
    /\ UNCHANGED <<config, file, port, attempt, missed, lapsed>>

-----------------------------------------------------------------------------

\* What a process does once it is started, unless something fails.
Step(p) ==
    \/ \E i \in Id : Judge(p, i)
    \/ Judged(p) \/ Bind(p) \/ Publish(p) \/ Validate(p)
    \/ \E q \in Anyone : RecoverOne(p, q)
    \/ Recovered(p) \/ Started(p)
    \/ Close(p) \/ CancelRuns(p) \/ Cleanup(p) \/ CancelStray(p) \/ StrayEnds(p)

Fails(p) ==
    \/ PublishFails(p) \/ ValidateFails(p) \/ RecoverFails(p) \/ SnapshotFails(p)
    \/ CancelFails(p) \/ Crash(p)

Next ==
    \/ \E p \in Proc : \/ Read(p) \/ Step(p) \/ Stop(p) \/ StopStray(p) \/ Fails(p)
                       \/ HeartbeatBegins(p) \/ HeartbeatEnds(p) \/ Work(p)
    \/ \E i \in Id : Age(i)

(* A process that runs goes on: its event loop turns, its files answer, and *)
(* Fizzy and the runner answer the questions of the validation; its timer   *)
(* fires; and the run that keeps the process of a failed start comes to an  *)
(* end.  Nothing is assumed of signals or of the passing of time.           *)
Heartbeat(p) == HeartbeatBegins(p) \/ HeartbeatEnds(p)
GoesOn(p)    == Step(p) \/ (stage[p] = "stray" /\ Work(p))

Fairness == \A p \in Proc : WF_vars(GoesOn(p)) /\ WF_vars(Heartbeat(p))

Spec == Init /\ [][Next]_vars /\ Fairness

-----------------------------------------------------------------------------
(* Properties. *)

TypeOK ==
    /\ ident \in [Anyone -> Id] /\ path \in [Anyone -> Config] /\ foreign \subseteq 1..MaxPort
    /\ stage \in [Proc -> Stages]
    /\ file \in [Id -> Record \cup {None}]
    /\ view \in [Proc -> [Id -> Record \cup {None}]]
    /\ port \in [Proc -> 0..MaxPort]
    /\ writing \in [Proc -> BOOLEAN]
    /\ attempt \in [Anyone -> Attempt]
    /\ todo \in [Proc -> SUBSET (Anyone \X Active)]
    /\ missed \in [Proc -> SUBSET Proc]
    /\ lapsed \subseteq Id
    /\ faults \in 0..MaxFaults

(* Two live processes never hold one instance id, unless one of three things *)
(* has happened to that id: two starts read the registry before either had   *)
(* published (instance-registry.js:97-128), a heartbeat was late, or a file  *)
(* was removed that no longer held the record its remover had read (line     *)
(* 183) or written (line 147).                                               *)
ExclusiveUnlessLapsed ==
    \A p, q \in Proc : Holds(p) /\ Holds(q) /\ ident[p] = ident[q] /\ p # q => ident[p] \in lapsed

(* A process that ended in order, by stop() or by a failed start, leaves no  *)
(* record of its own behind: no heartbeat brings it back.                    *)
LeavesNoRecord == \A p \in Proc, i \in Id : stage[p] = "gone" => file[i].owner # p

(* Recovery takes an attempt for interrupted (recovery.js:67) only when its  *)
(* process is dead, or holds another instance id, or is one that the         *)
(* exclusion of its id has failed for, or whose start has failed.            *)
MarksOnlyEnded ==
    [][\A q \in Proc : attempt[q] \in Active /\ attempt'[q] \in {"interrupted", "preserved"} =>
        \/ ~Alive(q) \/ ident[q] \in lapsed \/ stage[q] \in Strays
        \/ \E p \in Proc : todo'[p] # todo[p] /\ ident[p] # ident[q]]_vars

(* A daemon that is up and whose record was overwritten or removed gets it   *)
(* back, time and again, by its heartbeat: later starts see it again.        *)
RecordRestored == \A p \in Proc : []<>(stage[p] = "up" => file[ident[p]].owner = p)

(* Every start comes to an end, up or refused or undone, and so does every   *)
(* stop and every cleanup of a failed start, with the process gone.          *)
StartsAndStopsEnd == \A p \in Proc : []<>(stage[p] \in {"off", "up", "gone", "dead"})

-----------------------------------------------------------------------------
(* What documents say of the program, and the code does not keep.          *)

(* SPEC.md:1592 and 1620: the cleanup of a process removes no record but its *)
(* own.                                                                      *)
RemovesOnlyOwn ==
    [][\A p \in Proc : stage[p] \in {"remove", "undo_remove", "redo", "rollback_remove"}
                       /\ stage'[p] \notin {stage[p], "dead"} =>
         file[ident[p]] = None \/ file[ident[p]].owner = p]_vars
=============================================================================
