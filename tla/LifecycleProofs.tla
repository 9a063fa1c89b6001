-------------------------- MODULE LifecycleProofs ---------------------------
(***************************************************************************)
(* What the handoff of a completed run means, proved for any number of     *)
(* attempts, turns and faults: a run is reported completed, and a worktree *)
(* is removed, only when result, proof and marker are there.  And what a   *)
(* run leaves behind when it is over: no session, no bucket, no claim.     *)
(***************************************************************************)
EXTENDS Lifecycle, TLAPS

LEMMA ConstantTypes ==
    /\ MaxAttempts \in Nat /\ MaxTurns \in Nat
    /\ Attempt \subseteq Nat \ {0}
    /\ \A n \in Nat : n < MaxAttempts => n + 1 \in Attempt
BY LifecycleAssumption DEF LifecycleAssumption, Attempt

-----------------------------------------------------------------------------
(* The functions and the attempt at work. *)
Shape ==
    /\ run \in [Attempt -> RunStatus]
    /\ claim \in [Attempt -> ClaimStatus]
    /\ DOMAIN active = Attempt
    /\ attempts \in Nat
    /\ pc \in Step
    /\ pc = "listed" => attempts < MaxAttempts
    /\ pc \notin {"idle", "listed"} => cur \in Attempt

(* How far runCard is determines what it has left behind: the result from
   writing the proof on, the proof from the policy on, the marker from
   finalizing the session on, and an ended claim, which no renewal touches any
   more, from the cleanup on. *)
Proving   == {"proof"}
Deciding  == {"policy", "marker"}
Finishing == {"finalize", "release"}
Cleaning  == {"cleanup", "remove"}

Handed ==
    /\ pc \in Proving \cup Deciding \cup Finishing \cup Cleaning => cur \in results
    /\ pc \in Deciding \cup Finishing \cup Cleaning => cur \in proof
    /\ pc \in Finishing \cup Cleaning => cur \in completions
    /\ pc \in Cleaning => claim[cur] \in Terminal /\ active[cur] = None

HandoffInv == Shape /\ Handed /\ CompletionMeans

LEMMA HandoffInit == Init => HandoffInv
<1>1. ASSUME Init PROVE Shape
  BY <1>1, ConstantTypes DEF Init, Shape, RunStatus, ClaimStatus, Step, None
<1>2. ASSUME Init PROVE Handed /\ CompletionMeans
  BY <1>2 DEF Init, Handed, CompletionMeans, Proving, Deciding, Finishing, Cleaning
<1> QED
  BY <1>1, <1>2 DEF HandoffInv

-----------------------------------------------------------------------------
(* Most steps keep the types, complete no run and take nothing back. *)
Keeps ==
    /\ run' \in [Attempt -> RunStatus]
    /\ \A a \in Attempt : run'[a] = "completed" => run[a] = "completed"
    /\ claim' \in [Attempt -> ClaimStatus]
    /\ DOMAIN active' = Attempt
    /\ results \subseteq results'
    /\ proof \subseteq proof'
    /\ completions \subseteq completions'

LEMMA KeepsCompletion ==
    ASSUME CompletionMeans, Keeps
    PROVE  CompletionMeans'
BY DEF CompletionMeans, Keeps

(* The places of runCard that promise nothing about the handoff. *)
Plain == Step \ ({"idle", "listed"} \cup Proving \cup Deciding \cup Finishing \cup Cleaning)

LEMMA PlainStep ==
    ASSUME HandoffInv, Keeps, attempts' = attempts,
           \/ pc' \in Plain /\ pc \notin {"idle", "listed"} /\ cur' = cur
           \/ pc' = "idle"
    PROVE  HandoffInv'
<1>1. Shape'
  BY DEF HandoffInv, Shape, Keeps, Plain, Step
<1>2. Handed'
  BY DEF Handed, Plain, Proving, Deciding, Finishing, Cleaning
<1> QED
  BY <1>1, <1>2, KeepsCompletion DEF HandoffInv

LEMMA StayStep ==
    ASSUME HandoffInv, Keeps, UNCHANGED <<pc, cur, attempts>>,
           pc \in Cleaning => claim'[cur] \in Terminal /\ active'[cur] = None
    PROVE  HandoffInv'
<1>1. Shape'
  BY DEF HandoffInv, Shape, Keeps
<1>2. Handed'
  BY DEF HandoffInv, Handed, Keeps
<1> QED
  BY <1>1, <1>2, KeepsCompletion DEF HandoffInv

-----------------------------------------------------------------------------
LEMMA DispatchStep ==
    ASSUME HandoffInv, Dispatch
    PROVE  HandoffInv'
<1> USE DEF RunStatus, ClaimStatus, Terminal
<1>1. ASSUME NEW a \in Attempt, ReconcileActiveRun(a) \/ ReconcileThrows(a)
      PROVE  HandoffInv'
  <2>1. Keeps /\ UNCHANGED <<pc, cur, attempts>> /\ pc = "idle"
    BY <1>1 DEF HandoffInv, Shape, Keeps, ReconcileActiveRun, ReconcileThrows, MustCancel,
                Leaked, Fault, diskVars, tickVars, orchVars
  <2> QED
    BY <2>1, StayStep DEF Cleaning
<1>2. ASSUME NEW candidate, TickReads(candidate)
      PROVE  HandoffInv'
  <2>1. Shape'
    BY <1>2 DEF HandoffInv, Shape, TickReads, Step, boardVars, orchVars, runVars
  <2>2. Handed'
    BY <1>2 DEF Handed, TickReads, Proving, Deciding, Finishing, Cleaning
  <2>3. CompletionMeans'
    BY <1>2 DEF HandoffInv, CompletionMeans, TickReads, boardVars, diskVars, runVars
  <2> QED
    BY <2>1, <2>2, <2>3 DEF HandoffInv
<1>3. CASE TickIgnores \/ ClaimBlocked
  <2>1. Keeps /\ attempts' = attempts
    BY <1>3 DEF HandoffInv, Shape, Keeps, TickIgnores, ClaimBlocked, DropCandidate, vars,
                boardVars, diskVars, orchVars, runVars
  <2>2. pc' = "idle"
    BY <1>3 DEF TickIgnores, ClaimBlocked, DropCandidate, vars, tickVars
  <2> QED
    BY <2>1, <2>2, PlainStep
<1>4. CASE AcquireThrows
  <2>1. Keeps /\ attempts' \in Nat /\ pc' = "idle"
    BY <1>4, ConstantTypes
       DEF HandoffInv, Shape, Keeps, AcquireThrows, MayAcquire, Fault, DropCandidate, diskVars,
           orchVars
  <2>2. Shape' /\ Handed'
    BY <2>1 DEF Shape, Keeps, Handed, Step, Proving, Deciding, Finishing, Cleaning
  <2> QED
    BY <2>1, <2>2, KeepsCompletion DEF HandoffInv
<1>5. CASE Acquire
  <2>1. cur' \in Attempt /\ cur' = attempts' /\ attempts' \in Nat
    BY <1>5, ConstantTypes DEF HandoffInv, Shape, Acquire, MayAcquire
  <2>2. Keeps /\ pc' \in {"untag", "claimed"}
    BY <1>5, ConstantTypes DEF HandoffInv, Shape, Keeps, Acquire, MayAcquire, diskVars
  <2>3. Shape' /\ Handed'
    BY <2>1, <2>2 DEF Shape, Keeps, Handed, Step, Proving, Deciding, Finishing, Cleaning
  <2> QED
    BY <2>2, <2>3, KeepsCompletion DEF HandoffInv
<1> QED
  BY <1>1, <1>2, <1>3, <1>4, <1>5 DEF Dispatch, DiscoverCard, MergeRetry

LEMMA PrepareStep ==
    ASSUME HandoffInv, Prepare
    PROVE  HandoffInv'
<1> USE DEF RunStatus, Fault, From, Throw, EndRun, Elsewhere, Write, StatusStartRun, diskVars,
            orchVars, runVars, runnerVars
<1>1. CASE RemoveTag \/ RemoveTagThrows
  <2>1. Keeps /\ attempts' = attempts
    BY <1>1 DEF HandoffInv, Shape, Keeps, RemoveTag, RemoveTagThrows
  <2>2. \/ pc' = "claimed" /\ pc = "untag" /\ cur' = cur
        \/ pc' = "idle"
    BY <1>1 DEF RemoveTag, RemoveTagThrows
  <2> QED
    BY <2>1, <2>2, PlainStep DEF Plain, Step, Proving, Deciding, Finishing, Cleaning
<1>2. ASSUME WriteEarly("claimed", "claimed", "preparing")
             \/ WriteEarly("preparing", "preparing_workspace", "prepare")
             \/ WriteEarlyThrows
      PROVE  HandoffInv'
  <2>1. UNCHANGED <<run, claim, active, results, proof, completions, attempts>>
    BY <1>2 DEF WriteEarly, WriteEarlyThrows, boardVars
  <2>3. Keeps
    BY <2>1 DEF HandoffInv, Shape, Keeps
  <2>2. \/ pc' \in {"preparing", "prepare"} /\ pc \in {"claimed", "preparing"} /\ cur' = cur
        \/ pc' = "idle"
    BY <1>2 DEF WriteEarly, WriteEarlyThrows
  <2> QED
    BY <2>1, <2>3, <2>2, PlainStep DEF Plain, Step, Proving, Deciding, Finishing, Cleaning
<1>3. CASE PrepareWorkspace \/ PrepareThrows \/ StartSession \/ StartSessionThrows
  <2>1. Keeps /\ attempts' = attempts
    BY <1>3 DEF HandoffInv, Shape, Keeps, PrepareWorkspace, PrepareThrows, StartSession,
                StartSessionThrows
  <2>2. /\ pc' \in {"prepared", "opened", "catch"} /\ cur' = cur
        /\ pc \in {"prepare", "session"}
    BY <1>3 DEF PrepareWorkspace, PrepareThrows, StartSession, StartSessionThrows
  <2> QED
    BY <2>1, <2>2, PlainStep DEF Plain, Step, Proving, Deciding, Finishing, Cleaning
<1>4. ASSUME \/ RecordRunning("prepared", "session")
             \/ RecordRunningThrows("prepared", {"disk", "board"}, "other")
             \/ RecordRunning("opened", "turn")
             \/ RecordRunningThrows("opened", {"disk"}, "runner")
      PROVE  HandoffInv'
  <2>1. Keeps /\ attempts' = attempts
    BY <1>4 DEF HandoffInv, Shape, Keeps, RecordRunning, RecordRunningThrows
  <2>2. /\ pc' \in {"session", "turn", "catch"} /\ cur' = cur
        /\ pc \in {"prepared", "opened"}
    BY <1>4 DEF RecordRunning, RecordRunningThrows
  <2> QED
    BY <2>1, <2>2, PlainStep DEF Plain, Step, Proving, Deciding, Finishing, Cleaning
<1> QED
  BY <1>1, <1>2, <1>3, <1>4 DEF Prepare

LEMMA TurnStep ==
    ASSUME HandoffInv, Turns
    PROVE  HandoffInv'
<1> USE DEF RunStatus, Fault, From, Throw, Elsewhere, Write, StatusStartRun, StreamLeaves,
            diskVars, orchVars, runVars, runnerVars
<1>1. CASE StartTurn \/ StartTurnThrows
  <2>1. Keeps /\ attempts' = attempts
    BY <1>1 DEF HandoffInv, Shape, Keeps, StartTurn, StartTurnThrows
  <2>2. pc' \in {"register", "catch"} /\ cur' = cur /\ pc = "turn"
    BY <1>1 DEF StartTurn, StartTurnThrows
  <2> QED
    BY <2>1, <2>2, PlainStep DEF Plain, Step, Proving, Deciding, Finishing, Cleaning
<1>2. ASSUME RegisterTurn \/ RecordRunningThrows("register", {"disk"}, "runner")
      PROVE  HandoffInv'
  <2>1. /\ UNCHANGED <<run, claim, results, proof, completions, attempts>>
        /\ active' = active \/ active' = [active EXCEPT ![cur] = turn]
    BY <1>2 DEF RegisterTurn, RecordRunningThrows
  <2>2. Keeps
    BY <2>1 DEF HandoffInv, Shape, Keeps
  <2>3. pc' \in {"stream", "catch"} /\ cur' = cur /\ pc = "register"
    BY <1>2 DEF RegisterTurn, RecordRunningThrows
  <2> QED
    BY <2>1, <2>2, <2>3, PlainStep DEF Plain, Step, Proving, Deciding, Finishing, Cleaning
<1>3. CASE StreamCompletes \/ StreamContinues \/ StreamFails \/ StreamCancelled
  <2>1. UNCHANGED <<run, claim, active, results, proof, completions, attempts>>
    BY <1>3 DEF StreamCompletes, StreamContinues, StreamFails, StreamCancelled
  <2>2. Keeps
    BY <2>1 DEF HandoffInv, Shape, Keeps
  <2>3. pc' \in {"result", "turn", "catch"} /\ cur' = cur /\ pc = "stream"
    BY <1>3 DEF StreamCompletes, StreamContinues, StreamFails, StreamCancelled
  <2> QED
    BY <2>1, <2>2, <2>3, PlainStep DEF Plain, Step, Proving, Deciding, Finishing, Cleaning
<1> QED
  BY <1>1, <1>2, <1>3 DEF Turns

-----------------------------------------------------------------------------
(* The steps from one place of the handoff to the next. *)
LEMMA CompleteStep ==
    ASSUME HandoffInv, Complete
    PROVE  HandoffInv'
<1> USE DEF RunStatus, ClaimStatus, Terminal, Fault, From, Throw, Elsewhere, diskVars, orchVars,
            runnerVars
<1>1. CASE PostResult
  <2>1. /\ pc = "result" /\ pc' = "proof" /\ UNCHANGED <<cur, attempts, active>>
        /\ results' = results \cup {cur} /\ UNCHANGED <<run, claim, proof, completions>>
    BY <1>1 DEF PostResult
  <2>2. Keeps /\ Shape' /\ Handed'
    BY <2>1 DEF HandoffInv, Shape, Keeps, Handed, Step, Proving, Deciding, Finishing, Cleaning
  <2> QED
    BY <2>2, KeepsCompletion DEF HandoffInv
<1>2. CASE WriteProof
  <2>1. /\ pc = "proof" /\ pc' = "policy" /\ UNCHANGED <<cur, attempts, active>>
        /\ proof' = proof \cup {cur} /\ UNCHANGED <<run, claim, results, completions>>
    BY <1>2 DEF WriteProof
  <2>2. Keeps /\ Shape' /\ Handed'
    BY <2>1 DEF HandoffInv, Shape, Keeps, Handed, Step, Proving, Deciding, Finishing, Cleaning
  <2> QED
    BY <2>2, KeepsCompletion DEF HandoffInv
<1>3. CASE ApplyPolicy
  <2>1. /\ pc = "policy" /\ pc' = "marker" /\ UNCHANGED <<cur, attempts, active>>
        /\ UNCHANGED <<run, claim, results, proof, completions>>
    BY <1>3 DEF ApplyPolicy, runVars
  <2>2. Keeps /\ Shape' /\ Handed'
    BY <2>1 DEF HandoffInv, Shape, Keeps, Handed, Step, Proving, Deciding, Finishing, Cleaning
  <2> QED
    BY <2>2, KeepsCompletion DEF HandoffInv
<1>4. CASE PostCompletionMarker
  <2>1. /\ pc = "marker" /\ pc' = "finalize" /\ UNCHANGED <<cur, attempts, active>>
        /\ completions' = completions \cup {cur} /\ UNCHANGED <<run, claim, results, proof>>
    BY <1>4 DEF PostCompletionMarker
  <2>2. Keeps /\ Shape' /\ Handed'
    BY <2>1 DEF HandoffInv, Shape, Keeps, Handed, Step, Proving, Deciding, Finishing, Cleaning
  <2> QED
    BY <2>2, KeepsCompletion DEF HandoffInv
<1>5. CASE FinalizeSession
  <2>1. /\ pc = "finalize" /\ pc' = "release" /\ UNCHANGED <<cur, attempts, active>>
        /\ UNCHANGED <<claim, results, proof, completions>>
    BY <1>5 DEF FinalizeSession
  <2>2. run' = [run EXCEPT ![cur] = IF @ = "cancelled" THEN @ ELSE "completed"]
    BY <1>5 DEF FinalizeSession, Bucket
  <2>3. Shape' /\ Handed'
    BY <2>1, <2>2 DEF HandoffInv, Shape, Handed, Step, Proving, Deciding, Finishing, Cleaning
  <2>4. cur \in results \cap proof \cap completions
    BY <2>1 DEF HandoffInv, Handed, Finishing
  <2>5. CompletionMeans'
    BY <2>1, <2>2, <2>4 DEF HandoffInv, Shape, CompletionMeans
  <2> QED
    BY <2>3, <2>5 DEF HandoffInv
<1>6. CASE ReleaseCompleted
  <2>1. /\ pc = "release" /\ UNCHANGED <<cur, attempts>>
        /\ UNCHANGED <<run, results, proof, completions>>
        /\ active' = [active EXCEPT ![cur] = None]
    BY <1>6 DEF ReleaseCompleted, DropActive
  <2>2. \/ pc' \in {"cleanup", "handoff"} /\ claim' = [claim EXCEPT ![cur] = "completed"]
        \/ pc' = "handoff" /\ claim' \in {claim, [claim EXCEPT ![cur] = "completed"]}
    BY <1>6 DEF ReleaseCompleted
  <2>3. Keeps /\ Shape' /\ Handed'
    BY <2>1, <2>2 DEF HandoffInv, Shape, Keeps, Handed, Step, Proving, Deciding, Finishing,
                      Cleaning
  <2> QED
    BY <2>3, KeepsCompletion DEF HandoffInv
<1>7. CASE WriteCleanupStarted
  <2>1. /\ pc = "cleanup" /\ pc' = "remove" /\ UNCHANGED <<cur, attempts, active>>
        /\ UNCHANGED <<run, claim, results, proof, completions>>
    BY <1>7 DEF WriteCleanupStarted
  <2>2. Keeps /\ Shape' /\ Handed'
    BY <2>1 DEF HandoffInv, Shape, Keeps, Handed, Step, Proving, Deciding, Finishing, Cleaning
  <2> QED
    BY <2>2, KeepsCompletion DEF HandoffInv
<1>8. CASE \/ PostResultThrows \/ WriteProofThrows \/ StepsUnchecked \/ PolicyFails
           \/ PostCompletionMarkerThrows \/ CleanupWorkspace \/ Handoff \/ WriteCompletedThrows
  <2>1. /\ UNCHANGED <<run, claim, active, attempts, proof>>
        /\ results \subseteq results' /\ completions \subseteq completions'
    BY <1>8 DEF PostResultThrows, WriteProofThrows, StepsUnchecked, PolicyFails,
                PostCompletionMarkerThrows, CleanupWorkspace, Handoff, WriteCompletedThrows,
                Maybe, EndRun, boardVars, runVars
  <2>2. Keeps
    BY <2>1 DEF HandoffInv, Shape, Keeps
  <2>3. \/ pc' \in {"catch", "blocked", "handoff"} /\ pc \notin {"idle", "listed"} /\ cur' = cur
        \/ pc' = "idle"
    BY <1>8 DEF PostResultThrows, WriteProofThrows, StepsUnchecked, PolicyFails,
                PostCompletionMarkerThrows, CleanupWorkspace, Handoff, WriteCompletedThrows,
                EndRun
  <2> QED
    BY <2>1, <2>2, <2>3, PlainStep DEF Plain, Step, Proving, Deciding, Finishing, Cleaning
<1> QED
  BY <1>1, <1>2, <1>3, <1>4, <1>5, <1>6, <1>7, <1>8 DEF Complete

LEMMA FailStep ==
    ASSUME HandoffInv, Fail
    PROVE  HandoffInv'
<1> USE DEF RunStatus, ClaimStatus, Terminal, Fault, From, Throw, Elsewhere, EndRun, diskVars,
            orchVars, runnerVars, DropActive, RecordFailure, Bucket
<1>1. CASE BlockCompletion \/ Catch
  <2>1. /\ UNCHANGED <<claim, results, proof, completions, attempts>>
        /\ active' = [active EXCEPT ![cur] = None]
        /\ run' = [run EXCEPT ![cur] = IF @ = "cancelled" THEN @ ELSE "failed"]
    BY <1>1 DEF BlockCompletion, Catch
  <2>2. Keeps
    BY <2>1 DEF HandoffInv, Shape, Keeps
  <2>3. pc' = "fail_finalize" /\ pc \in {"blocked", "catch"} /\ cur' = cur
    BY <1>1 DEF BlockCompletion, Catch
  <2> QED
    BY <2>1, <2>2, <2>3, PlainStep DEF Plain, Step, Proving, Deciding, Finishing, Cleaning
<1>2. CASE BlockCompletionThrows \/ FinalizeFailed \/ WriteFailed \/ WriteFailedThrows
  <2>1. UNCHANGED <<run, claim, active, results, proof, completions, attempts>>
    BY <1>2 DEF BlockCompletionThrows, FinalizeFailed, WriteFailed, WriteFailedThrows
  <2>2. Keeps
    BY <2>1 DEF HandoffInv, Shape, Keeps
  <2>3. \/ /\ pc' \in {"catch", "fail_write", "fail_release"} /\ cur' = cur
           /\ pc \in {"blocked", "fail_finalize", "fail_write"}
        \/ pc' = "idle"
    BY <1>2 DEF BlockCompletionThrows, FinalizeFailed, WriteFailed, WriteFailedThrows
  <2> QED
    BY <2>1, <2>2, <2>3, PlainStep DEF Plain, Step, Proving, Deciding, Finishing, Cleaning
<1>3. CASE ReleaseFailed
  <2>1. /\ UNCHANGED <<run, active, results, proof, completions, attempts>>
        /\ claim' \in {claim, [claim EXCEPT ![cur] = "failed"]}
        /\ pc' = "idle"
    BY <1>3 DEF ReleaseFailed
  <2>2. Keeps
    BY <2>1 DEF HandoffInv, Shape, Keeps
  <2> QED
    BY <2>1, <2>2, PlainStep
<1> QED
  BY <1>1, <1>2, <1>3 DEF Fail

-----------------------------------------------------------------------------
(* What happens between the awaits of runCard. *)
LEMMA TimerStep ==
    ASSUME HandoffInv, Timers
    PROVE  HandoffInv'
<1> USE DEF ClaimStatus, Terminal, diskVars, tickVars, orchVars, runVars, boardVars, runnerVars
<1>1. CASE StallFires
  <2>1. Keeps /\ UNCHANGED <<pc, cur, attempts, claim, active>>
    BY <1>1 DEF HandoffInv, Shape, Keeps, StallFires
  <2> QED
    BY <2>1, StayStep DEF HandoffInv, Handed
<1>2. ASSUME NEW timer \in stalling, active' = [active EXCEPT ![timer[1]] = None],
             UNCHANGED <<boardVars, diskVars, tickVars, runVars>>
      PROVE  HandoffInv'
  <2>1. Keeps /\ UNCHANGED <<pc, cur, attempts, claim>>
    BY <1>2 DEF HandoffInv, Shape, Keeps
  <2>2. pc \in Cleaning => claim'[cur] \in Terminal /\ active'[cur] = None
    BY <1>2 DEF HandoffInv, Shape, Handed, Cleaning
  <2> QED
    BY <2>1, <2>2, StayStep
<1>3. ASSUME NEW a \in Attempt, claim' = [claim EXCEPT ![a] = "expired"],
             pc \in Cleaning => a # cur,
             \/ active' = active
             \/ active' = [active EXCEPT ![a] = None],
             UNCHANGED <<results, completions, proof, run, attempts, pc, cur>>
      PROVE  HandoffInv'
  <2>1. Keeps
    BY <1>3 DEF HandoffInv, Shape, Keeps
  <2>2. pc \in Cleaning => claim'[cur] \in Terminal /\ active'[cur] = None
    BY <1>3 DEF HandoffInv, Shape, Handed, Cleaning
  <2> QED
    BY <1>3, <2>1, <2>2, StayStep
<1>4. CASE StallCancels
  BY <1>4, <1>2 DEF StallCancels
<1>5. CASE RenewalFails
  <2>1. PICK a \in Attempt :
          /\ active[a] # None
          /\ claim' = [claim EXCEPT ![a] = "expired"]
          /\ active' = [active EXCEPT ![a] = None]
          /\ UNCHANGED <<results, completions, proof, run, attempts, pc, cur>>
    BY <1>5 DEF RenewalFails, DropActive
  <2>2. pc \in Cleaning => a # cur
    BY <2>1 DEF HandoffInv, Handed
  <2> QED
    BY <2>1, <2>2, <1>3
<1>6. CASE LeaseExpires
  <2>1. PICK a \in Attempt :
          /\ claim[a] = "live"
          /\ claim' = [claim EXCEPT ![a] = "expired"]
          /\ UNCHANGED <<results, completions, proof, run, attempts, pc, cur, active>>
    BY <1>6 DEF LeaseExpires
  <2>2. pc \in Cleaning => a # cur
    BY <2>1 DEF HandoffInv, Handed
  <2> QED
    BY <2>1, <2>2, <1>3
<1> QED
  BY <1>1, <1>4, <1>5, <1>6 DEF Timers

LEMMA ShutdownStep ==
    ASSUME HandoffInv, Shutdown
    PROVE  HandoffInv'
<1> USE DEF ClaimStatus, RunStatus, Terminal, diskVars, tickVars, orchVars, runVars, boardVars,
            runnerVars
<1>1. ASSUME UNCHANGED <<results, completions, proof, run, claim, attempts, pc, cur>>,
             active' \in {active, [a \in Attempt |-> None]}
      PROVE  HandoffInv'
  <2>1. Keeps
    BY <1>1 DEF HandoffInv, Shape, Keeps
  <2>2. pc \in Cleaning => claim'[cur] \in Terminal /\ active'[cur] = None
    BY <1>1 DEF HandoffInv, Shape, Handed, Cleaning
  <2> QED
    BY <1>1, <2>1, <2>2, StayStep
<1>2. CASE Stop \/ ReadRunningRun \/ NoRunningRun \/ StopVictimSession
  <2>1. /\ UNCHANGED <<results, completions, proof, run, claim, attempts, pc, cur>>
        /\ active' \in {active, [a \in Attempt |-> None]}
    BY <1>2 DEF Stop, ReadRunningRun, NoRunningRun, StopVictimSession, CancelOrchestratorRuns
  <2> QED
    BY <2>1, <1>1
<1>3. CASE WriteVictim \/ WriteVictimThrows \/ Recover
  <2>1. /\ UNCHANGED <<results, completions, proof, run, claim, attempts, pc, cur>>
        /\ active' \in {active, [a \in Attempt |-> None]}
    BY <1>3 DEF WriteVictim, WriteVictimThrows, Recover, CancelOrchestratorRuns
  <2> QED
    BY <2>1, <1>1
<1>4. CASE ReleaseVictim
  <2>1. /\ claim' \in {claim, [claim EXCEPT ![victim.attempt] = "cancelled"]}
        /\ run' = [run EXCEPT ![victim.attempt] = "cancelled"]
        /\ UNCHANGED <<results, completions, proof, active, attempts, pc, cur>>
    BY <1>4 DEF ReleaseVictim
  <2>2. Keeps
    BY <2>1 DEF HandoffInv, Shape, Keeps
  <2>3. pc \in Cleaning => claim'[cur] \in Terminal /\ active'[cur] = None
    BY <2>1 DEF HandoffInv, Shape, Handed, Cleaning
  <2> QED
    BY <2>1, <2>2, <2>3, StayStep
<1>5. CASE Crash \/ Exit
  <2>1. LoseMemory
    BY <1>5 DEF Crash, Exit
  <2>2. /\ UNCHANGED <<results, completions, proof, claim, attempts>>
        /\ run' = [a \in Attempt |-> "none"]
        /\ active' = [a \in Attempt |-> None]
        /\ pc' = "idle"
    BY <2>1 DEF LoseMemory, EndRun
  <2>3. Keeps
    BY <2>2 DEF HandoffInv, Shape, Keeps
  <2> QED
    BY <2>2, <2>3, PlainStep
<1> QED
  BY <1>2, <1>3, <1>4, <1>5 DEF Shutdown

LEMMA HumanStep ==
    ASSUME HandoffInv, HumanMovesCard \/ HumanAsksRerun \/ UNCHANGED vars
    PROVE  HandoffInv'
<1>1. UNCHANGED <<results, completions, proof, run, claim, active, attempts, pc, cur>>
  BY DEF HumanMovesCard, HumanAsksRerun, Human, vars, diskVars, tickVars, orchVars, runVars,
         boardVars
<1>2. Keeps
  BY <1>1 DEF HandoffInv, Shape, Keeps
<1>3. pc \in Cleaning => claim'[cur] \in Terminal /\ active'[cur] = None
  BY <1>1 DEF HandoffInv, Handed
<1> QED
  BY <1>1, <1>2, <1>3, StayStep

LEMMA HandoffStep == HandoffInv /\ [Next]_vars => HandoffInv'
<1> SUFFICES ASSUME HandoffInv, [Next]_vars
             PROVE  HandoffInv'
  OBVIOUS
<1>1. CASE Dispatch
  BY <1>1, DispatchStep
<1>2. CASE RunCard
  BY <1>2, PrepareStep, TurnStep, CompleteStep, FailStep DEF RunCard
<1>3. CASE Timers
  BY <1>3, TimerStep
<1>4. CASE Shutdown
  BY <1>4, ShutdownStep
<1>5. CASE HumanMovesCard \/ HumanAsksRerun \/ UNCHANGED vars
  BY <1>5, HumanStep
<1> QED
  BY <1>1, <1>2, <1>3, <1>4, <1>5 DEF Next

-----------------------------------------------------------------------------
(* In every run of the daemon, with any number of attempts, turns and faults:
   what is reported completed has its result and marker on the card and its
   proof on disk (runCard's order of result, proof, policy, marker, bucket). *)
THEOREM CompletionSound == Spec => []CompletionMeans
<1>1. Init => HandoffInv
  BY HandoffInit
<1>2. HandoffInv /\ [Next]_vars => HandoffInv'
  BY HandoffStep
<1>3. HandoffInv => CompletionMeans
  BY DEF HandoffInv
<1> QED
  BY <1>1, <1>2, <1>3, PTL DEF Spec

-----------------------------------------------------------------------------
(* Only the cleanup removes the worktree. *)
LEMMA WorkspaceStays ==
    ASSUME Next, ~CleanupWorkspace
    PROVE  workspace' = workspace \/ workspace' = TRUE
<1> USE DEF diskVars, Elsewhere
<1>1. CASE Dispatch
  BY <1>1 DEF Dispatch, ReconcileActiveRun, ReconcileThrows, DiscoverCard, MergeRetry, TickReads,
              TickIgnores, ClaimBlocked, AcquireThrows, Acquire, vars
<1>2. ASSUME Prepare PROVE workspace' = workspace \/ workspace' = TRUE
  BY <1>2 DEF Prepare, RemoveTag, RemoveTagThrows, WriteEarly, WriteEarlyThrows,
              PrepareWorkspace, PrepareThrows, RecordRunning, RecordRunningThrows, StartSession,
              StartSessionThrows
<1>3. ASSUME Turns PROVE workspace' = workspace
  BY <1>3 DEF Turns, StartTurn, StartTurnThrows, RegisterTurn, RecordRunningThrows,
              StreamLeaves, StreamCompletes, StreamContinues, StreamFails, StreamCancelled
<1>4. ASSUME Complete PROVE workspace' = workspace
  BY <1>4 DEF Complete, PostResult, PostResultThrows, WriteProof, WriteProofThrows,
              StepsUnchecked, ApplyPolicy, PolicyFails, PostCompletionMarker,
              PostCompletionMarkerThrows, FinalizeSession, ReleaseCompleted, WriteCleanupStarted,
              Handoff, WriteCompletedThrows
<1>5. ASSUME Fail PROVE workspace' = workspace
  BY <1>5 DEF Fail, BlockCompletion, BlockCompletionThrows, Catch, FinalizeFailed, WriteFailed,
              WriteFailedThrows, ReleaseFailed
<1>6. ASSUME Timers PROVE workspace' = workspace
  BY <1>6 DEF Timers, StallFires, StallCancels, RenewalFails, LeaseExpires
<1>7. ASSUME Shutdown PROVE workspace' = workspace
  BY <1>7 DEF Shutdown, Stop, ReadRunningRun, NoRunningRun, StopVictimSession, ReleaseVictim,
              WriteVictim, WriteVictimThrows, LoseMemory, Crash, Exit, Recover
<1>8. ASSUME HumanMovesCard \/ HumanAsksRerun PROVE workspace' = workspace
  BY <1>8 DEF HumanMovesCard, HumanAsksRerun, Human
<1> QED
  BY <1>1, <1>2, <1>3, <1>4, <1>5, <1>6, <1>7, <1>8 DEF Next, RunCard

LEMMA CleanupStep ==
    ASSUME HandoffInv, CleanupWorkspace
    PROVE  cur \in results \cap proof \cap completions /\ claim[cur] \in Terminal
BY DEF HandoffInv, Handed, Cleaning, CleanupWorkspace, From

(* A worktree is removed only by runCard's cleanup, and only when the handoff of
   its run is complete and its claim has ended, for any number of attempts and
   faults (runCard's cleanup phase, after an acknowledged release). *)
THEOREM CleanupSound == Spec => CleanupSafe
<1>1. HandoffInv /\ [Next]_vars
        => [workspace /\ ~workspace' =>
               /\ cur \in results \cap proof \cap completions
               /\ claim[cur] \in Terminal]_vars
  <2> SUFFICES ASSUME HandoffInv, Next, workspace, ~workspace'
               PROVE  cur \in results \cap proof \cap completions /\ claim[cur] \in Terminal
    OBVIOUS
  <2>1. CleanupWorkspace
    BY Zenon, WorkspaceStays
  <2> QED
    BY <2>1, CleanupStep
<1>2. Init => HandoffInv
  BY HandoffInit
<1>3. HandoffInv /\ [Next]_vars => HandoffInv'
  BY HandoffStep
<1> QED
  BY <1>1, <1>2, <1>3, PTL DEF Spec, CleanupSafe

-----------------------------------------------------------------------------
(* What a run in progress holds: its session is open between startSession and
   the end of finalizeRunnerSession; its bucket is "running" until its outcome
   is recorded, unless a write of its file ended the tick before that; and its
   claim is live until the release, unless a fault kept it from it. *)
InSession == {"opened", "turn", "register", "stream", "result", "proof", "policy", "marker",
              "finalize", "blocked", "catch", "fail_finalize"}
InRun     == (InSession \ {"fail_finalize"})
               \cup {"claimed", "preparing", "prepare", "prepared", "session"}
InClaim   == Step \ {"idle", "listed", "cleanup", "remove", "handoff"}

Tidy ==
    /\ DOMAIN session = Attempt /\ faults \in Nat /\ unwritten \in BOOLEAN
    /\ \A a \in Attempt : session[a] = "open" => a = cur /\ pc \in InSession
    /\ ~unwritten => \A a \in Attempt : run[a] = "running" => a = cur /\ pc \in InRun
    /\ faults = 0 => \A a \in Attempt : claim[a] = "live" => a = cur /\ pc \in InClaim

LEMMA TidyInit == Init => Tidy
<1> SUFFICES ASSUME Init PROVE Tidy
  OBVIOUS
<1>1. DOMAIN session = Attempt /\ faults \in Nat /\ unwritten \in BOOLEAN
  BY DEF Init
<1>2. \A a \in Attempt : session[a] # "open" /\ run[a] # "running" /\ claim[a] # "live"
  BY DEF Init
<1> QED
  BY <1>1, <1>2 DEF Tidy

\* The counter of faults goes up, and a failed write is not forgotten.
Faulted == /\ faults' \in Nat /\ (faults' = 0 => faults = 0)
           /\ unwritten' \in BOOLEAN /\ (unwritten => unwritten')

LEMMA FaultCounts ==
    ASSUME Tidy, UNCHANGED boundVars \/ \E kind \in FaultKind : Fault(kind)
    PROVE  Faulted
<1>1. CASE UNCHANGED boundVars
  BY <1>1 DEF Tidy, Faulted, boundVars
<1>2. ASSUME NEW kind, Fault(kind) PROVE Faulted
  <2>1. faults' = faults + 1 /\ faults \in Nat
    BY <1>2 DEF Fault, Tidy
  <2>2. unwritten' = (unwritten \/ kind = "disk") /\ unwritten \in BOOLEAN
    BY <1>2 DEF Fault, Tidy
  <2>3. unwritten' \in BOOLEAN /\ (unwritten => unwritten')
    BY <2>2
  <2> QED
    BY <2>1, <2>3 DEF Faulted
<1> QED
  BY <1>1, <1>2

LEMMA FaultSeen ==
    ASSUME Tidy, NEW kind, Fault(kind)
    PROVE  faults' # 0 /\ (kind = "disk" => unwritten')
<1>1. faults' = faults + 1 /\ faults \in Nat
  BY DEF Fault, Tidy
<1>2. unwritten' = (unwritten \/ kind = "disk")
  BY DEF Fault
<1>3. faults' # 0
  BY <1>1
<1>4. kind = "disk" => unwritten'
  BY <1>2, Zenon
<1> QED
  BY <1>3, <1>4

\* A step that opens no session, starts no run and claims nothing.
Quieter ==
    /\ Faulted /\ DOMAIN session' = Attempt
    /\ \A a \in Attempt : /\ session'[a] = "open" => session[a] = "open"
                          /\ run'[a] = "running" => run[a] = "running"
                          /\ claim'[a] = "live" => claim[a] = "live"

LEMMA TidyRest ==
    ASSUME Tidy, Quieter, UNCHANGED <<pc, cur>>
    PROVE  Tidy'
BY DEF Tidy, Quieter, Faulted

\* runCard goes on.
LEMMA TidyMove ==
    ASSUME Tidy, Quieter, cur' = cur,
           pc \in InSession => pc' \in InSession,
           ~unwritten' /\ pc \in InRun => pc' \in InRun,
           faults' = 0 /\ pc \in InClaim => pc' \in InClaim
    PROVE  Tidy'
BY DEF Tidy, Quieter, Faulted

\* runCard or the tick ends where nothing is held.
LEMMA TidyEnd ==
    ASSUME Tidy, Quieter, pc \notin InSession,
           ~unwritten' => pc \notin InRun,
           faults' = 0 => pc \notin InClaim
    PROVE  Tidy'
BY DEF Tidy, Quieter, Faulted

\* The run is put in the running bucket (status.startRun).
LEMMA TidyStart ==
    ASSUME Shape, Tidy, UNCHANGED <<boundVars, claim>>, cur' = cur, pc \in InClaim, pc' \in InRun \cap InClaim,
           DOMAIN session' = Attempt,
           \A a \in Attempt : session'[a] = "open" => (session[a] = "open" \/ a = cur) /\ pc' \in InSession,
           run' = [run EXCEPT ![cur] = "running"]
    PROVE  Tidy'
BY DEF Shape, Tidy, boundVars

LEMMA StopSessionQuiet ==
    ASSUME Tidy, NEW a, StopSession(a)
    PROVE  /\ Faulted /\ DOMAIN session' = Attempt
           /\ \A b \in Attempt : session'[b] = "open" => session[b] = "open" /\ b # a
<1>1. Faulted
  <2>1. CASE UNCHANGED boundVars
    BY <2>1, FaultCounts
  <2>2. CASE Fault("runner")
    BY <2>2, FaultCounts DEF FaultKind
  <2> QED
    BY <2>1, <2>2 DEF StopSession
<1> QED
  BY <1>1 DEF Tidy, StopSession

-----------------------------------------------------------------------------
LEMMA TidyDispatch ==
    ASSUME HandoffInv, Tidy, Dispatch
    PROVE  Tidy'
<1>0. Shape
  BY DEF HandoffInv
<1>1. ASSUME NEW a \in Attempt, ReconcileActiveRun(a) PROVE Tidy'
  <2>1. Faulted
    BY <1>1, FaultCounts DEF ReconcileActiveRun
  <2> QED
    BY <1>0, <1>1, <2>1, TidyRest DEF Shape, Tidy, Quieter, ReconcileActiveRun, tickVars, runnerVars
<1>2. ASSUME NEW a \in Attempt, ReconcileThrows(a) PROVE Tidy'
  <2>1. Faulted
    BY <1>2, FaultCounts DEF ReconcileThrows, FaultKind
  <2> QED
    BY <1>0, <1>2, <2>1, TidyRest DEF Shape, Tidy, Quieter, ReconcileThrows, tickVars, runnerVars
<1>3. ASSUME NEW candidate, TickReads(candidate) PROVE Tidy'
  <2>1. Quieter
    BY <1>3, FaultCounts DEF Tidy, Quieter, TickReads, boardVars, runVars, runnerVars
  <2> QED
    BY <1>3, <2>1, TidyEnd DEF TickReads, InSession, InRun, InClaim
<1>4. CASE TickIgnores \/ ClaimBlocked
  <2>1. Quieter
    BY <1>4, FaultCounts DEF Tidy, Quieter, TickIgnores, ClaimBlocked, vars, boardVars, runVars, runnerVars
  <2> QED
    BY <1>4, <2>1, TidyEnd DEF TickIgnores, ClaimBlocked, InSession, InRun, InClaim
<1>5. CASE AcquireThrows
  <2>1. Faulted /\ faults' # 0 /\ pc = "listed"
    BY <1>5, FaultCounts, FaultSeen DEF AcquireThrows, MayAcquire, FaultKind
  <2>2. UNCHANGED <<session, run>>
    BY <1>5 DEF AcquireThrows, runnerVars
  <2> QED
    BY <2>1, <2>2 DEF Tidy, Faulted, InSession, InRun
<1>6. CASE Acquire
  <2>1. pc = "listed" /\ cur' \in Attempt /\ pc' \in InClaim
    BY <1>0, <1>6, ConstantTypes DEF Shape, Acquire, MayAcquire, InClaim, Step
  <2>2. UNCHANGED <<session, boundVars>> /\ claim' = [claim EXCEPT ![cur'] = "live"]
    BY <1>6 DEF Acquire, runnerVars
  <2>3. run' = run \/ (run' = [run EXCEPT ![cur'] = "running"] /\ pc' \in InRun)
    BY <1>6 DEF Acquire, InRun
  <2> QED
    BY <1>0, <2>1, <2>2, <2>3 DEF Shape, Tidy, boundVars, InSession, InRun, InClaim
<1> QED
  BY <1>1, <1>2, <1>3, <1>4, <1>5, <1>6 DEF Dispatch, DiscoverCard, MergeRetry

LEMMA TidyPrepare ==
    ASSUME HandoffInv, Tidy, Prepare
    PROVE  Tidy'
<1>0. Shape
  BY DEF HandoffInv
<1> USE DEF From, Throw, runnerVars
<1>1. CASE RemoveTag
  <2>1. pc = "untag" /\ pc' = "claimed" /\ cur' = cur /\ UNCHANGED <<session, claim, boundVars>>
    BY <1>1 DEF RemoveTag
  <2> QED
    BY <1>0, <1>1, <2>1, TidyStart DEF Tidy, RemoveTag, InSession, InRun, InClaim, Step
<1>2. CASE RemoveTagThrows
  <2>1. Faulted /\ faults' # 0
    BY <1>2, FaultCounts, FaultSeen DEF RemoveTagThrows, FaultKind
  <2>2. Quieter
    BY <1>2, <2>1 DEF Tidy, Quieter, RemoveTagThrows, runVars
  <2> QED
    BY <1>2, <2>1, <2>2, TidyEnd DEF RemoveTagThrows, InSession, InRun
<1>3. ASSUME \/ WriteEarly("claimed", "claimed", "preparing")
             \/ WriteEarly("preparing", "preparing_workspace", "prepare")
             \/ RecordRunning("prepared", "session")
             \/ RecordRunning("opened", "turn")
      PROVE  Tidy'
  <2>1. UNCHANGED <<session, run, claim, boundVars, cur>>
    BY <1>3 DEF WriteEarly, RecordRunning
  <2>2. Quieter
    BY <2>1, FaultCounts DEF Tidy, Quieter
  <2>3. \/ pc \in {"claimed", "preparing", "prepared"} /\ pc' \in {"preparing", "prepare", "session"}
        \/ pc = "opened" /\ pc' = "turn"
    BY <1>3 DEF WriteEarly, RecordRunning
  <2> QED
    BY <2>1, <2>2, <2>3, TidyMove DEF InSession, InRun, InClaim, Step
<1>4. CASE WriteEarlyThrows
  <2>1. Faulted /\ faults' # 0 /\ unwritten'
    BY <1>4, FaultCounts, FaultSeen DEF WriteEarlyThrows, FaultKind
  <2>2. Quieter
    BY <1>4, <2>1 DEF Tidy, Quieter, WriteEarlyThrows, boardVars, runVars
  <2> QED
    BY <1>4, <2>1, <2>2, TidyEnd DEF WriteEarlyThrows, InSession
<1>5. CASE PrepareWorkspace
  <2>1. pc = "prepare" /\ pc' = "prepared" /\ cur' = cur /\ UNCHANGED <<session, claim, boundVars>>
    BY <1>5 DEF PrepareWorkspace
  <2> QED
    BY <1>0, <1>5, <2>1, TidyStart DEF Tidy, PrepareWorkspace, StatusStartRun, InSession, InRun, InClaim, Step
<1>6. ASSUME \/ PrepareThrows \/ StartSessionThrows
             \/ RecordRunningThrows("prepared", {"disk", "board"}, "other")
             \/ RecordRunningThrows("opened", {"disk"}, "runner")
      PROVE  Tidy'
  <2>1. Faulted
    BY <1>6, FaultCounts DEF PrepareThrows, StartSessionThrows, RecordRunningThrows, FaultKind
  <2>2. UNCHANGED <<session, run, claim, cur>>
    BY <1>6 DEF PrepareThrows, StartSessionThrows, RecordRunningThrows
  <2>3. Quieter
    BY <2>1, <2>2 DEF Tidy, Quieter
  <2>4. pc \in {"prepare", "session", "prepared", "opened"} /\ pc' = "catch"
    BY <1>6 DEF PrepareThrows, StartSessionThrows, RecordRunningThrows
  <2> QED
    BY <2>2, <2>3, <2>4, TidyMove DEF InSession, InRun, InClaim, Step
<1>7. CASE StartSession
  <2>1. pc = "session" /\ pc' = "opened" /\ cur' = cur /\ UNCHANGED <<claim, boundVars>>
    BY <1>7 DEF StartSession
  <2>2. DOMAIN session' = Attempt
        /\ \A a \in Attempt : session'[a] = "open" => session[a] = "open" \/ a = cur
    BY <1>7 DEF Tidy, StartSession
  <2> QED
    BY <1>0, <1>7, <2>1, <2>2, TidyStart DEF StartSession, StatusStartRun, InSession, InRun, InClaim, Step
<1> QED
  BY <1>1, <1>2, <1>3, <1>4, <1>5, <1>6, <1>7 DEF Prepare

LEMMA TidyTurns ==
    ASSUME HandoffInv, Tidy, Turns
    PROVE  Tidy'
<1>0. Shape
  BY DEF HandoffInv
<1> USE DEF From, Throw, runnerVars
<1>1. CASE StartTurn
  <2>1. pc = "turn" /\ pc' = "register" /\ cur' = cur /\ UNCHANGED <<session, claim, boundVars>>
    BY <1>1 DEF StartTurn
  <2> QED
    BY <1>0, <1>1, <2>1, TidyStart DEF Tidy, StartTurn, StatusStartRun, InSession, InRun, InClaim, Step
<1>2. CASE StartTurnThrows \/ RecordRunningThrows("register", {"disk"}, "runner")
  <2>1. Faulted
    BY <1>2, FaultCounts DEF StartTurnThrows, RecordRunningThrows, FaultKind
  <2>2. UNCHANGED <<session, run, claim, cur>>
    BY <1>2 DEF StartTurnThrows, RecordRunningThrows
  <2>3. Quieter
    BY <2>1, <2>2 DEF Tidy, Quieter
  <2>4. pc \in {"turn", "register"} /\ pc' = "catch"
    BY <1>2 DEF StartTurnThrows, RecordRunningThrows
  <2> QED
    BY <2>2, <2>3, <2>4, TidyMove DEF InSession, InRun, InClaim, Step
<1>3. CASE RegisterTurn \/ StreamCompletes \/ StreamContinues \/ StreamFails \/ StreamCancelled
  <2>1. UNCHANGED <<session, run, claim, boundVars, cur>>
    BY <1>3 DEF RegisterTurn, StreamCompletes, StreamContinues, StreamFails, StreamCancelled, StreamLeaves
  <2>2. Quieter
    BY <2>1, FaultCounts DEF Tidy, Quieter
  <2>3. pc \in {"register", "stream"} /\ pc' \in {"stream", "result", "turn", "catch"}
    BY <1>3 DEF RegisterTurn, StreamCompletes, StreamContinues, StreamFails, StreamCancelled
  <2> QED
    BY <2>1, <2>2, <2>3, TidyMove DEF InSession, InRun, InClaim, Step
<1> QED
  BY <1>1, <1>2, <1>3 DEF Turns

LEMMA TidyComplete ==
    ASSUME HandoffInv, Tidy, Complete
    PROVE  Tidy'
<1>0. Shape
  BY DEF HandoffInv
<1> USE DEF From, Throw, runnerVars
<1>1. ASSUME \/ PostResult \/ PostResultThrows \/ WriteProof \/ WriteProofThrows \/ StepsUnchecked
             \/ ApplyPolicy \/ PolicyFails \/ PostCompletionMarker \/ PostCompletionMarkerThrows
      PROVE  Tidy'
  <2>1. Faulted
    BY <1>1, FaultCounts DEF PostResult, PostResultThrows, WriteProof, WriteProofThrows, StepsUnchecked,
         ApplyPolicy, PolicyFails, PostCompletionMarker, PostCompletionMarkerThrows, FaultKind
  <2>2. UNCHANGED <<session, run, claim, cur>>
    BY <1>1 DEF PostResult, PostResultThrows, WriteProof, WriteProofThrows, StepsUnchecked,
         ApplyPolicy, PolicyFails, PostCompletionMarker, PostCompletionMarkerThrows, runVars
  <2>3. Quieter
    BY <2>1, <2>2 DEF Tidy, Quieter
  <2>4. /\ pc \in {"result", "proof", "policy", "marker"}
        /\ pc' \in {"proof", "policy", "marker", "finalize", "blocked", "catch"}
    BY <1>1 DEF PostResult, PostResultThrows, WriteProof, WriteProofThrows, StepsUnchecked,
         ApplyPolicy, PolicyFails, PostCompletionMarker, PostCompletionMarkerThrows
  <2> QED
    BY <2>2, <2>3, <2>4, TidyMove DEF InSession, InRun, InClaim, Step
<1>2. CASE FinalizeSession
  <2>1. /\ pc = "finalize" /\ pc' = "release" /\ cur' = cur /\ UNCHANGED claim
        /\ StopSession(cur)
        /\ run' = [run EXCEPT ![cur] = IF @ = "cancelled" THEN @ ELSE "completed"]
    BY <1>2 DEF FinalizeSession, Bucket
  <2>2. /\ Faulted /\ DOMAIN session' = Attempt
        /\ \A b \in Attempt : session'[b] = "open" => session[b] = "open" /\ b # cur
    BY <2>1, StopSessionQuiet
  <2> QED
    BY <1>0, <2>1, <2>2 DEF Shape, Tidy, Faulted, InClaim, Step
<1>3. CASE ReleaseCompleted
  <2>1. /\ pc = "release" /\ pc' \in {"cleanup", "handoff"} /\ cur' = cur /\ UNCHANGED <<session, run>>
        /\ \/ claim' = [claim EXCEPT ![cur] = "completed"]
           \/ Fault("board") /\ claim' \in {claim, [claim EXCEPT ![cur] = "completed"]}
    BY <1>3 DEF ReleaseCompleted
  <2>2. Faulted
    BY <1>3, FaultCounts DEF ReleaseCompleted, FaultKind
  <2>3. faults' # 0 \/ claim' = [claim EXCEPT ![cur] = "completed"]
    BY <2>1, FaultSeen
  <2> QED
    BY <1>0, <2>1, <2>2, <2>3 DEF Shape, Tidy, Faulted, InSession, InRun, InClaim
<1>4. CASE WriteCleanupStarted \/ CleanupWorkspace \/ Handoff
  <2>1. UNCHANGED <<session, run, claim, boundVars>>
    BY <1>4 DEF WriteCleanupStarted, CleanupWorkspace, Handoff, boardVars, runVars
  <2>2. Quieter
    BY <2>1, FaultCounts DEF Tidy, Quieter
  <2>3. pc \in {"cleanup", "remove", "handoff"}
    BY <1>4 DEF WriteCleanupStarted, CleanupWorkspace, Handoff
  <2> QED
    BY <2>2, <2>3, TidyEnd DEF InSession, InRun, InClaim
<1>5. CASE WriteCompletedThrows
  <2>1. Faulted /\ faults' # 0 /\ unwritten'
    BY <1>5, FaultCounts, FaultSeen DEF WriteCompletedThrows, FaultKind
  <2>2. Quieter
    BY <1>5, <2>1 DEF Tidy, Quieter, WriteCompletedThrows
  <2> QED
    BY <1>5, <2>1, <2>2, TidyEnd DEF WriteCompletedThrows, InSession
<1> QED
  BY <1>1, <1>2, <1>3, <1>4, <1>5 DEF Complete

LEMMA TidyFail ==
    ASSUME HandoffInv, Tidy, Fail
    PROVE  Tidy'
<1>0. Shape
  BY DEF HandoffInv
<1> USE DEF From, Throw, runnerVars
<1>1. CASE BlockCompletion \/ Catch
  <2>1. Faulted
    BY <1>1, FaultCounts DEF BlockCompletion, Catch, FaultKind
  <2>2. /\ pc \in {"blocked", "catch"} /\ pc' = "fail_finalize" /\ cur' = cur
        /\ UNCHANGED <<session, claim>>
        /\ run' = [run EXCEPT ![cur] = IF @ = "cancelled" THEN @ ELSE "failed"]
    BY <1>1 DEF BlockCompletion, Catch, Bucket
  <2> QED
    BY <1>0, <2>1, <2>2 DEF Shape, Tidy, Faulted, InSession, InClaim, Step
<1>2. CASE BlockCompletionThrows
  <2>1. Faulted
    BY <1>2, FaultCounts DEF BlockCompletionThrows, FaultKind
  <2>2. Quieter
    BY <1>2, <2>1 DEF Tidy, Quieter, BlockCompletionThrows
  <2> QED
    BY <1>2, <2>2, TidyMove DEF BlockCompletionThrows, InSession, InRun, InClaim, Step
<1>3. CASE FinalizeFailed
  <2>1. /\ pc = "fail_finalize" /\ pc' = "fail_write" /\ cur' = cur /\ UNCHANGED <<claim, run>>
        /\ StopSession(cur)
    BY <1>3 DEF FinalizeFailed
  <2>2. /\ Faulted /\ DOMAIN session' = Attempt
        /\ \A b \in Attempt : session'[b] = "open" => session[b] = "open" /\ b # cur
    BY <2>1, StopSessionQuiet
  <2> QED
    BY <2>1, <2>2 DEF Tidy, Faulted, InRun, InClaim, Step
<1>4. CASE WriteFailed
  <2>1. Quieter
    BY <1>4, FaultCounts DEF Tidy, Quieter, WriteFailed
  <2> QED
    BY <1>4, <2>1, TidyMove DEF WriteFailed, InSession, InRun, InClaim, Step
<1>5. CASE WriteFailedThrows
  <2>1. Faulted /\ faults' # 0 /\ unwritten'
    BY <1>5, FaultCounts, FaultSeen DEF WriteFailedThrows, FaultKind
  <2>2. Quieter
    BY <1>5, <2>1 DEF Tidy, Quieter, WriteFailedThrows
  <2> QED
    BY <1>5, <2>1, <2>2, TidyEnd DEF WriteFailedThrows, InSession
<1>6. CASE ReleaseFailed
  <2>1. /\ pc = "fail_release" /\ pc' = "idle" /\ UNCHANGED <<session, run>>
        /\ \/ claim' = [claim EXCEPT ![cur] = "failed"]
           \/ Fault("board") /\ claim' \in {claim, [claim EXCEPT ![cur] = "failed"]}
    BY <1>6 DEF ReleaseFailed, EndRun
  <2>2. Faulted
    BY <1>6, FaultCounts DEF ReleaseFailed, FaultKind
  <2>3. faults' # 0 \/ claim' = [claim EXCEPT ![cur] = "failed"]
    BY <2>1, FaultSeen
  <2> QED
    BY <1>0, <2>1, <2>2, <2>3 DEF Shape, Tidy, Faulted, InSession, InRun, InClaim
<1> QED
  BY <1>1, <1>2, <1>3, <1>4, <1>5, <1>6 DEF Fail

LEMMA TidyTimers ==
    ASSUME HandoffInv, Tidy, Timers
    PROVE  Tidy'
<1>1. Faulted
  BY FaultCounts DEF Timers, StallFires, StallCancels, RenewalFails, LeaseExpires, FaultKind
<1>2. /\ UNCHANGED <<session, run, pc, cur>>
      /\ claim' = claim \/ \E a \in Attempt : claim' = [claim EXCEPT ![a] = "expired"]
  BY DEF Timers, StallFires, StallCancels, RenewalFails, LeaseExpires, boardVars, tickVars, runVars, runnerVars
<1> QED
  BY <1>1, <1>2, TidyRest DEF HandoffInv, Shape, Tidy, Quieter

LEMMA TidyShutdown ==
    ASSUME HandoffInv, Tidy, Shutdown
    PROVE  Tidy'
<1>0. Shape
  BY DEF HandoffInv
<1>1. CASE \/ Stop \/ ReadRunningRun \/ NoRunningRun \/ WriteVictim \/ WriteVictimThrows \/ Recover
  <2>1. Faulted
    BY <1>1, FaultCounts DEF Stop, ReadRunningRun, NoRunningRun, WriteVictim, WriteVictimThrows, Recover, FaultKind
  <2>2. UNCHANGED <<session, run, claim, pc, cur>>
    BY <1>1 DEF Stop, ReadRunningRun, NoRunningRun, WriteVictim, WriteVictimThrows, Recover,
                boardVars, tickVars, runVars, runnerVars
  <2> QED
    BY <2>1, <2>2, TidyRest DEF Tidy, Quieter
<1>2. CASE StopVictimSession
  <2>1. UNCHANGED <<run, claim, pc, cur>>
    BY <1>2 DEF StopVictimSession, boardVars, tickVars, runVars
  <2>2. CASE victim.session
    <3>1. StopSession(victim.attempt)
      BY <1>2, <2>2 DEF StopVictimSession
    <3> QED
      BY <2>1, <3>1, StopSessionQuiet, TidyRest DEF Quieter
  <2>3. CASE ~victim.session
    BY <1>2, <2>1, <2>3, FaultCounts, TidyRest DEF StopVictimSession, Tidy, Quieter
  <2> QED
    BY <2>2, <2>3
<1>3. CASE ReleaseVictim
  <2>1. Faulted
    BY <1>3, FaultCounts DEF ReleaseVictim, FaultKind
  <2>2. /\ UNCHANGED <<session, pc, cur>>
        /\ run' = [run EXCEPT ![victim.attempt] = "cancelled"]
        /\ claim' \in {claim, [claim EXCEPT ![victim.attempt] = "cancelled"]}
    BY <1>3 DEF ReleaseVictim, tickVars, runnerVars
  <2> QED
    BY <1>0, <2>1, <2>2, TidyRest DEF Shape, Tidy, Quieter
<1>4. CASE Crash
  <2>1. Faulted /\ faults' # 0
    BY <1>4, FaultCounts, FaultSeen DEF Crash, FaultKind
  <2> QED
    BY <1>4, <2>1 DEF Crash, LoseMemory, Tidy, Faulted
<1>5. CASE Exit
  <2>1. Faulted
    BY <1>5, FaultCounts DEF Exit
  <2>2. pc = "idle" /\ UNCHANGED claim
    BY <1>5 DEF Exit, LoseMemory, boardVars
  <2> QED
    BY <1>0, <1>5, <2>1, <2>2 DEF Exit, LoseMemory, Shape, Tidy, Faulted, InClaim
<1> QED
  BY <1>1, <1>2, <1>3, <1>4, <1>5 DEF Shutdown

LEMMA TidyStep == HandoffInv /\ Tidy /\ [Next]_vars => Tidy'
<1> SUFFICES ASSUME HandoffInv, Tidy, [Next]_vars
             PROVE  Tidy'
  OBVIOUS
<1>1. CASE HumanMovesCard \/ HumanAsksRerun \/ UNCHANGED vars
  BY <1>1, TidyRest DEF Tidy, Quieter, Faulted, HumanMovesCard, HumanAsksRerun, Human, vars,
       boardVars, tickVars, runVars, runnerVars, boundVars
<1> QED
  BY <1>1, TidyDispatch, TidyPrepare, TidyTurns, TidyComplete, TidyFail, TidyTimers, TidyShutdown
     DEF Next, RunCard

LEMMA TidyAlways == Spec => []Tidy
<1>1. Init => HandoffInv /\ Tidy
  BY HandoffInit, TidyInit
<1>2. (HandoffInv /\ Tidy) /\ [Next]_vars => (HandoffInv /\ Tidy)'
  BY HandoffStep, TidyStep
<1> QED
  BY <1>1, <1>2, PTL DEF Spec

(* Whatever ends a run (its outcome, a stall, stop(), a crash), no app-server
   session is left open behind it: an open session is that of the attempt
   runCard works on, for any number of attempts, turns and faults. *)
THEOREM SessionsEnd == Spec => []NoStraySession
<1>1. Tidy => NoStraySession
  BY DEF Tidy, NoStraySession
<1> QED
  BY <1>1, TidyAlways, PTL

(* When a tick is over, no run is left in the running bucket unless a write
   failed, and without a fault no claim is left live: every path through
   runCard ends with the bucket set and the claim released. *)
THEOREM TicksLeaveNothing == Spec => []TickLeavesNothing
<1>1. Tidy => TickLeavesNothing
  BY DEF Tidy, TickLeavesNothing, InRun, InSession, InClaim
<1> QED
  BY <1>1, TidyAlways, PTL
=============================================================================
