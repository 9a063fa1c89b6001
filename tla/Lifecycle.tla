----------------------------- MODULE Lifecycle ------------------------------
(***************************************************************************)
(* One daemon and one card, from dispatch to handoff, over several         *)
(* attempts.  The module composes                                          *)
(*                                                                         *)
(*   - runReconciliationTick, reconcileActiveRuns, runCard and             *)
(*     runSameThreadTurns (src/reconciler.js);                             *)
(*   - activeRuns, the retry queue and the stall timer                     *)
(*     (src/orchestrator-state.js);                                        *)
(*   - the run buckets of the status store (src/status.js);                *)
(*   - stop, cancelActiveRuns and the cancellable runner (src/daemon.js);  *)
(*   - startup recovery (src/recovery.js) and the attempt files it reads.  *)
(*                                                                         *)
(* Ticks do not overlap (Scheduler) and a tick awaits runCard, so at most  *)
(* one runCard is in progress; timers, people and stop() act between its   *)
(* awaits.  An action is what an awaited call does and the code that       *)
(* follows, up to the next await.  A claim is reduced to what its last     *)
(* comment says; how claims compete is the subject of Claims.              *)
(***************************************************************************)
EXTENDS Naturals, Sequences

CONSTANTS MaxAttempts,  \* bound: attempts at the card
          MaxTurns,     \* agent.max_turns
          Moves,        \* TRUE: the completion policy moves the card; FALSE: comment_once
          Faults,       \* the kinds of fault that may happen
          MaxFaults,    \* bound: faults in a behaviour
          MaxHuman      \* bound: what people do to the card in a behaviour

FaultKind == {"disk", "board", "runner", "workspace", "crash", "stop"}

ASSUME LifecycleAssumption ==
    /\ MaxAttempts \in Nat \ {0}
    /\ MaxTurns \in Nat \ {0}
    /\ Moves \in BOOLEAN
    /\ Faults \subseteq FaultKind
    /\ MaxFaults \in Nat
    /\ MaxHuman \in Nat

Attempt == 1..MaxAttempts
Turn    == 1..MaxTurns
None    == 0     \* no attempt, no turn

VARIABLES
    (* the board *)
    place,       \* the card is open in the routed column, or elsewhere
    tag,         \* the card carries agent-rerun
    completions, \* the attempts whose completion marker is on the card
    failures,    \* the attempts whose failure marker is on the card
    results,     \* the attempts whose result comment is on the card
    claim,       \* what the last claim comment of an attempt says
    (* the disk *)
    record,      \* status in the attempt's file under state_dir/runs
    proof,       \* the attempts whose proof file is written
    workspace,   \* the card's worktree exists
    (* the local variables of the tick and of runCard *)
    pc,          \* the call being awaited
    cur,         \* the attempt runCard works on
    cand,        \* the candidate: the card as it was read, and the retry it came from
    turn,        \* the last turn that was started
    failing,     \* why the attempt fails
    (* the orchestrator *)
    active,      \* activeRuns: the turn whose run object is there
    timers,      \* stall timers that are set
    stalling,    \* stall timers that fired and await runner.cancel
    retries,     \* retryQueue
    (* the status store *)
    run,         \* the bucket a run is in
    card,        \* the card a run was given
    parent,      \* history: the attempt this one retries
    attempts,    \* attempts so far
    (* the runner *)
    session,     \* the app-server session of an attempt
    interrupted, \* turns the cancellable runner was told to cancel
    (* the process *)
    daemon,      \* up, down, stopped, or the call stop() awaits
    victim,      \* the run stop() is cancelling, as it was when stop() read it
    (* bounds *)
    faults, human,
    (* a witness for the properties *)
    unwritten    \* a write to the disk has failed

boardVars  == <<place, tag, completions, failures, results, claim>>
diskVars   == <<record, proof, workspace>>
tickVars   == <<pc, cur, cand, turn, failing>>
orchVars   == <<active, timers, stalling, retries>>
runVars    == <<run, card, parent, attempts>>
runnerVars == <<session, interrupted>>
procVars   == <<daemon, victim>>
boundVars  == <<faults, human, unwritten>>
vars == <<boardVars, diskVars, tickVars, orchVars, runVars, runnerVars,
          procVars, boundVars>>

Card  == [tag : BOOLEAN, marked : BOOLEAN]
Cand  == [from : Attempt \cup {None}, card : Card]
Retry == [from : Attempt, consumed : BOOLEAN]

Terminal     == {"completed", "failed", "cancelled"}
ClaimStatus  == {"none", "live", "expired"} \cup Terminal
RunStatus    == {"none", "running"} \cup Terminal
RecordStatus == {"none", "claimed", "preparing_workspace", "running",
                 "cleanup_started", "interrupted"} \cup Terminal
Session      == {"none", "open", "stopped", "left"}
Why          == {"none", "runner", "cancelled", "worktree", "other", "blocked"}

Step == {"idle", "listed", "untag",
         "claimed", "preparing", "prepare", "prepared", "session", "opened", "turn",
         "register", "stream", "result", "proof", "policy", "marker", "finalize",
         "release", "cleanup", "remove", "handoff",
         "blocked", "catch", "fail_finalize", "fail_write", "fail_release"}

Victim == [attempt : Attempt \cup {None}, turn : Turn \cup {None}, session : BOOLEAN]
Stopping == {"stopping", "stop_session", "stop_release", "stop_write"}

NoCard   == [tag |-> FALSE, marked |-> FALSE]
NoCand   == [from |-> None, card |-> NoCard]
NoVictim == [attempt |-> None, turn |-> None, session |-> FALSE]

Init ==
    /\ place = "routed" /\ tag = FALSE
    /\ completions = {} /\ failures = {} /\ results = {}
    /\ claim = [a \in Attempt |-> "none"]
    /\ record = [a \in Attempt |-> "none"] /\ proof = {} /\ workspace = FALSE
    /\ pc = "idle" /\ cur = None /\ cand = NoCand /\ turn = None /\ failing = "none"
    /\ active = [a \in Attempt |-> None]
    /\ timers = {} /\ stalling = {} /\ retries = <<>>
    /\ run = [a \in Attempt |-> "none"]
    /\ card = [a \in Attempt |-> NoCard]
    /\ parent = [a \in Attempt |-> None]
    /\ attempts = 0
    /\ session = [a \in Attempt |-> "none"] /\ interrupted = {}
    /\ daemon = "up" /\ victim = NoVictim
    /\ faults = 0 /\ human = 0 /\ unwritten = FALSE

Fault(kind) ==
    /\ kind \in Faults
    /\ faults < MaxFaults
    /\ faults' = faults + 1
    /\ unwritten' = (unwritten \/ kind = "disk")
    /\ UNCHANGED human

(* A call that fails may have had its effect, the answer being lost. *)
Maybe(set) == {set, set \cup {cur}}

-----------------------------------------------------------------------------
(***************************************************************************)
(* A tick up to the claim.  Active runs are reconciled first: a run whose  *)
(* claim can no longer be renewed, or whose card left its column, is       *)
(* cancelled (cancelStatusRun).  Since the tick awaits runCard, the only   *)
(* running runs a tick can see are those whose runCard threw.              *)
(***************************************************************************)
Leaked(a) == pc = "idle" /\ run[a] = "running"

MustCancel(a) == Leaked(a) /\ (claim[a] # "live" \/ place # "routed")

ReconcileActiveRun(a) ==
    /\ daemon = "up"
    /\ MustCancel(a)
    /\ run' = [run EXCEPT ![a] = "cancelled"]
    /\ record' = [record EXCEPT ![a] = "cancelled"]
    /\ claim' = [claim EXCEPT ![a] = "cancelled"]
    /\ UNCHANGED <<place, tag, completions, failures, results, proof, workspace, tickVars,
                   orchVars, card, parent, attempts, runnerVars, procVars, boundVars>>

(***************************************************************************)
(* cancelStatusRun throws: the claim has been released as cancelled, but   *)
(* the run stays in "running" when the comment on the card fails, and its  *)
(* file as it was when the write does.                                     *)
(***************************************************************************)
ReconcileThrows(a) ==
    /\ daemon = "up"
    /\ MustCancel(a)
    /\ claim' = [claim EXCEPT ![a] = "cancelled"]
    /\ \/ Fault("board") /\ UNCHANGED run
       \/ Fault("disk") /\ run' = [run EXCEPT ![a] = "cancelled"]
    /\ UNCHANGED <<place, tag, completions, failures, results, diskVars, tickVars, orchVars,
                   card, parent, attempts, runnerVars, procVars>>

(***************************************************************************)
(* routeCard, for an open card in the routed column: a completion or a     *)
(* failure marker blocks it unless it carries agent-rerun.  (A live claim  *)
(* blocks it too; the comments a retry carries show none.)                 *)
(***************************************************************************)
Eligible(c) == c.tag \/ ~c.marked

(***************************************************************************)
(* What createCapacityTracker counts; max_concurrent is 1.                 *)
(***************************************************************************)
Busy == {a \in Attempt : run[a] = "running" \/ active[a] # None}

TickReads(candidate) ==
    /\ daemon = "up" /\ pc = "idle"
    /\ attempts < MaxAttempts
    /\ Busy = {}
    /\ \A a \in Attempt : ~MustCancel(a)
    /\ Eligible(candidate.card)
    /\ cand' = candidate
    /\ pc' = "listed"
    /\ UNCHANGED <<boardVars, diskVars, cur, turn, failing, orchVars, runVars,
                   runnerVars, procVars, boundVars>>

(***************************************************************************)
(* The card as discovered and hydrated with its comments.                  *)
(***************************************************************************)
CardOnBoard == [tag |-> tag, marked |-> completions \cup failures # {}]

Claimed == \E a \in Attempt : claim[a] = "live"

DiscoverCard ==
    /\ place = "routed" /\ ~Claimed
    /\ TickReads([from |-> None, card |-> CardOnBoard])

(***************************************************************************)
(* mergeRetryCandidates: a ready retry takes the place of the discovered   *)
(* card.  Its card has a comments array, so hydrateCardForRouting does not *)
(* read the board again.  The backoff may have passed or not.              *)
(***************************************************************************)
MergeRetry ==
    \E i \in DOMAIN retries :
        /\ ~retries[i].consumed
        /\ TickReads([from |-> retries[i].from, card |-> card[retries[i].from]])

TickIgnores ==
    /\ daemon = "up" /\ pc = "idle"
    /\ \A a \in Attempt : ~MustCancel(a)
    /\ \/ place # "routed" \/ Claimed \/ ~Eligible(CardOnBoard)
       \/ Busy # {} \/ attempts = MaxAttempts
    /\ UNCHANGED vars

(***************************************************************************)
(* The run and attempt a retry names are those of the attempt it came      *)
(* from; consumeRetry takes the first entry that names them.               *)
(***************************************************************************)
Consumed(queue, from) ==
    LET same == {i \in DOMAIN queue : queue[i].from = from}
    IN  [i \in DOMAIN queue |->
            IF i \in same /\ \A j \in same : i <= j
            THEN [queue[i] EXCEPT !.consumed = TRUE]
            ELSE queue[i]]

DropCandidate ==
    /\ pc' = "idle" /\ cand' = NoCand
    /\ UNCHANGED <<cur, turn, failing>>

ClaimBlocked ==
    /\ pc = "listed"
    /\ Claimed
    /\ DropCandidate
    /\ UNCHANGED <<boardVars, diskVars, orchVars, runVars, runnerVars, procVars, boundVars>>

MayAcquire == pc = "listed" /\ ~Claimed

(***************************************************************************)
(* acquire throws, before or after its comment reached the board.          *)
(***************************************************************************)
AcquireThrows ==
    /\ MayAcquire
    /\ Fault("board")
    /\ \/ UNCHANGED <<claim, attempts>>
       \/ /\ attempts' = attempts + 1
          /\ claim' = [claim EXCEPT ![attempts'] = "live"]
    /\ DropCandidate
    /\ UNCHANGED <<place, tag, completions, failures, results, diskVars, orchVars, run, card,
                   parent, runnerVars, procVars>>

(***************************************************************************)
(* acquire, then consumeRetry.  A rerun goes on to remove its tag;         *)
(* otherwise runCard starts and status.startRun puts the run in "running". *)
(***************************************************************************)
Acquire ==
    LET a == attempts + 1
    IN  /\ MayAcquire
        /\ attempts' = a
        /\ cur' = a
        /\ claim' = [claim EXCEPT ![a] = "live"]
        /\ card' = [card EXCEPT ![a] = cand.card]
        /\ parent' = [parent EXCEPT ![a] = cand.from]
        /\ retries' = IF cand.from = None THEN retries ELSE Consumed(retries, cand.from)
        /\ pc' = IF cand.card.tag THEN "untag" ELSE "claimed"
        /\ run' = IF cand.card.tag THEN run ELSE [run EXCEPT ![a] = "running"]
        /\ UNCHANGED <<place, tag, completions, failures, results, diskVars, cand, turn,
                       failing, active, timers, stalling, runnerVars, procVars,
                       boundVars>>

EndRun ==
    /\ pc' = "idle" /\ cur' = None /\ cand' = NoCand
    /\ turn' = None /\ failing' = "none"

(***************************************************************************)
(* consumeRerunSignal.  When removeTag throws, the tick ends with the      *)
(* claim on the board and no run behind it.                                *)
(***************************************************************************)
RemoveTag ==
    /\ pc = "untag"
    /\ tag' = FALSE
    /\ run' = [run EXCEPT ![cur] = "running"]
    /\ pc' = "claimed"
    /\ UNCHANGED <<place, completions, failures, results, claim, diskVars, cur, cand, turn,
                   failing, orchVars, card, parent, attempts, runnerVars, procVars, boundVars>>

RemoveTagThrows ==
    /\ pc = "untag"
    /\ Fault("board")
    /\ tag' \in {tag, FALSE}
    /\ EndRun
    /\ UNCHANGED <<place, completions, failures, results, claim, diskVars, orchVars, runVars,
                   runnerVars, procVars>>

-----------------------------------------------------------------------------
(***************************************************************************)
(* runCard up to the first turn.  The first two writes are outside its     *)
(* try: when one throws the tick ends and the run stays in "running".      *)
(***************************************************************************)
From(here, there) ==
    /\ pc = here
    /\ pc' = there
    /\ UNCHANGED <<cur, cand, turn, failing>>

Throw(here, why) ==
    /\ pc = here
    /\ pc' = "catch"
    /\ failing' = why
    /\ UNCHANGED <<cur, cand, turn>>

(* What most steps of runCard leave alone. *)
Elsewhere == UNCHANGED <<place, tag, card, parent, attempts, procVars>>

Write(status) == record' = [record EXCEPT ![cur] = status]

(***************************************************************************)
(* status.startRun: whatever bucket the run is in, it is put in "running". *)
(***************************************************************************)
StatusStartRun == run' = [run EXCEPT ![cur] = "running"]

WriteEarly(here, status, there) ==
    /\ From(here, there)
    /\ Write(status)
    /\ Elsewhere
    /\ UNCHANGED <<completions, failures, results, claim, proof, workspace, orchVars, run,
                   runnerVars, boundVars>>

WriteEarlyThrows ==
    /\ pc \in {"claimed", "preparing"}
    /\ Fault("disk")
    /\ EndRun
    /\ UNCHANGED <<boardVars, diskVars, orchVars, runVars, runnerVars, procVars>>

PrepareWorkspace ==
    /\ From("prepare", "prepared")
    /\ workspace' = TRUE
    /\ StatusStartRun
    /\ Elsewhere
    /\ UNCHANGED <<completions, failures, results, claim, record, proof, orchVars,
                   runnerVars, boundVars>>

(***************************************************************************)
(* prepare or the workflow loader throws; a dirty, stale or uncreatable    *)
(* worktree is reported on the card, anything else is not.                 *)
(***************************************************************************)
PrepareThrows ==
    /\ Fault("workspace")
    /\ \E why \in {"worktree", "other"} : Throw("prepare", why)
    /\ workspace' \in {workspace, TRUE}
    /\ Elsewhere
    /\ UNCHANGED <<completions, failures, results, claim, record, proof, orchVars, run,
                   runnerVars>>

(***************************************************************************)
(* The writes of a "running" record: after prepare, with the first         *)
(* workpad comment, and after startSession.                                *)
(***************************************************************************)
RecordRunning(here, there) ==
    /\ From(here, there)
    /\ Write("running")
    /\ Elsewhere
    /\ UNCHANGED <<completions, failures, results, claim, proof, workspace, orchVars, run,
                   runnerVars, boundVars>>

RecordRunningThrows(here, kinds, why) ==
    /\ \E kind \in kinds : Fault(kind)
    /\ Throw(here, why)
    /\ record' \in {record, [record EXCEPT ![cur] = "running"]}
    /\ Elsewhere
    /\ UNCHANGED <<completions, failures, results, claim, proof, workspace, orchVars, run,
                   runnerVars>>

StartSession ==
    /\ From("session", "opened")
    /\ session' = [session EXCEPT ![cur] = "open"]
    /\ StatusStartRun
    /\ Elsewhere
    /\ UNCHANGED <<completions, failures, results, claim, diskVars, orchVars, interrupted,
                   boundVars>>

StartSessionThrows ==
    /\ Fault("runner")
    /\ Throw("session", "runner")
    /\ Elsewhere
    /\ UNCHANGED <<completions, failures, results, claim, diskVars, orchVars, run, runnerVars>>

-----------------------------------------------------------------------------
(***************************************************************************)
(* runSameThreadTurns.  Each turn is registered with the orchestrator,     *)
(* which replaces the run object and sets another stall timer; the timer   *)
(* of the turn before stays set.                                           *)
(***************************************************************************)
StartTurn ==
    /\ pc = "turn"
    /\ session[cur] = "open"
    /\ turn' = turn + 1
    /\ pc' = "register"
    /\ StatusStartRun
    /\ Elsewhere
    /\ UNCHANGED <<cur, cand, failing, completions, failures, results, claim, diskVars,
                   orchVars, runnerVars, boundVars>>

StartTurnThrows ==
    /\ Throw("turn", "runner")
    /\ Fault("runner") \/ (session[cur] # "open" /\ UNCHANGED boundVars)
    /\ Elsewhere
    /\ UNCHANGED <<completions, failures, results, claim, diskVars, orchVars, run, runnerVars>>

RegisterTurn ==
    /\ From("register", "stream")
    /\ Write("running")
    /\ active' = [active EXCEPT ![cur] = turn]
    /\ timers' = timers \cup {<<cur, turn>>}
    /\ Elsewhere
    /\ UNCHANGED <<completions, failures, results, claim, proof, workspace, stalling, retries,
                   run, runnerVars, boundVars>>

StreamLeaves == Elsewhere /\ UNCHANGED <<completions, failures, results, claim, diskVars,
                                         orchVars, run, runnerVars, boundVars>>

(***************************************************************************)
(* The cancellable runner: a turn it was told to cancel does not complete. *)
(***************************************************************************)
Interrupted == <<cur, turn>> \in interrupted

StreamCompletes ==
    /\ From("stream", "result")
    /\ session[cur] = "open" /\ ~Interrupted
    /\ StreamLeaves

StreamContinues ==
    /\ From("stream", "turn")
    /\ session[cur] = "open" /\ ~Interrupted
    /\ turn < MaxTurns
    /\ StreamLeaves

(***************************************************************************)
(* The turn fails, times out, or asks for a turn beyond max_turns.         *)
(***************************************************************************)
StreamFails ==
    /\ Throw("stream", "runner")
    /\ StreamLeaves

StreamCancelled ==
    /\ Interrupted
    /\ Throw("stream", "cancelled")
    /\ StreamLeaves

-----------------------------------------------------------------------------
(***************************************************************************)
(* Completion.  after_run, the card refreshed and the result comment       *)
(* posted; proof; policy; marker.                                          *)
(***************************************************************************)
PostResult ==
    /\ From("result", "proof")
    /\ results' = results \cup {cur}
    /\ Elsewhere
    /\ UNCHANGED <<completions, failures, claim, diskVars, orchVars, run, runnerVars, boundVars>>

PostResultThrows ==
    /\ \E kind \in {"board", "workspace", "disk"} : Fault(kind)
    /\ Throw("result", "other")
    /\ results' \in Maybe(results)
    /\ Elsewhere
    /\ UNCHANGED <<completions, failures, claim, diskVars, orchVars, run, runnerVars>>

WriteProof ==
    /\ From("proof", "policy")
    /\ proof' = proof \cup {cur}
    /\ Elsewhere
    /\ UNCHANGED <<completions, failures, results, claim, record, workspace, orchVars, run,
                   runnerVars, boundVars>>

WriteProofThrows ==
    /\ Fault("disk")
    /\ Throw("proof", "other")
    /\ Elsewhere
    /\ UNCHANGED <<completions, failures, results, claim, diskVars, orchVars, run, runnerVars>>

StepsUnchecked ==
    /\ From("policy", "blocked")
    /\ Elsewhere
    /\ UNCHANGED <<completions, failures, results, claim, diskVars, orchVars, run, runnerVars,
                   boundVars>>

AppliedPlace == IF Moves THEN "elsewhere" ELSE place

ApplyPolicy ==
    /\ From("policy", "marker")
    /\ place' = AppliedPlace
    /\ UNCHANGED <<tag, completions, failures, results, claim, diskVars, orchVars, runVars,
                   runnerVars, procVars, boundVars>>

PolicyFails ==
    /\ Moves
    /\ Fault("board")
    /\ From("policy", "blocked")
    /\ place' \in {place, AppliedPlace}
    /\ UNCHANGED <<tag, completions, failures, results, claim, diskVars, orchVars, runVars,
                   runnerVars, procVars>>

PostCompletionMarker ==
    /\ From("marker", "finalize")
    /\ completions' = completions \cup {cur}
    /\ Elsewhere
    /\ UNCHANGED <<failures, results, claim, diskVars, orchVars, run, runnerVars, boundVars>>

(* Slip: the marker is posted on a best-effort basis. *)
PostCompletionMarkerSwallowed ==
    /\ Fault("board")
    /\ From("marker", "finalize")
    /\ completions' \in Maybe(completions)
    /\ Elsewhere
    /\ UNCHANGED <<failures, results, claim, diskVars, orchVars, run, runnerVars>>

PostCompletionMarkerThrows ==
    /\ Fault("board")
    /\ Throw("marker", "other")
    /\ completions' \in Maybe(completions)
    /\ Elsewhere
    /\ UNCHANGED <<failures, results, claim, diskVars, orchVars, run, runnerVars>>

(***************************************************************************)
(* finalizeRunnerSession.  A session that cannot be stopped or terminated  *)
(* is left; one that stop() has stopped is only reported.                  *)
(***************************************************************************)
StopSession(a) ==
    \/ /\ session' = [session EXCEPT ![a] = IF @ = "open" THEN "stopped" ELSE @]
       /\ UNCHANGED boundVars
    \/ /\ session[a] = "open"
       /\ Fault("runner")
       /\ session' = [session EXCEPT ![a] = "left"]

(* Slip: a run that has failed stays where it is. *)
BucketNoFailure(a, status) ==
    run' = IF status = "failed" THEN run ELSE [run EXCEPT ![a] = status]

(* completeRun and failRun of the status store leave a cancelled run alone. *)
Bucket(a, status) == run' = [run EXCEPT ![a] = IF @ = "cancelled" THEN @ ELSE status]

FinalizeSession ==
    /\ From("finalize", "release")
    /\ StopSession(cur)
    /\ Bucket(cur, "completed")
    /\ Elsewhere
    /\ UNCHANGED <<completions, failures, results, claim, diskVars, orchVars, interrupted>>

(***************************************************************************)
(* The orchestrator drops a run; only the timer of the run object it has   *)
(* is cleared.                                                             *)
(***************************************************************************)
DropActive(a) ==
    /\ active' = [active EXCEPT ![a] = None]
    /\ timers' = timers \ {<<a, active[a]>>}

(* Slip: the cleanup does not look at the outcome of the release. *)
ReleaseCompletedUnseen ==
    /\ \E there \in {"cleanup", "handoff"} : From("release", there)
    /\ \/ claim' = [claim EXCEPT ![cur] = "completed"] /\ UNCHANGED boundVars
       \/ Fault("board") /\ claim' \in {claim, [claim EXCEPT ![cur] = "completed"]}
    /\ DropActive(cur)
    /\ Elsewhere
    /\ UNCHANGED <<completions, failures, results, diskVars, stalling, retries, run,
                   runnerVars>>

(***************************************************************************)
(* release does not throw.  The cleanup goes on only after a release that  *)
(* was acknowledged, and if the handoff is complete and policy allows it.  *)
(***************************************************************************)
ReleaseCompleted ==
    /\ \/ /\ \E there \in {"cleanup", "handoff"} : From("release", there)
          /\ claim' = [claim EXCEPT ![cur] = "completed"]
          /\ UNCHANGED boundVars
       \/ /\ From("release", "handoff")
          /\ Fault("board")
          /\ claim' \in {claim, [claim EXCEPT ![cur] = "completed"]}
    /\ DropActive(cur)
    /\ Elsewhere
    /\ UNCHANGED <<completions, failures, results, diskVars, stalling, retries, run,
                   runnerVars>>

WriteCleanupStarted ==
    /\ From("cleanup", "remove")
    /\ Write("cleanup_started")
    /\ Elsewhere
    /\ UNCHANGED <<completions, failures, results, claim, proof, workspace, orchVars, run,
                   runnerVars, boundVars>>

(***************************************************************************)
(* workspaceManager.cleanup removes the worktree, preserves it or throws.  *)
(***************************************************************************)
CleanupWorkspace ==
    /\ From("remove", "handoff")
    /\ workspace' \in {workspace, FALSE}
    /\ Elsewhere
    /\ UNCHANGED <<completions, failures, results, claim, record, proof, orchVars, run,
                   runnerVars, boundVars>>

Handoff ==
    /\ pc = "handoff"
    /\ Write("completed")
    /\ EndRun
    /\ UNCHANGED <<boardVars, proof, workspace, orchVars, runVars, runnerVars, procVars,
                   boundVars>>

WriteCompletedThrows ==
    /\ Fault("disk")
    /\ \E here \in {"cleanup", "handoff"} : Throw(here, "other")
    /\ Elsewhere
    /\ UNCHANGED <<completions, failures, results, claim, diskVars, orchVars, run, runnerVars>>

-----------------------------------------------------------------------------
(***************************************************************************)
(* Failure.  recordFailure of the orchestrator schedules a retry while     *)
(* attempt_number is below 3.  runCard takes attempt_number from the       *)
(* claim, and claims do not carry one.                                     *)
(***************************************************************************)
AttemptNumber(a) == 1

ScheduleRetry(a) == retries' = Append(retries, [from |-> a, consumed |-> FALSE])

RecordFailure(a, retryable) ==
    /\ DropActive(a)
    /\ IF active[a] # None /\ retryable /\ AttemptNumber(a) < 3
       THEN ScheduleRetry(a)
       ELSE UNCHANGED retries
    /\ UNCHANGED <<stalling>>

(***************************************************************************)
(* Steps unchecked or policy failed: the failure marker, then failRun and  *)
(* recordFailure.  When the marker cannot be posted, runCard's catch takes *)
(* over.                                                                   *)
(***************************************************************************)
BlockCompletion ==
    /\ pc = "blocked"
    /\ pc' = "fail_finalize" /\ failing' = "blocked"
    /\ failures' = failures \cup {cur}
    /\ Bucket(cur, "failed")
    /\ RecordFailure(cur, FALSE)
    /\ Elsewhere
    /\ UNCHANGED <<cur, cand, turn, completions, results, claim, diskVars, runnerVars, boundVars>>

BlockCompletionThrows ==
    /\ Fault("board")
    /\ Throw("blocked", "other")
    /\ failures' \in Maybe(failures)
    /\ Elsewhere
    /\ UNCHANGED <<completions, results, claim, diskVars, orchVars, run, runnerVars>>

(***************************************************************************)
(* The catch block: a failure marker for what the runner or the worktree   *)
(* did, then recordFailure and failRun.  Only a runner failure that is not *)
(* a cancellation is retried.  A failure of the marker is swallowed.       *)
(***************************************************************************)
Marked == failing \in {"runner", "cancelled", "worktree"}

Catch ==
    /\ From("catch", "fail_finalize")
    /\ \/ failures' = (IF Marked THEN failures \cup {cur} ELSE failures) /\ UNCHANGED boundVars
       \/ Marked /\ Fault("board") /\ failures' \in Maybe(failures)
    /\ Bucket(cur, "failed")
    /\ RecordFailure(cur, failing = "runner")
    /\ Elsewhere
    /\ UNCHANGED <<completions, results, claim, diskVars, runnerVars>>

(* Slip: the session of a failed run is not stopped. *)
FinalizeFailedLeavesSession ==
    /\ From("fail_finalize", "fail_write")
    /\ Elsewhere
    /\ UNCHANGED <<completions, failures, results, claim, diskVars, orchVars, run, runnerVars,
                   boundVars>>

FinalizeFailed ==
    /\ From("fail_finalize", "fail_write")
    /\ StopSession(cur)
    /\ Elsewhere
    /\ UNCHANGED <<completions, failures, results, claim, diskVars, orchVars, run, interrupted>>

WriteFailed ==
    /\ From("fail_write", "fail_release")
    /\ Write("failed")
    /\ Elsewhere
    /\ UNCHANGED <<completions, failures, results, claim, proof, workspace, orchVars, run,
                   runnerVars, boundVars>>

(***************************************************************************)
(* In the try block the catch takes over; in the catch block runCard       *)
(* rejects and the claim is not released.                                  *)
(***************************************************************************)
WriteFailedThrows ==
    /\ Fault("disk")
    /\ IF failing = "blocked" THEN Throw("fail_write", "other")
                              ELSE pc = "fail_write" /\ EndRun
    /\ Elsewhere
    /\ UNCHANGED <<completions, failures, results, claim, diskVars, orchVars, run, runnerVars>>

(* Slip: the claim of a cancelled run is left to expire. *)
ReleaseFailedUnlessCancelled ==
    /\ pc = "fail_release"
    /\ claim' = IF failing = "cancelled" THEN claim ELSE [claim EXCEPT ![cur] = "failed"]
    /\ EndRun
    /\ Elsewhere
    /\ UNCHANGED <<completions, failures, results, diskVars, orchVars, run, runnerVars,
                   boundVars>>

ReleaseFailed ==
    /\ pc = "fail_release"
    /\ \/ claim' = [claim EXCEPT ![cur] = "failed"] /\ UNCHANGED boundVars
       \/ Fault("board") /\ claim' \in {claim, [claim EXCEPT ![cur] = "failed"]}
    /\ EndRun
    /\ Elsewhere
    /\ UNCHANGED <<completions, failures, results, diskVars, orchVars, run, runnerVars>>

-----------------------------------------------------------------------------
(***************************************************************************)
(* The orchestrator's timers.  A stall timer looks for the run of its      *)
(* attempt, whatever its turn, and cancels the turn it was set for;        *)
(* cancelRun drops the run and schedules the retry when runner.cancel has  *)
(* answered.                                                               *)
(***************************************************************************)
StallFires ==
    \E timer \in timers :
        /\ IF active[timer[1]] # None
           THEN /\ stalling' = stalling \cup {timer}
                /\ interrupted' = interrupted \cup {timer}
           ELSE UNCHANGED <<stalling, interrupted>>
        /\ timers' = timers \ {timer}
        /\ UNCHANGED <<boardVars, diskVars, tickVars, active, retries, runVars, session,
                       procVars, boundVars>>

StallCancels ==
    \E timer \in stalling :
        /\ stalling' = stalling \ {timer}
        /\ active' = [active EXCEPT ![timer[1]] = None]
        /\ ScheduleRetry(timer[1])
        /\ UNCHANGED <<boardVars, diskVars, tickVars, timers, runVars, runnerVars,
                       procVars, boundVars>>

(***************************************************************************)
(* A renewal that fails past the expiry cancels the run, without a retry.  *)
(***************************************************************************)
RenewalFails ==
    \E a \in Attempt :
        /\ active[a] # None
        /\ Fault("board")
        /\ claim' = [claim EXCEPT ![a] = "expired"]
        /\ interrupted' = interrupted \cup {<<a, active[a]>>}
        /\ DropActive(a)
        /\ UNCHANGED <<place, tag, completions, failures, results, diskVars, tickVars, stalling,
                       retries, runVars, session, procVars>>

(***************************************************************************)
(* A live claim that nobody renews expires.  Active runs renew theirs, and *)
(* a tick renews those of the runs in "running".                           *)
(***************************************************************************)
LeaseExpires ==
    \E a \in Attempt :
        /\ claim[a] = "live"
        /\ active[a] = None
        /\ ~(Leaked(a) /\ daemon = "up")
        /\ claim' = [claim EXCEPT ![a] = "expired"]
        /\ UNCHANGED <<place, tag, completions, failures, results, diskVars, tickVars, orchVars,
                       runVars, runnerVars, procVars, boundVars>>

-----------------------------------------------------------------------------
(***************************************************************************)
(* stop(): no tick is started, the running one is not waited for.          *)
(* cancelActiveRuns reads the running runs once (Busy lets there be one),  *)
(* cancels its turn, stops its session, releases its claim, and then drops *)
(* the orchestrator's runs, whose snapshots carry no timers to clear.      *)
(***************************************************************************)
Stop ==
    /\ daemon = "up"
    /\ Fault("stop")
    /\ daemon' = "stopping"
    /\ UNCHANGED <<boardVars, diskVars, tickVars, orchVars, runVars, runnerVars, victim>>

CancelOrchestratorRuns ==
    /\ active' = [a \in Attempt |-> None]
    /\ interrupted' = interrupted \cup {<<a, active[a]>> : a \in {b \in Attempt : active[b] # None}}
    /\ daemon' = "stopped"
    /\ UNCHANGED <<timers, stalling, retries>>

ReadRunningRun ==
    /\ daemon = "stopping"
    /\ \E a \in Attempt :
          /\ run[a] = "running"
          /\ victim' = [attempt |-> a,
                        turn    |-> IF a = cur THEN turn ELSE None,
                        session |-> session[a] # "none"]
          /\ interrupted' = IF victim'.turn = None THEN interrupted
                            ELSE interrupted \cup {<<a, turn>>}
    /\ daemon' = "stop_session"
    /\ UNCHANGED <<boardVars, diskVars, tickVars, orchVars, runVars, session, boundVars>>

NoRunningRun ==
    /\ daemon = "stopping"
    /\ \A a \in Attempt : run[a] # "running"
    /\ CancelOrchestratorRuns
    /\ UNCHANGED <<boardVars, diskVars, tickVars, runVars, session, victim, boundVars>>

StopVictimSession ==
    /\ daemon = "stop_session"
    /\ IF victim.session THEN StopSession(victim.attempt) ELSE UNCHANGED <<session, boundVars>>
    /\ daemon' = "stop_release"
    /\ UNCHANGED <<boardVars, diskVars, tickVars, orchVars, runVars, interrupted, victim>>

ReleaseVictim ==
    LET cancelled == [claim EXCEPT ![victim.attempt] = "cancelled"]
    IN  /\ daemon = "stop_release"
        /\ \/ claim' = cancelled /\ UNCHANGED boundVars
           \/ Fault("board") /\ claim' \in {claim, cancelled}
        /\ run' = [run EXCEPT ![victim.attempt] = "cancelled"]
        /\ daemon' = "stop_write"
        /\ UNCHANGED <<place, tag, completions, failures, results, diskVars, tickVars, orchVars,
                       card, parent, attempts, runnerVars, victim>>

WriteVictim ==
    /\ daemon = "stop_write"
    /\ record' = [record EXCEPT ![victim.attempt] = "cancelled"]
    /\ CancelOrchestratorRuns
    /\ victim' = NoVictim
    /\ UNCHANGED <<boardVars, proof, workspace, tickVars, runVars, session, boundVars>>

(* stop() rejects; the orchestrator's runs stay. *)
WriteVictimThrows ==
    /\ daemon = "stop_write"
    /\ Fault("disk")
    /\ daemon' = "stopped"
    /\ victim' = NoVictim
    /\ UNCHANGED <<boardVars, diskVars, tickVars, orchVars, runVars, runnerVars>>

(***************************************************************************)
(* The process ends: by a crash, or after stop() when no run is left to    *)
(* keep it alive.                                                          *)
(***************************************************************************)
LoseMemory ==
    /\ daemon' = "down"
    /\ EndRun
    /\ active' = [a \in Attempt |-> None]
    /\ timers' = {} /\ stalling' = {} /\ retries' = <<>>
    /\ run' = [a \in Attempt |-> "none"]
    /\ session' = [a \in Attempt |-> IF session[a] = "open" THEN "left" ELSE session[a]]
    /\ interrupted' = {}
    /\ victim' = NoVictim
    /\ UNCHANGED <<boardVars, diskVars, card, parent, attempts>>

Crash == daemon # "down" /\ Fault("crash") /\ LoseMemory

Exit == daemon = "stopped" /\ pc = "idle" /\ LoseMemory /\ UNCHANGED boundVars

(***************************************************************************)
(* performStartupRecovery, with recovery.js's INTERRUPTED_STATUSES.        *)
(***************************************************************************)
InterruptedStatuses == {"running", "preparing_workspace"}

Recover ==
    /\ daemon = "down"
    /\ daemon' = "up"
    /\ record' = [a \in Attempt |-> IF record[a] \in InterruptedStatuses THEN "interrupted"
                                    ELSE record[a]]
    /\ UNCHANGED <<boardVars, proof, workspace, tickVars, orchVars, runVars, runnerVars, victim,
                   boundVars>>

-----------------------------------------------------------------------------
(***************************************************************************)
(* People move the card in and out of the column, and ask for a rerun.     *)
(***************************************************************************)
Human ==
    /\ human < MaxHuman
    /\ human' = human + 1
    /\ UNCHANGED <<completions, failures, results, claim, diskVars, tickVars, orchVars, runVars,
                   runnerVars, procVars, faults, unwritten>>

HumanMovesCard ==
    /\ Human
    /\ place' = IF place = "routed" THEN "elsewhere" ELSE "routed"
    /\ UNCHANGED tag

HumanAsksRerun ==
    /\ Human
    /\ ~tag
    /\ tag' = TRUE
    /\ UNCHANGED place

-----------------------------------------------------------------------------
Dispatch ==
    \/ \E a \in Attempt : ReconcileActiveRun(a) \/ ReconcileThrows(a)
    \/ DiscoverCard \/ MergeRetry \/ TickIgnores
    \/ ClaimBlocked \/ AcquireThrows \/ Acquire

Prepare ==
    \/ RemoveTag \/ RemoveTagThrows
    \/ WriteEarly("claimed", "claimed", "preparing")
    \/ WriteEarly("preparing", "preparing_workspace", "prepare")
    \/ WriteEarlyThrows
    \/ PrepareWorkspace \/ PrepareThrows
    \/ RecordRunning("prepared", "session")
    \/ RecordRunningThrows("prepared", {"disk", "board"}, "other")
    \/ StartSession \/ StartSessionThrows
    \/ RecordRunning("opened", "turn")
    \/ RecordRunningThrows("opened", {"disk"}, "runner")

Turns ==
    \/ StartTurn \/ StartTurnThrows
    \/ RegisterTurn
    \/ RecordRunningThrows("register", {"disk"}, "runner")
    \/ StreamCompletes \/ StreamContinues \/ StreamFails \/ StreamCancelled

Complete ==
    \/ PostResult \/ PostResultThrows
    \/ WriteProof \/ WriteProofThrows
    \/ StepsUnchecked \/ ApplyPolicy \/ PolicyFails
    \/ PostCompletionMarker \/ PostCompletionMarkerThrows
    \/ FinalizeSession \/ ReleaseCompleted
    \/ WriteCleanupStarted \/ CleanupWorkspace
    \/ Handoff \/ WriteCompletedThrows

Fail ==
    \/ BlockCompletion \/ BlockCompletionThrows \/ Catch
    \/ FinalizeFailed \/ WriteFailed \/ WriteFailedThrows \/ ReleaseFailed

RunCard == Prepare \/ Turns \/ Complete \/ Fail

Timers == StallFires \/ StallCancels \/ RenewalFails \/ LeaseExpires

Shutdown ==
    \/ Stop \/ ReadRunningRun \/ NoRunningRun \/ StopVictimSession \/ ReleaseVictim
    \/ WriteVictim \/ WriteVictimThrows
    \/ Crash \/ Exit \/ Recover

Next ==
    \/ Dispatch \/ RunCard \/ Timers \/ Shutdown
    \/ HumanMovesCard \/ HumanAsksRerun

(***************************************************************************)
(* Every await of a tick and of runCard settles: requests, files and child *)
(* processes answer or fail, and a stream ends at the latest with          *)
(* agent.turn_timeout_ms.                                                  *)
(***************************************************************************)
Fairness == WF_vars(Dispatch) /\ WF_vars(RunCard)

Spec == Init /\ [][Next]_vars /\ Fairness

-----------------------------------------------------------------------------
(* The types of the variables. *)
TypeOK ==
    /\ place \in {"routed", "elsewhere"} /\ tag \in BOOLEAN
    /\ completions \subseteq Attempt /\ failures \subseteq Attempt /\ results \subseteq Attempt
    /\ claim \in [Attempt -> ClaimStatus]
    /\ record \in [Attempt -> RecordStatus] /\ proof \subseteq Attempt /\ workspace \in BOOLEAN
    /\ pc \in Step /\ cur \in Attempt \cup {None} /\ cand \in Cand
    /\ turn \in Turn \cup {None} /\ failing \in Why
    /\ active \in [Attempt -> Turn \cup {None}]
    /\ timers \subseteq Attempt \X Turn /\ stalling \subseteq Attempt \X Turn
    /\ retries \in Seq(Retry)
    /\ run \in [Attempt -> RunStatus] /\ card \in [Attempt -> Card]
    /\ parent \in [Attempt -> Attempt \cup {None}] /\ attempts \in Attempt \cup {None}
    /\ session \in [Attempt -> Session] /\ interrupted \subseteq Attempt \X Turn
    /\ daemon \in {"up", "stopped", "down"} \cup Stopping /\ victim \in Victim
    /\ faults \in 0..MaxFaults /\ human \in 0..MaxHuman
    /\ unwritten \in BOOLEAN

(* An open session belongs to the run in progress: whatever ends a run, its
   app server has been stopped or given up (finalizeRunnerSession, stop). *)
NoStraySession == \A a \in Attempt : session[a] = "open" => a = cur

(* A run reported completed has its result comment and its completion marker on
   the card and its proof on disk (SPEC.md:1338-1344). *)
CompletionMeans ==
    \A a \in Attempt : run[a] = "completed" => a \in results \cap proof \cap completions

(* A worktree is removed only when proof, result and completion marker of its
   run exist and the board says that its claim has ended (SPEC.md:1727, 1759). *)
CleanupSafe ==
    [][workspace /\ ~workspace' =>
          /\ cur \in results \cap proof \cap completions
          /\ claim[cur] \in Terminal]_vars

(* A tick that is over has left nothing behind.  No run stays in the running bucket,
   where it would hold the capacity and have its claim renewed for ever, unless the
   disk failed; and without a fault no claim stays live, which would block the card
   for a lease. *)
TickLeavesNothing ==
    pc = "idle" =>
        /\ ~unwritten => \A a \in Attempt : run[a] # "running"
        /\ faults = 0 => \A a \in Attempt : claim[a] # "live"

-----------------------------------------------------------------------------
(* What documents and tests say of the program, and the code does not do. *)

(* "records terminal exhaustion": after three attempts there is no retry
   (test/orchestrator-state.test.js:108). *)
Series[a \in Attempt] == IF parent[a] = None \/ parent[a] >= a THEN 1
                         ELSE Series[parent[a]] + 1

RetriesExhausted == \A a \in Attempt : Series[a] <= 3

(* A card whose run completed is not run again unless it is tagged (SPEC.md:1467). *)
CompletedNotRetried ==
    [][cur' # cur /\ cur' # None /\ cand.from # None /\ ~cand.card.tag
         => run[cand.from] # "completed"]_vars

(* The supervisor tracks active and failed runs (SPEC.md:341): a run leaves the
   running bucket, also when a write of its file fails. *)
RunsSettle == \A a \in Attempt : run[a] = "running" ~> run[a] # "running"

=============================================================================
