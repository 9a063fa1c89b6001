-------------------------- MODULE OperatorCommands --------------------------
(***************************************************************************)
(* The commands an operator gives to a running daemon, POST /v2/commands   *)
(* of the local server (src/server.js handleV2Request, src/v2/daemon,      *)
(* src/v2/core, src/v2/codex and src/v2/fizzy), beside the attempts at a   *)
(* card that the daemon runs meanwhile (src/reconciler.js, src/status.js). *)
(*                                                                         *)
(* A request makes a runtime of its own from the status of that moment,    *)
(* and only then reads its body: the status may be old when the command is *)
(* checked against it, and what the command makes of it is thrown away     *)
(* with the runtime.  What lasts is what the ports do: they interrupt a    *)
(* turn or close a session behind the back of the attempt that uses it,    *)
(* which may be closing it too, and move or comment on its card.           *)
(***************************************************************************)
EXTENDS Naturals

CONSTANTS Request,      \* the requests, each sent once
          MaxAttempts,  \* bound: attempts at the card
          MaxTurns,     \* agent.max_turns
          MaxFaults     \* bound: processes and calls that fail or hang

Attempt == 1 .. MaxAttempts

ASSUME OperatorCommandsAssumption ==
    /\ MaxAttempts \in Nat /\ MaxTurns \in Nat \ {0} /\ MaxFaults \in Nat
    /\ Request \cap Attempt = {}   \* both are callers of stopSession

VARIABLES
    run,       \* the attempts: where they are, the turn, how they end
    manual,    \* the attempts whose record asks for manual intervention
    record,    \* what the status store says of an attempt
    sessions,  \* the sessions the runner knows; each attempt has one
    proc,      \* the app server of a session
    turn,      \* what has become, at the app server, of the session's last turn
    stop,      \* the calls of stopSession, by their caller
    column,    \* the column of the card
    request,   \* the requests: where they are, the command, its runtime's status
    faults

vars == <<run, manual, record, sessions, proc, turn, stop, column, request, faults>>

daemon == <<run, manual, record>>
runner == <<sessions, proc, turn>>

NoRecord  == [bucket |-> "none", session |-> FALSE, turn |-> 0]
NoCommand == [type |-> "none", attempt |-> 0]
NoEffect  == [severity |-> "none", done |-> FALSE]
NoRequest == [pc |-> "idle", command |-> NoCommand, status |-> <<>>, outcome |-> "none",
              effect |-> NoEffect, turn |-> 0]

Fault == faults < MaxFaults /\ faults' = faults + 1

-----------------------------------------------------------------------------
(* The status, its projection to v2, and the commands                      *)

(* normalizeRun: an id the record has is kept.                             *)
Normalized(rec, bucket, session, number) ==
    [bucket  |-> bucket,
     session |-> rec.session \/ session,
     turn    |-> IF rec.turn # 0 THEN rec.turn ELSE number]

PutRun(a, bucket, session, number) ==
    record' = [record EXCEPT ![a] = Normalized(@, bucket, session, number)]

In(bucket, runs) == {a \in Attempt : runs[a].bucket = bucket}

(* The card, from the first of its runs in the order of the buckets.       *)
CardOf(runs) ==
    IF In("running", runs) # {} THEN "running"
    ELSE IF In("completed", runs) # {} THEN "completed"
    ELSE IF In("failed", runs) # {} THEN "failed"
    ELSE "unknown"

(* projectV1StatusToV2: dispatch counts as paused only when the            *)
(* configuration disables it.                                              *)
Projection == [runs |-> record, card |-> CardOf(record), paused |-> FALSE, preserved |-> {}]

Malformed == [type |-> "unknown", attempt |-> 0]   \* or without a reason or an id

Command ==
    {Malformed} \cup
    [type : {"dispatch.pause", "dispatch.resume", "card.rerun", "card.move"}, attempt : {0}] \cup
    [type : {"run.cancel", "session.stop", "worktree.preserve", "worktree.cleanup"}, attempt : Attempt]

Valid(c) == c # Malformed

Available(c, s) ==
    \/ c.type = "dispatch.pause" /\ ~s.paused
    \/ c.type = "dispatch.resume" /\ s.paused
    \/ c.type = "run.cancel" /\ s.runs[c.attempt].bucket = "running"
    \/ c.type = "session.stop" /\ s.runs[c.attempt].bucket = "running" /\ s.runs[c.attempt].session
    \/ c.type = "card.rerun" /\ s.card \notin {"unknown", "running"}
    \/ c.type = "card.move" /\ s.card # "unknown"
    \/ c.type \in {"worktree.preserve", "worktree.cleanup"} /\ s.runs[c.attempt].bucket # "none"

(* applyCommandToStatus: the column is not part of the card's status here. *)
Applied(c, s) ==
    CASE c.type = "dispatch.pause"  -> [s EXCEPT !.paused = TRUE]
      [] c.type = "dispatch.resume" -> [s EXCEPT !.paused = FALSE]
      [] c.type \in {"run.cancel", "session.stop"} ->
             [s EXCEPT !.runs[c.attempt].bucket = "cancelled", !.card = "cancelled"]
      [] c.type = "card.rerun"        -> [s EXCEPT !.card = "queued"]
      [] c.type = "worktree.preserve" -> [s EXCEPT !.preserved = @ \cup {c.attempt}]
      [] c.type = "worktree.cleanup"  -> [s EXCEPT !.preserved = @ \ {c.attempt}]
      [] OTHER                        -> s

-----------------------------------------------------------------------------
Init ==
    /\ run = [a \in Attempt |-> [pc |-> "waiting", turn |-> 0, outcome |-> "none"]]
    /\ manual = {}
    /\ record = [a \in Attempt |-> NoRecord]
    /\ sessions = {}
    /\ proc = [a \in Attempt |-> "none"]
    /\ turn = [a \in Attempt |-> "none"]
    /\ stop = [x \in Attempt \cup Request |-> "none"]
    /\ column = "ready"
    /\ request = [q \in Request |-> NoRequest]
    /\ faults = 0

-----------------------------------------------------------------------------
(* stopSession of the runner, called by an attempt for its own session or  *)
(* by a request: thread/unsubscribe, SIGTERM, and a wait for the exit.     *)

SessionOf(x) == IF x \in Attempt THEN x ELSE request[x].command.attempt

StopBegins(x, a) == stop' = [stop EXCEPT ![x] = IF a \in sessions THEN "unsubscribing" ELSE "failed"]

(* The answer: a process that has been told to end may still give it.      *)
Unsubscribed(x) ==
    /\ stop[x] = "unsubscribing"
    /\ proc[SessionOf(x)] \in {"up", "ending"}
    /\ stop' = [stop EXCEPT ![x] = "closing"]
    /\ proc' = [proc EXCEPT ![SessionOf(x)] = "ending"]
    /\ UNCHANGED <<daemon, sessions, turn, column, request, faults>>

(* No answer: the process has ended or hangs.                              *)
Unanswered(x) ==
    /\ stop[x] = "unsubscribing"
    /\ \/ proc[SessionOf(x)] # "up" /\ UNCHANGED faults
       \/ Fault
    /\ stop' = [stop EXCEPT ![x] = "failed"]
    /\ UNCHANGED <<daemon, runner, column, request>>

(* Slip: a process that has not ended in time counts as closed.            *)
ClosesAnyway(x) ==
    /\ stop[x] = "closing"
    /\ stop' = [stop EXCEPT ![x] = "stopped"]
    /\ sessions' = sessions \ {SessionOf(x)}
    /\ UNCHANGED <<daemon, proc, turn, column, request, faults>>

CloseReturns(x) ==
    /\ stop[x] = "closing"
    /\ \/ /\ proc[SessionOf(x)] = "down"
          /\ stop' = [stop EXCEPT ![x] = "stopped"]
          /\ sessions' = sessions \ {SessionOf(x)}
          /\ UNCHANGED faults
       \/ /\ proc[SessionOf(x)] = "ending"
          /\ Fault
          /\ stop' = [stop EXCEPT ![x] = "failed"]
          /\ UNCHANGED sessions
    /\ UNCHANGED <<daemon, proc, turn, column, request>>

(* The process ends when told to, or crashes.                              *)
Exits(a) ==
    /\ \/ proc[a] = "ending" /\ UNCHANGED faults
       \/ proc[a] = "up" /\ Fault
    /\ proc' = [proc EXCEPT ![a] = "down"]
    /\ UNCHANGED <<daemon, sessions, turn, stop, column, request>>

-----------------------------------------------------------------------------
(* An attempt, as runDispatch and runSameThreadTurns take it               *)

Goes(a, pc) == run' = [run EXCEPT ![a].pc = pc]

(* The first attempt, or the retry of one that the runner failed.          *)
StartRun(a) ==
    /\ run[a].pc = "waiting"
    /\ column = "ready"
    /\ a > 1 => run[a - 1].pc = "ended" /\ run[a - 1].outcome = "retry"
    /\ Goes(a, "starting")
    /\ PutRun(a, "running", FALSE, 0)
    /\ UNCHANGED <<manual, runner, stop, column, request, faults>>

(* The failure of the run, then finalizeRunnerSession: there is nothing to *)
(* finalize without a session.                                             *)
Fails(a, outcome) ==
    /\ run' = [run EXCEPT ![a].outcome = outcome,
                          ![a].pc = IF record[a].session THEN "closing" ELSE "ended"]
    /\ PutRun(a, "failed", FALSE, 0)
    /\ IF record[a].session THEN StopBegins(a, a) ELSE UNCHANGED stop

OpenSession(a) ==
    /\ run[a].pc = "starting"
    /\ \/ /\ Goes(a, "turning")
          /\ PutRun(a, "running", TRUE, 0)
          /\ sessions' = sessions \cup {a}
          /\ proc' = [proc EXCEPT ![a] = "up"]
          /\ UNCHANGED <<stop, faults>>
       \/ Fault /\ Fails(a, "retry") /\ UNCHANGED <<sessions, proc>>
    /\ UNCHANGED <<manual, turn, column, request>>

(* Without its session, or its process, a turn cannot be started.          *)
StartTurn(a) ==
    /\ run[a].pc = "turning"
    /\ \/ /\ a \in sessions /\ proc[a] = "up"
          /\ run' = [run EXCEPT ![a].pc = "streaming", ![a].turn = @ + 1]
          /\ PutRun(a, "running", TRUE, run[a].turn + 1)
          /\ turn' = [turn EXCEPT ![a] = "running"]
          /\ UNCHANGED stop
       \/ (a \notin sessions \/ proc[a] # "up") /\ Fails(a, "retry") /\ UNCHANGED turn
    /\ UNCHANGED <<manual, sessions, proc, column, request, faults>>

(* The agent comes to the end of the turn, or asks for another.            *)
TurnEnds(a) ==
    /\ proc[a] = "up" /\ turn[a] = "running"
    /\ \E end \in {"completed", "continues", "failed"} : turn' = [turn EXCEPT ![a] = end]
    /\ UNCHANGED <<daemon, sessions, proc, stop, column, request, faults>>

(* Slip: only a failure keeps the attempt from completing.                 *)
ReturnsUnlessFailed(a) ==
    /\ run[a].pc = "streaming" /\ proc[a] # "down"
    /\ turn[a] \in {"completed", "continues", "failed", "interrupted"}
    /\ CASE turn[a] \in {"completed", "interrupted"} ->
              Goes(a, "completing") /\ UNCHANGED <<record, stop>>
         [] turn[a] = "continues" /\ run[a].turn < MaxTurns ->
              Goes(a, "turning") /\ UNCHANGED <<record, stop>>
         [] OTHER -> Fails(a, "retry")
    /\ UNCHANGED <<manual, runner, column, request, faults>>

(* What the stream returns decides whether the attempt goes on.            *)
TurnReturns(a) ==
    /\ run[a].pc = "streaming" /\ proc[a] # "down"
    /\ turn[a] \in {"completed", "continues", "failed", "interrupted"}
    /\ CASE turn[a] = "completed" ->
              Goes(a, "completing") /\ UNCHANGED <<record, stop>>
         [] turn[a] = "continues" /\ run[a].turn < MaxTurns ->
              Goes(a, "turning") /\ UNCHANGED <<record, stop>>
         [] OTHER -> Fails(a, "retry")
    /\ UNCHANGED <<manual, runner, column, request, faults>>

(* Slip: the stream looks its session up again, which a stop has removed.  *)
BreaksIfKnown(a) ==
    /\ run[a].pc = "streaming" /\ proc[a] = "down" /\ a \in sessions
    /\ Fails(a, "retry")
    /\ UNCHANGED <<manual, runner, column, request, faults>>

StreamBreaks(a) ==
    /\ run[a].pc = "streaming" /\ proc[a] = "down"
    /\ Fails(a, "retry")
    /\ UNCHANGED <<manual, runner, column, request, faults>>

(* refreshCardForCompletion and assertRouteStillCurrent.                   *)
Refresh(a) ==
    /\ run[a].pc = "completing"
    /\ \/ column = "ready" /\ Goes(a, "refreshed") /\ UNCHANGED <<record, stop>>
       \/ column # "ready" /\ Fails(a, "blocked")
    /\ UNCHANGED <<manual, runner, column, request, faults>>

(* The completion policy moves the card, wherever it is by then, and the   *)
(* marker is written; then the session is finalized.                       *)
ApplyPolicy(a) ==
    /\ run[a].pc = "refreshed"
    /\ column' = "done"
    /\ run' = [run EXCEPT ![a].pc = "closing", ![a].outcome = "completed"]
    /\ StopBegins(a, a)
    /\ UNCHANGED <<manual, record, runner, request, faults>>

(* A stop that failed is followed by the end of the process, if the runner *)
(* still knows the session; a completed run is recorded only now.          *)
Finalize(a) ==
    /\ run[a].pc = "closing" /\ stop[a] \in {"stopped", "failed"}
    /\ \/ stop[a] = "stopped" /\ UNCHANGED <<manual, sessions, proc, faults>>
       \/ /\ stop[a] = "failed" /\ a \notin sessions
          /\ manual' = manual \cup {a}
          /\ UNCHANGED <<sessions, proc, faults>>
       \/ /\ stop[a] = "failed" /\ a \in sessions
          /\ sessions' = sessions \ {a}
          /\ \/ proc' = [proc EXCEPT ![a] = "down"] /\ UNCHANGED <<manual, faults>>
             \/ proc[a] # "down" /\ Fault /\ manual' = manual \cup {a} /\ UNCHANGED proc
    /\ Goes(a, "ended")
    /\ IF run[a].outcome = "completed" THEN PutRun(a, "completed", FALSE, 0)
                                       ELSE UNCHANGED record
    /\ UNCHANGED <<turn, stop, column, request>>

-----------------------------------------------------------------------------
(* A request: handleV2Request                                              *)

(* A runtime is made of the status; the body is not read yet.              *)
Receive(q) ==
    /\ request[q].pc = "idle"
    /\ request' = [request EXCEPT ![q].pc = "reading", ![q].status = Projection]
    /\ UNCHANGED <<daemon, runner, stop, column, faults>>

Refuses(q, outcome) ==
    /\ request' = [request EXCEPT ![q] = [NoRequest EXCEPT !.pc = "answered", !.outcome = outcome]]
    /\ UNCHANGED <<daemon, runner, stop, column, faults>>

(* submitCommandAsync up to the first await of a port: the model takes the *)
(* command, and the effects are of the status before that.                 *)
Accepts(q, c, pc, effect) ==
    request' = [request EXCEPT ![q].pc = pc, ![q].command = c, ![q].effect = effect,
                               ![q].status = Applied(c, @),
                               ![q].turn = IF c.type = "run.cancel"
                                           THEN request[q].status.runs[c.attempt].turn ELSE 0]

(* The answer is of the model, accepted; the runtime is dropped with it.   *)
Answers(q, effect) ==
    request' = [request EXCEPT ![q] = [NoRequest EXCEPT !.pc = "answered", !.outcome = "accepted",
                                       !.command = request[q].command, !.effect = effect]]

Warning       == [severity |-> "warning", done |-> FALSE]
Error         == [severity |-> "error", done |-> FALSE]
Info(success) == [severity |-> "info", done |-> success]

(* The runner answers a cancel that fails as it does one that succeeds:    *)
(* only a port that throws is an error.                                    *)
CancelEffect(success) == Info(success)

Cancel(q, c) ==
    /\ c.type = "run.cancel"
    /\ CASE request[q].status.runs[c.attempt].turn = 0 -> Accepts(q, c, "settled", Warning)
         [] c.attempt \notin sessions -> Accepts(q, c, "settled", CancelEffect(FALSE))
         [] OTHER -> Accepts(q, c, "interrupting", NoEffect)
    /\ UNCHANGED <<daemon, runner, stop, column, faults>>

StopSession(q, c) ==
    /\ c.type = "session.stop"
    /\ Accepts(q, c, "stopping", NoEffect)
    /\ StopBegins(q, c.attempt)
    /\ UNCHANGED <<daemon, runner, column, faults>>

OnCard(q, c) ==
    /\ c.type \in {"card.move", "card.rerun"}
    /\ Accepts(q, c, "calling", NoEffect)
    /\ UNCHANGED <<daemon, runner, stop, column, faults>>

(* Nothing but the model of the runtime changes.                           *)
ModelOnly(q, c) ==
    /\ c.type \in {"dispatch.pause", "dispatch.resume", "worktree.preserve", "worktree.cleanup"}
    /\ Accepts(q, c, "settled", NoEffect)
    /\ UNCHANGED <<daemon, runner, stop, column, faults>>

Submit(q, c) ==
    /\ request[q].pc = "reading"
    /\ \/ ~Valid(c) /\ Refuses(q, "rejected")
       \/ Valid(c) /\ ~Available(c, request[q].status) /\ Refuses(q, "unavailable")
       \/ /\ Valid(c) /\ Available(c, request[q].status)
          /\ Cancel(q, c) \/ StopSession(q, c) \/ OnCard(q, c) \/ ModelOnly(q, c)

Respond(q) ==
    /\ request[q].pc = "settled"
    /\ Answers(q, request[q].effect)
    /\ UNCHANGED <<daemon, runner, stop, column, faults>>

(* turn/interrupt at the app server: only a turn that runs.                *)
Interrupt(q) ==
    LET a == request[q].command.attempt IN
    /\ request[q].pc = "interrupting"
    /\ IF proc[a] = "up" /\ turn[a] = "running" /\ request[q].turn = run[a].turn
       THEN /\ turn' = [turn EXCEPT ![a] = "interrupted"]
            /\ request' = [request EXCEPT ![q].pc = "interrupted"]
       ELSE /\ request' = [request EXCEPT ![q].pc = "refused"]
            /\ UNCHANGED turn
    /\ UNCHANGED <<daemon, sessions, proc, stop, column, faults>>

CancelReturns(q) ==
    /\ \/ request[q].pc = "interrupted" /\ Answers(q, CancelEffect(TRUE)) /\ UNCHANGED faults
       \/ request[q].pc = "refused" /\ Answers(q, CancelEffect(FALSE)) /\ UNCHANGED faults
       \/ /\ request[q].pc \in {"interrupting", "interrupted", "refused"}   \* a timeout, an exit
          /\ Fault
          /\ Answers(q, CancelEffect(FALSE))
    /\ UNCHANGED <<daemon, runner, stop, column>>

(* A session that was stopped is not terminated as well; one that was not  *)
(* is an error, and is not terminated either.                              *)
StopReturns(q) ==
    /\ request[q].pc = "stopping" /\ stop[q] \in {"stopped", "failed"}
    /\ Answers(q, IF stop[q] = "stopped" THEN Info(TRUE) ELSE Error)
    /\ UNCHANGED <<daemon, runner, stop, column, faults>>

CardReturns(q) ==
    /\ request[q].pc = "calling"
    /\ \/ /\ Answers(q, Info(TRUE))
          /\ column' = IF request[q].command.type = "card.move" THEN "elsewhere" ELSE column
          /\ UNCHANGED faults
       \/ Fault /\ Answers(q, Error) /\ UNCHANGED column
    /\ UNCHANGED <<daemon, runner, stop>>

-----------------------------------------------------------------------------
RunStep(a) ==
    \/ StartRun(a) \/ OpenSession(a) \/ StartTurn(a) \/ TurnReturns(a) \/ StreamBreaks(a)
    \/ Refresh(a) \/ ApplyPolicy(a) \/ Finalize(a)

StopStep(x) == Unsubscribed(x) \/ Unanswered(x) \/ CloseReturns(x)

RequestStep(q) == Respond(q) \/ Interrupt(q) \/ CancelReturns(q) \/ StopReturns(q) \/ CardReturns(q)

Next ==
    \/ \E a \in Attempt : RunStep(a) \/ TurnEnds(a) \/ Exits(a)
    \/ \E x \in Attempt \cup Request : StopStep(x)
    \/ \E q \in Request : Receive(q) \/ RequestStep(q) \/ (\E c \in Command : Submit(q, c))

(* The daemon's event loop runs what is ready, a process that is told to   *)
(* end ends, and a call returns; no agent need ever end a turn, and no     *)
(* operator need send anything.                                            *)
Fairness ==
    /\ \A a \in Attempt : WF_vars(RunStep(a)) /\ WF_vars(proc[a] = "ending" /\ Exits(a))
    /\ \A x \in Attempt \cup Request : WF_vars(StopStep(x))
    /\ \A q \in Request : WF_vars(RequestStep(q))

Spec == Init /\ [][Next]_vars /\ Fairness

-----------------------------------------------------------------------------
(* Properties                                                              *)

Succeeded(q, type) == request[q].command.type = type /\ request[q].effect.done

(* SAFETY.  However an operator's stop and the attempt's own race for the  *)
(* session, no process is left behind in silence: once an attempt has      *)
(* ended, its app server is down or its record asks for a person.          *)
NoSilentLeak ==
    \A a \in Attempt : run[a].pc = "ended" /\ a \notin manual => proc[a] \in {"none", "down"}

(* SAFETY.  An operator who was told that the run's turn was interrupted   *)
(* never sees that attempt complete and its card handed on.                *)
InterruptedNeverCompletes ==
    \A q \in Request : Succeeded(q, "run.cancel") =>
        run[request[q].command.attempt].outcome # "completed"

(* LIVENESS.  A cancel or a stop that succeeded takes hold: the attempt    *)
(* comes to its end, though no agent need end its turn.                    *)
CommandTakesHold ==
    []<>(\A q \in Request : Succeeded(q, "run.cancel") \/ Succeeded(q, "session.stop") =>
             run[request[q].command.attempt].pc = "ended")

-----------------------------------------------------------------------------
(* What a document says of the program, and the code does not keep.        *)

(* docs/v2/cockpit-contract.md has a runner failure yield an error event:  *)
(* what is reported as done was done.  The runner reports a failed         *)
(* interrupt in its answer, and the port reads success into it.            *)
FailedCancelReported ==
    \A q \in Request : request[q].effect.severity = "info" => request[q].effect.done
=============================================================================
