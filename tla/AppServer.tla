------------------------------ MODULE AppServer ------------------------------
(***************************************************************************)
(* One session with `codex app-server`: the JSONL transport                *)
(* (src/codex-app-server-transport.js), the runner on top of it            *)
(* (src/codex-cli-app-server-runner.js), the run that drives its turns and *)
(* ends the session (reconciler.js), and one canceller beside it: the      *)
(* stall timer, an ineligible card or the daemon's shutdown (daemon.js).   *)
(*                                                                         *)
(* Daemon and app server are two processes: requests go one way, lines on  *)
(* a pipe come the other, and the child may die, ignore SIGTERM, write     *)
(* what nobody asked for, or never answer.  In the daemon, what a settled  *)
(* promise has set free runs before the next event (Quiet); a chunk of     *)
(* stdout may hold several lines, so that reading needs no quiet.          *)
(***************************************************************************)
EXTENDS Naturals, Sequences

CONSTANTS MaxTurns, \* bound: turns of the run (agent.max_turns)
          MaxLines, \* bound: lines the app server writes beyond answers and finals
          MaxPipe   \* bound: lines written and not yet read

ASSUME AppServerAssumption == MaxTurns \in Nat \ {0} /\ MaxLines \in Nat /\ MaxPipe \in Nat

Turn  == 1..MaxTurns
Actor == {"run", "can"}

StopRequest(a) == IF a = "run" THEN "stop_run" ELSE "stop_can"
Request == {"initialize", "thread", "turn", "interrupt", "cancel", "stop_run", "stop_can"}

VARIABLES
    (* the app server *)
    child,     \* none, unborn (the spawn failed), up or dead
    agent,     \* what it makes of each turn
    asked,     \* the requests it has received and may answer before they are given up: one
               \* that is no longer pending is not answered here, or its answer is in out
    out,       \* its stdout: lines written and not yet read
    lines,     \* bound: lines written so far
    (* the transport *)
    ended,     \* stdin has been ended
    exited,    \* the exit event has been handled
    req,       \* each request: none, pending, ok or rejected
    (* the session's context in the runner *)
    open,      \* sessions.has(session_id)
    notes,     \* notifications that no stream has read
    input,     \* inputRequired
    failure,   \* streamFailure
    (* a call of stream() *)
    strm, sres,
    (* the run and the canceller *)
    purpose,   \* startSession by a run, or validate by a health check
    pc,        \* what each is waiting for
    turn,      \* the run's current turn
    cancelled, \* createCancellableRunner: the turns somebody cancelled
    result,    \* what stream() returned for each turn
    report     \* how ending the session went

childVars  == <<child, agent, asked, out, lines>>
ctxVars    == <<open, notes, input, failure>>
strmVars   == <<strm, sres>>
runVars    == <<purpose, turn, cancelled, result>>
vars == <<childVars, ended, exited, req, ctxVars, strmVars, runVars, pc, report>>

RunPC   == {"off", "initialize", "thread", "ready", "turn", "begun", "stream", "result",
            "aborting", "cancel"}
StopPC  == {"stop", "close", "term", "kill", "over"}
Strm    == {"idle", "woken", "reading", "wait", "interrupt_input", "interrupt_timeout", "done"}
Outcome == {"none", "completed", "failed", "timed_out", "input_required", "runner_error", "cancelled"}
Final   == {"completed", "failed"}   \* failed, or interrupted
Work    == {"none", "working"} \cup Final

Note == [kind : {"note"}, what : {"delta"} \cup Final, of : Turn]
Line == Note \cup [kind : {"answer"}, to : Request, ok : BOOLEAN] \cup [kind : {"ask", "garbage"}]

Init ==
    /\ child = "none" /\ agent = [t \in Turn |-> "none"] /\ asked = {} /\ out = <<>> /\ lines = 0
    /\ ended = FALSE /\ exited = FALSE
    /\ req = [r \in Request |-> "none"]
    /\ open = FALSE /\ notes = <<>> /\ input = FALSE /\ failure = "none"
    /\ strm = "idle" /\ sres = "none"
    /\ purpose \in {"run", "validate"}
    /\ pc = [a \in Actor |-> "off"]
    /\ turn = 0 /\ cancelled = {} /\ result = [t \in Turn |-> "none"]
    /\ report = [a \in Actor |-> "none"]

-----------------------------------------------------------------------------
(* The transport. *)

Settled(r) == req[r] \in {"ok", "rejected"}

\* The promise of request r has been awaited.
Awaited(r) == [req EXCEPT ![r] = "none"]

\* request(): refused at once after the exit; a line that nobody can read is lost.
Send(r, q) ==
    /\ req' = [q EXCEPT ![r] = IF exited THEN "rejected" ELSE "pending"]
    /\ asked' = IF child = "up" /\ ~ended THEN asked \cup {r} ELSE asked

\* request() when there is no context for it: cancel, stream and startTurn refuse.
SendIfOpen(r) ==
    IF open THEN Send(r, req) ELSE req' = [req EXCEPT ![r] = "rejected"] /\ UNCHANGED asked

RejectAll ==
    /\ req' = [r \in Request |-> IF req[r] = "pending" THEN "rejected" ELSE req[r]]
    /\ asked' = {}

\* wake(): every waiter of the context is resolved.
Wake == strm' = IF strm = "wait" THEN "woken" ELSE strm

\* What comes in goes to the session's context, which startSession makes before its first
\* request; validate makes none.  Of what comes after the last stream() has returned
\* nobody takes notice, so it is left out, and what is still there is forgotten.
Heard ==
    /\ purpose = "run"
    /\ strm # "idle" \/ pc["run"] \in {"initialize", "thread", "ready", "turn", "begun"}

Unheard == notes' = <<>> /\ input' = FALSE /\ failure' = "none"

\* What a settled promise or a resolved waiter has set free and has not run yet.
Free ==
    \/ pc["run"] \in {"initialize", "thread", "turn"} /\ Settled(pc["run"])
    \/ pc["can"] = "cancel" /\ Settled("cancel")
    \/ strm \in {"woken", "reading"}
    \/ strm \in {"interrupt_input", "interrupt_timeout"} /\ Settled("interrupt")
    \/ pc["run"] = "stream" /\ (strm = "done" \/ turn \in cancelled)
    \/ \E a \in Actor : \/ pc[a] = "stop" /\ Settled(StopRequest(a))
                        \/ pc[a] \in {"term", "kill"} /\ exited
Quiet == ~Free

-----------------------------------------------------------------------------
(* The app server: an external program, seen through what it may do.       *)

Write(line) == Len(out) < MaxPipe /\ out' = Append(out, line)

\* It answers a request; with turn/start it begins the turn.
Answer(r) ==
    /\ child = "up" /\ r \in asked
    /\ asked' = asked \ {r}
    /\ \E ok \in BOOLEAN :
        /\ Write([kind |-> "answer", to |-> r, ok |-> ok])
        /\ agent' = IF r = "turn" /\ ok THEN [agent EXCEPT ![turn] = "working"] ELSE agent
    /\ UNCHANGED <<child, lines, ended, exited, req, ctxVars, strmVars, runVars, pc, report>>

Finish(t) ==
    /\ child = "up" /\ agent[t] = "working"
    /\ \E w \in Final :
        /\ agent' = [agent EXCEPT ![t] = w]
        /\ Write([kind |-> "note", what |-> w, of |-> t])
    /\ UNCHANGED <<child, asked, lines, ended, exited, req, ctxVars, strmVars, runVars, pc, report>>

\* A delta or an error notification of a turn it knows, maybe one that is over (an error
\* with willRetry leaves the turn at work); a request of its own; or a line that is no message.
Speak ==
    /\ child = "up" /\ lines < MaxLines
    /\ lines' = lines + 1
    /\ \/ \E t \in Turn, w \in {"delta", "failed"} :
            agent[t] # "none" /\ Write([kind |-> "note", what |-> w, of |-> t])
       \/ \E k \in {"ask", "garbage"} : Write([kind |-> k])
    /\ UNCHANGED <<child, agent, asked, ended, exited, req, ctxVars, strmVars, runVars, pc, report>>

\* It dies: on a signal, at the end of its input, or by itself.
Die ==
    /\ child = "up" /\ child' = "dead" /\ asked' = {}
    /\ UNCHANGED <<agent, out, lines, ended, exited, req, ctxVars, strmVars, runVars, pc, report>>

-----------------------------------------------------------------------------
(* Events in the daemon. *)

\* handleLine
HandleAnswer(line) ==
    /\ req' = [req EXCEPT ![line.to] = IF @ # "pending" THEN @ ELSE IF line.ok THEN "ok" ELSE "rejected"]
    /\ UNCHANGED <<asked, notes, input, failure, strm>>

HandleNote(line) ==
    /\ notes' = IF Heard THEN Append(notes, line) ELSE notes
    /\ Wake
    /\ UNCHANGED <<asked, req, input, failure>>

HandleAsk ==
    /\ input' = (Heard \/ input)
    /\ Wake
    /\ UNCHANGED <<asked, req, notes, failure>>

HandleGarbage ==
    /\ RejectAll
    /\ failure' = IF Heard THEN "runner_error" ELSE failure
    /\ Wake
    /\ UNCHANGED <<notes, input>>

HandleLine(line) ==
    \/ line.kind = "answer" /\ HandleAnswer(line)
    \/ line.kind = "note" /\ HandleNote(line)
    \/ line.kind = "ask" /\ HandleAsk
    \/ line.kind = "garbage" /\ HandleGarbage

Read ==
    /\ out # <<>> /\ strm # "reading"
    /\ out' = Tail(out)
    /\ HandleLine(Head(out))
    /\ UNCHANGED <<child, agent, lines, ended, exited, open, sres, runVars, pc, report>>

\* Slip: nobody listens for the exit.
HandleExitAsleep ==
    /\ Quiet /\ child = "dead" /\ ~exited
    /\ exited' = TRUE
    /\ RejectAll
    /\ UNCHANGED <<child, agent, out, lines, ended, ctxVars, strmVars, runVars, pc, report>>

\* handleExit: it may come before the last of stdout.
HandleExit ==
    /\ Quiet /\ child = "dead" /\ ~exited
    /\ exited' = TRUE
    /\ RejectAll
    /\ failure' = IF Heard THEN "runner_error" ELSE failure
    /\ Wake
    /\ UNCHANGED <<child, agent, out, lines, ended, open, notes, input, sres, runVars, pc, report>>

\* handleChildError: the command could not be spawned, and there is no exit event.
HandleSpawnError ==
    /\ Quiet /\ child = "unborn"
    /\ child' = "none"
    /\ RejectAll
    /\ failure' = IF Heard THEN "runner_error" ELSE failure
    /\ Wake
    /\ UNCHANGED <<agent, out, lines, ended, exited, open, notes, input, sres, runVars, pc, report>>

RequestTimesOut(r) ==
    /\ Quiet /\ req[r] = "pending"
    /\ req' = [req EXCEPT ![r] = "rejected"]
    /\ asked' = asked \ {r}
    /\ UNCHANGED <<child, agent, out, lines, ended, exited, ctxVars, strmVars, runVars, pc, report>>

\* agent.turn_timeout_ms, from the call of stream() until it returns.
StreamTimesOut ==
    /\ Quiet /\ strm \in {"wait", "interrupt_input"} /\ failure # "timed_out"
    /\ failure' = "timed_out"
    /\ Wake
    /\ UNCHANGED <<childVars, ended, exited, req, open, notes, input, sres, runVars, pc, report>>

-----------------------------------------------------------------------------
(* stream(): the loop runs without an await from one wake-up to the next.  *)

Matches(n) == n.of = turn

\* shiftMatchingNotification, hasMatchingFinalNotification
HasMatching == \E i \in DOMAIN notes : Matches(notes[i])
HasFinal    == \E i \in DOMAIN notes : Matches(notes[i]) /\ notes[i].what \in Final
FirstMatching ==
    CHOOSE i \in DOMAIN notes : Matches(notes[i]) /\ \A j \in DOMAIN notes : Matches(notes[j]) => i <= j
Without(i) == SubSeq(notes, 1, i - 1) \o SubSeq(notes, i + 1, Len(notes))

MayRead == ~input /\ (failure = "none" \/ (failure = "timed_out" /\ HasFinal))

\* The call returns; nobody looks at what it returns when a cancellation has won the race.
Returns(outcome, rest, fault) ==
    \/ /\ pc["run"] = "stream" /\ strm' = "done" /\ sres' = outcome
       /\ notes' = rest /\ failure' = fault /\ UNCHANGED input
    \/ pc["run"] # "stream" /\ strm' = "idle" /\ sres' = "none" /\ Unheard

StreamReads ==
    /\ strm \in {"woken", "reading"} /\ MayRead /\ HasMatching
    /\ LET n == notes[FirstMatching] IN
        \/ /\ n.what = "delta"
           /\ strm' = "reading" /\ notes' = Without(FirstMatching)
           /\ UNCHANGED <<input, failure, sres>>
        \/ /\ n.what \in Final
           /\ Returns(n.what, Without(FirstMatching), "none")
    /\ UNCHANGED <<childVars, ended, exited, req, open, runVars, pc, report>>

StreamInterrupts ==
    /\ strm \in {"woken", "reading"} /\ (input \/ (failure = "timed_out" /\ ~HasFinal))
    /\ strm' = IF input THEN "interrupt_input" ELSE "interrupt_timeout"
    /\ SendIfOpen("interrupt")
    /\ UNCHANGED <<child, agent, out, lines, ended, exited, ctxVars, sres, runVars, pc, report>>

StreamInterrupted ==
    /\ strm \in {"interrupt_input", "interrupt_timeout"} /\ Settled("interrupt")
    /\ Returns(IF strm = "interrupt_input" THEN "input_required" ELSE failure, notes, failure)
    /\ req' = Awaited("interrupt")
    /\ UNCHANGED <<childVars, ended, exited, open, runVars, pc, report>>

StreamFails ==
    /\ strm \in {"woken", "reading"} /\ ~input /\ failure = "runner_error"
    /\ Returns(failure, notes, failure)
    /\ UNCHANGED <<childVars, ended, exited, req, open, runVars, pc, report>>

StreamWaits ==
    /\ strm \in {"woken", "reading"} /\ ~input /\ failure = "none" /\ ~HasMatching
    /\ strm' = "wait"
    /\ UNCHANGED <<childVars, ended, exited, req, ctxVars, sres, runVars, pc, report>>

-----------------------------------------------------------------------------
(* Ending the session: stopSession under its caller's timeout, then        *)
(* terminateOwnedProcess.  The two actors do so independently.             *)

\* sessions.get: without a context both calls fail, which the caller reports.
EndSession(a, q) ==
    IF open
    THEN /\ Send(StopRequest(a), q)
         /\ pc' = [pc EXCEPT ![a] = "stop"] /\ UNCHANGED report
    ELSE /\ pc' = [pc EXCEPT ![a] = "over"] /\ report' = [report EXCEPT ![a] = "failed"]
         /\ req' = q /\ UNCHANGED asked

Ends(a, how) ==
    /\ open' = FALSE
    /\ report' = [report EXCEPT ![a] = how]
    /\ pc' = [pc EXCEPT ![a] = "over"]

\* Slip: an answered unsubscribe counts as a stop.
StopAnsweredIsStopped(a) ==
    /\ pc[a] = "stop" /\ req[StopRequest(a)] = "ok"
    /\ Ends(a, "stopped") /\ ended' = TRUE
    /\ req' = Awaited(StopRequest(a))
    /\ UNCHANGED <<childVars, exited, notes, input, failure, strmVars, runVars>>

\* thread/unsubscribe was answered: close() ends stdin, sends SIGTERM, and waits its time out.
StopAnswered(a) ==
    /\ pc[a] = "stop" /\ req[StopRequest(a)] = "ok"
    /\ \/ exited /\ Ends(a, "stopped") /\ UNCHANGED ended
       \/ /\ ~exited
          /\ ended' = TRUE /\ pc' = [pc EXCEPT ![a] = "close"]
          /\ UNCHANGED <<open, report>>
    /\ req' = Awaited(StopRequest(a))
    /\ UNCHANGED <<childVars, exited, notes, input, failure, strmVars, runVars>>

Terminate(a) ==
    \/ ~open /\ report' = [report EXCEPT ![a] = "failed"] /\ pc' = [pc EXCEPT ![a] = "over"] /\ UNCHANGED open
    \/ open /\ exited /\ Ends(a, "terminated")
    \/ open /\ ~exited /\ pc' = [pc EXCEPT ![a] = "term"] /\ UNCHANGED <<open, report>>

StopRefused(a) ==
    /\ pc[a] = "stop" /\ req[StopRequest(a)] = "rejected"
    /\ Terminate(a)
    /\ req' = Awaited(StopRequest(a))
    /\ UNCHANGED <<childVars, ended, exited, notes, input, failure, strmVars, runVars>>

\* The caller's timeout and the delay of close() are both stop_session_timeout_ms; the caller
\* started its own first, so that it fires first.  What close() does after its delay changes
\* nothing: terminate drops the context at the exit, or when it gives up.
StopTimesOut(a) ==
    /\ Quiet /\ pc[a] = "close"
    /\ Terminate(a)
    /\ UNCHANGED <<childVars, ended, exited, req, notes, input, failure, strmVars, runVars>>

\* waitForExit, after SIGTERM or SIGKILL
TermExits(a) ==
    /\ pc[a] \in {"term", "kill"} /\ exited
    /\ Ends(a, "terminated")
    /\ UNCHANGED <<childVars, ended, exited, req, notes, input, failure, strmVars, runVars>>

\* Slip: waitForExit has no timeout.
KillWaits(a) == pc[a] = "kill" /\ exited /\ UNCHANGED vars

TermTimesOut(a) ==
    /\ Quiet /\ pc[a] = "term"
    /\ pc' = [pc EXCEPT ![a] = "kill"]
    /\ UNCHANGED <<childVars, ended, exited, req, ctxVars, strmVars, runVars, report>>

KillTimesOut(a) ==
    /\ Quiet /\ pc[a] = "kill"
    /\ Ends(a, "failed")
    /\ UNCHANGED <<childVars, ended, exited, req, notes, input, failure, strmVars, runVars>>

-----------------------------------------------------------------------------
(* The run: startSession, and then a turn after the other. *)

Launch ==
    /\ pc["run"] = "off"
    /\ \/ child' = "up" /\ asked' = {"initialize"}
       \/ child' = "unborn" /\ UNCHANGED asked
    /\ req' = [req EXCEPT !["initialize"] = "pending"]
    /\ pc' = [pc EXCEPT !["run"] = "initialize"]
    /\ UNCHANGED <<agent, out, lines, ended, exited, ctxVars, strmVars, runVars, report>>

\* transport.close() of a session that did not come about, and after every validate.
Abort(r) ==
    /\ req' = Awaited(r)
    /\ ended' = (ended \/ ~exited)
    /\ pc' = [pc EXCEPT !["run"] = IF exited THEN "over" ELSE "aborting"]
    /\ UNCHANGED <<asked, open>>

Initialized ==
    /\ pc["run"] = "initialize" /\ Settled("initialize")
    /\ \/ /\ req["initialize"] = "ok" /\ purpose = "run"
          /\ Send("thread", Awaited("initialize"))
          /\ pc' = [pc EXCEPT !["run"] = "thread"]
          /\ UNCHANGED <<ended, open>>
       \/ (req["initialize"] = "rejected" \/ purpose = "validate") /\ Abort("initialize")
    /\ UNCHANGED <<child, agent, out, lines, exited, notes, input, failure, strmVars, runVars, report>>

Threaded ==
    /\ pc["run"] = "thread" /\ Settled("thread")
    /\ \/ /\ req["thread"] = "ok"
          /\ open' = TRUE
          /\ pc' = [pc EXCEPT !["run"] = "ready"]
          /\ req' = Awaited("thread")
          /\ UNCHANGED <<asked, ended>>
       \/ req["thread"] = "rejected" /\ Abort("thread")
    /\ UNCHANGED <<child, agent, out, lines, exited, notes, input, failure, strmVars, runVars, report>>

AbortEnds ==
    /\ Quiet /\ pc["run"] = "aborting"
    /\ pc' = [pc EXCEPT !["run"] = "over"]
    /\ UNCHANGED <<childVars, ended, exited, req, ctxVars, strmVars, runVars, report>>

StartTurn ==
    /\ Quiet /\ pc["run"] = "ready"
    /\ IF open
       THEN /\ turn' = turn + 1 /\ Send("turn", req) /\ pc' = [pc EXCEPT !["run"] = "turn"]
       ELSE /\ pc' = [pc EXCEPT !["run"] = "result"] /\ UNCHANGED <<turn, req, asked>>
    /\ UNCHANGED <<child, agent, out, lines, ended, exited, ctxVars, strmVars, purpose, cancelled, result, report>>

TurnStarted ==
    /\ pc["run"] = "turn" /\ Settled("turn")
    /\ pc' = [pc EXCEPT !["run"] = IF req["turn"] = "ok" THEN "begun" ELSE "result"]
    /\ req' = Awaited("turn")
    /\ UNCHANGED <<childVars, ended, exited, ctxVars, strmVars, runVars, report>>

Stream ==
    /\ Quiet /\ pc["run"] = "begun"
    /\ pc' = [pc EXCEPT !["run"] = "stream"]
    /\ strm' = IF open THEN "woken" ELSE "done"
    /\ sres' = IF open THEN "none" ELSE "runner_error"
    /\ UNCHANGED <<childVars, ended, exited, req, ctxVars, runVars, report>>

Forgotten == strm' = "idle" /\ sres' = "none"
GoesOn ==
    \/ pc' = [pc EXCEPT !["run"] = "result"]
    \/ result'[turn] = "completed" /\ turn < MaxTurns /\ pc' = [pc EXCEPT !["run"] = "ready"]

\* Slip: what the stream returns is taken as it is.
StreamReturnsUnchecked ==
    /\ pc["run"] = "stream"
    /\ \/ strm = "done" /\ Forgotten /\ result' = [result EXCEPT ![turn] = sres]
       \/ /\ strm # "done" /\ turn \in cancelled
          /\ result' = [result EXCEPT ![turn] = "cancelled"] /\ UNCHANGED strmVars
    /\ GoesOn
    /\ UNCHANGED <<childVars, ended, exited, req, ctxVars, purpose, turn, cancelled, report>>

\* createCancellableRunner.stream: the stream, or a cancellation, whichever is first; a
\* completion that comes after a cancellation is not accepted.  A completed turn may ask for
\* another one, or fail to (a continuation without a prompt, too many turns).
StreamReturns ==
    /\ pc["run"] = "stream"
    /\ \/ /\ strm = "done" /\ Forgotten
          /\ result' = [result EXCEPT ![turn] =
                 IF turn \in cancelled /\ sres = "completed" THEN "cancelled" ELSE sres]
       \/ /\ strm # "done" /\ turn \in cancelled
          /\ result' = [result EXCEPT ![turn] = "cancelled"] /\ UNCHANGED strmVars
    /\ GoesOn
    /\ UNCHANGED <<childVars, ended, exited, req, ctxVars, purpose, turn, cancelled, report>>

\* finalizeRunnerSession, after hooks and writes
Finalize ==
    /\ Quiet /\ pc["run"] = "result"
    /\ EndSession("run", req)
    /\ \/ strm = "idle" /\ Unheard
       \/ strm # "idle" /\ UNCHANGED <<notes, input, failure>>
    /\ UNCHANGED <<child, agent, out, lines, ended, exited, open, strmVars, runVars>>

-----------------------------------------------------------------------------
(* The canceller: cancelRunnerTurn, then the end of the session. *)

\* run.turn, as the run's record has it
KnownTurn == IF pc["run"] = "turn" THEN turn - 1 ELSE turn

Cancel ==
    /\ Quiet /\ pc["can"] = "off"
    /\ pc["run"] \in {"ready", "turn", "begun", "stream", "result", "stop", "close", "term", "kill"}
    /\ IF KnownTurn = 0
       THEN EndSession("can", req) /\ UNCHANGED cancelled
       ELSE /\ cancelled' = cancelled \cup {KnownTurn}
            /\ SendIfOpen("cancel")
            /\ pc' = [pc EXCEPT !["can"] = "cancel"] /\ UNCHANGED report
    /\ UNCHANGED <<child, agent, out, lines, ended, exited, ctxVars, strmVars, purpose, turn, result>>

CancelReturns ==
    /\ pc["can"] = "cancel" /\ Settled("cancel")
    /\ EndSession("can", Awaited("cancel"))
    /\ UNCHANGED <<child, agent, out, lines, ended, exited, ctxVars, strmVars, runVars>>

-----------------------------------------------------------------------------
AgentStep ==
    \/ Speak \/ Die
    \/ \E r \in Request : Answer(r)
    \/ \E t \in Turn : Finish(t)

StreamStep ==
    StreamReads \/ StreamInterrupts \/ StreamInterrupted \/ StreamFails \/ StreamWaits

EndStep(a) ==
    \/ StopAnswered(a) \/ StopRefused(a) \/ StopTimesOut(a)
    \/ TermExits(a) \/ TermTimesOut(a) \/ KillTimesOut(a)

RunStep ==
    \/ Launch \/ Initialized \/ Threaded \/ AbortEnds \/ StartTurn \/ TurnStarted \/ Stream
    \/ StreamReturns \/ Finalize \/ CancelReturns

DaemonStep ==
    \/ Read \/ HandleExit \/ HandleSpawnError \/ StreamTimesOut
    \/ \E r \in Request : RequestTimesOut(r)
    \/ \E a \in Actor : EndStep(a)
    \/ StreamStep \/ RunStep

\* Nothing is left to do, and nobody can cancel any more.
Finished == pc["run"] = "over" /\ pc["can"] \in {"off", "over"}
Over     == Finished /\ UNCHANGED vars

Next == (~Finished /\ (AgentStep \/ DaemonStep \/ Cancel)) \/ Over

\* The daemon's event loop goes on: whatever can run in it does, and a timer that nobody
\* clears fires.  Nothing is assumed of the app server, and nobody needs to cancel.
Spec == Init /\ [][Next]_vars /\ WF_vars(~Finished /\ DaemonStep)

-----------------------------------------------------------------------------
TypeOK ==
    /\ child \in {"none", "unborn", "up", "dead"}
    /\ agent \in [Turn -> Work] /\ asked \subseteq Request
    /\ out \in Seq(Line) /\ lines \in 0..MaxLines
    /\ ended \in BOOLEAN /\ exited \in BOOLEAN
    /\ req \in [Request -> {"none", "pending", "ok", "rejected"}]
    /\ open \in BOOLEAN /\ notes \in Seq(Note) /\ input \in BOOLEAN
    /\ failure \in {"none", "timed_out", "runner_error"}
    /\ strm \in Strm /\ sres \in Outcome
    /\ purpose \in {"run", "validate"}
    /\ pc \in [Actor -> RunPC \cup StopPC]
    /\ turn \in 0..MaxTurns /\ cancelled \subseteq Turn /\ result \in [Turn -> Outcome]
    /\ report \in [Actor -> {"none", "stopped", "terminated", "failed"}]

(* No lost wake-up: a stream that waits has nothing to wake for.  No event *)
(* that ends a turn (a final, an exit, a protocol error, a request for     *)
(* input, a timeout) is ever noticed only with the next one (waitForContext*)
(* and wake of the runner).                                                *)
NoLostWakeup ==
    strm = "wait" => ~exited /\ ~input /\ failure = "none" /\ ~HasMatching

(* Whoever reports the session stopped or its process terminated, and so   *)
(* asks for no manual intervention, is right: the app server is dead       *)
(* (finalizeRunnerSession; cancelActiveRuns).                              *)
NoOrphan ==
    \A a \in Actor : report[a] \in {"stopped", "terminated"} => child = "dead"

(* The session and the run on it keep the runner's contract.               *)
Contract == INSTANCE RunnerContract WITH alive <- child # "dead"
KeepsContract == Contract!Spec

(* Every run and every validation comes to an end, and with it every       *)
(* cancellation, whatever the app server does or fails to do.              *)
AllEnds == <>(pc["run"] = "over" /\ pc["can"] \in {"off", "over"})
=============================================================================
