--------------------------- MODULE OperatorProofs ----------------------------
(***************************************************************************)
(* What an operator's commands may not do, for any number of requests,     *)
(* attempts, turns and faults: no process is left behind in silence, and   *)
(* no attempt completes after its operator was told of its interruption.   *)
(* And of setup, for any boards, people and failures: it can be repeated,  *)
(* what it configures is there, and a start does not refuse it.            *)
(***************************************************************************)
EXTENDS OperatorCommands, Setup, FiniteSetTheorems, SequenceTheorems, TLAPS

LEMMA Callers ==
    /\ MaxAttempts \in Nat /\ MaxTurns \in Nat /\ MaxFaults \in Nat
    /\ \A q \in Request : q \notin Attempt
BY OperatorCommandsAssumption

-----------------------------------------------------------------------------
(* The inductive invariant. *)

Place   == {"waiting", "starting", "turning", "streaming", "completing", "refreshed", "closing", "ended"}
Outcome == {"none", "retry", "blocked", "completed"}
Run     == [pc : Place, turn : Nat, outcome : Outcome]

Bucket == {"none", "running", "failed", "completed", "cancelled"}
Record == [bucket : Bucket, session : BOOLEAN, turn : Nat]
Status == [runs : [Attempt -> Record], card : Bucket \cup {"unknown", "queued"},
           paused : BOOLEAN, preserved : SUBSET Attempt]

Effect == [severity : {"none", "info", "warning", "error"}, done : BOOLEAN]

Asked ==
    [pc      : {"idle", "reading", "calling", "settled", "interrupting", "interrupted", "refused",
                "stopping", "answered"},
     command : Command \cup {NoCommand},
     status  : Status \cup {<<>>},
     outcome : {"none", "rejected", "unavailable", "accepted"},
     effect  : Effect,
     turn    : Nat]

Types ==
    /\ run \in [Attempt -> Run]
    /\ manual \subseteq Attempt
    /\ record \in [Attempt -> Record]
    /\ sessions \subseteq Attempt
    /\ proc \in [Attempt -> {"none", "up", "ending", "down"}]
    /\ turn \in [Attempt -> {"none", "running", "completed", "continues", "failed", "interrupted"}]
    /\ stop \in [Attempt \cup Request -> {"none", "unsubscribing", "closing", "stopped", "failed"}]
    /\ column \in {"ready", "done", "elsewhere"}
    /\ request \in [Request -> Asked]
    /\ faults \in Nat
    /\ \A q \in Request : request[q].pc = "reading" => request[q].status \in Status

(* An attempt stops its session only where it ends, and by then opens no other;
   until its record has a session, no process runs for it. *)
Leaves(a) ==
    /\ stop[a] # "none" => run[a].pc \in {"closing", "ended"}
    /\ stop[a] = "stopped" => proc[a] = "down"
    /\ run[a].pc \in {"waiting", "starting"} => ~record[a].session
    /\ ~record[a].session => proc[a] \in {"none", "down"}
    /\ run[a].pc = "ended" /\ a \notin manual => proc[a] \in {"none", "down"}

(* While a turn runs, and for good once it was interrupted, its attempt waits
   for it or has failed. *)
Interruptible(a) ==
    /\ run[a].pc \notin {"closing", "ended"} => run[a].outcome = "none"
    /\ turn[a] \in {"running", "interrupted"} =>
          \/ run[a].pc = "streaming"
          \/ run[a].pc \in {"closing", "ended"} /\ run[a].outcome # "completed"

(* What a request knows of the interruption it asked for. *)
Truthful(q) ==
    /\ request[q].pc \in {"interrupting", "interrupted", "refused"} =>
          request[q].command.type = "run.cancel" /\ request[q].command.attempt \in Attempt
    /\ request[q].pc \in {"idle", "reading", "settled"} => ~request[q].effect.done
    /\ request[q].pc \in {"stopping", "calling"} => request[q].command.type # "run.cancel"
    /\ request[q].pc = "interrupted" => turn[request[q].command.attempt] = "interrupted"
    /\ Succeeded(q, "run.cancel") =>
          request[q].command.attempt \in Attempt /\ turn[request[q].command.attempt] = "interrupted"

LeavesInv    == Types /\ \A a \in Attempt : Leaves(a)
InterruptInv ==
    /\ Types
    /\ \A a \in Attempt : Interruptible(a)
    /\ \A q \in Request : Truthful(q)

-----------------------------------------------------------------------------
(* Types. *)

LEMMA CommandFields ==
    ASSUME NEW c \in Command
    PROVE  /\ c.type \in {"run.cancel", "session.stop", "worktree.preserve", "worktree.cleanup"} =>
                 c.attempt \in Attempt
           /\ c.type = "run.cancel" => c.attempt \in Attempt
BY DEF Command, Malformed

LEMMA AppliedTypes ==
    ASSUME NEW c \in Command, NEW s \in Status
    PROVE  Applied(c, s) \in Status
<1>1. CASE c.type \in {"run.cancel", "session.stop"}
  <2>1. c.attempt \in Attempt /\ s.runs \in [Attempt -> Record] /\ s.runs[c.attempt] \in Record
      BY <1>1, CommandFields DEF Status
  <2>2. [s.runs[c.attempt] EXCEPT !.bucket = "cancelled"] \in Record
      BY <2>1 DEF Record, Bucket
  <2>3. [s.runs EXCEPT ![c.attempt].bucket = "cancelled"] \in [Attempt -> Record]
      BY <2>1, <2>2
  <2>4. Applied(c, s) = [s EXCEPT !.runs = [s.runs EXCEPT ![c.attempt].bucket = "cancelled"], !.card = "cancelled"]
      BY <1>1 DEF Applied, Status
  <2>. QED BY <2>3, <2>4 DEF Status, Bucket
<1>2. CASE c.type \in {"worktree.preserve", "worktree.cleanup"}
    BY <1>2, CommandFields DEF Applied, Status
<1>3. CASE c.type \in {"dispatch.pause", "dispatch.resume", "card.rerun"}
    BY <1>3 DEF Applied, Status, Bucket
<1>4. CASE c.type \in {"card.move", "unknown"}
    BY <1>4 DEF Applied
<1>. QED
    BY <1>1, <1>2, <1>3, <1>4 DEF Command, Malformed

LEMMA PutRunTypes ==
    ASSUME Types, NEW a \in Attempt, NEW bucket \in Bucket, NEW session \in BOOLEAN, NEW number \in Nat,
           PutRun(a, bucket, session, number)
    PROVE  /\ record' \in [Attempt -> Record]
           /\ \A b \in Attempt \ {a} : record'[b] = record[b]
           /\ record'[a].session = (record[a].session \/ session)
<1>1. record[a] \in Record
    BY DEF Types
<1>2. Normalized(record[a], bucket, session, number) \in Record
    BY <1>1 DEF Normalized, Record
<1>. QED
    BY <1>2 DEF Types, PutRun, Normalized

LEMMA StopTypes ==
    ASSUME Types, NEW x \in Attempt \cup Request, NEW a \in Attempt, StopBegins(x, a)
    PROVE  /\ stop' \in [Attempt \cup Request -> {"none", "unsubscribing", "closing", "stopped", "failed"}]
           /\ \A y \in Attempt \cup Request : y # x => stop'[y] = stop[y]
           /\ stop'[x] \in {"unsubscribing", "failed"}
BY DEF Types, StopBegins

LEMMA FailsTypes ==
    ASSUME Types, NEW a \in Attempt, NEW outcome \in {"retry", "blocked"}, Fails(a, outcome)
    PROVE  /\ run' \in [Attempt -> Run]
           /\ record' \in [Attempt -> Record]
           /\ stop' \in [Attempt \cup Request -> {"none", "unsubscribing", "closing", "stopped", "failed"}]
           /\ \A b \in Attempt \ {a} : run'[b] = run[b] /\ stop'[b] = stop[b]
           /\ \A b \in Attempt : record'[b].session = record[b].session
           /\ run'[a].outcome = outcome
           /\ \/ record[a].session /\ run'[a].pc = "closing" /\ stop'[a] \in {"unsubscribing", "failed"}
              \/ ~record[a].session /\ run'[a].pc = "ended" /\ stop'[a] = stop[a]
<1>1. /\ record' \in [Attempt -> Record]
      /\ \A b \in Attempt : record'[b].session = record[b].session
  <2>1. "failed" \in Bucket /\ FALSE \in BOOLEAN /\ 0 \in Nat
      BY DEF Bucket
  <2>. QED BY <2>1, PutRunTypes DEF Fails, Types, Record
<1>2. /\ run' \in [Attempt -> Run] /\ \A b \in Attempt \ {a} : run'[b] = run[b]
      /\ run'[a].outcome = outcome
      /\ run'[a].pc = IF record[a].session THEN "closing" ELSE "ended"
  <2>1. /\ run \in [Attempt -> Run]
        /\ run' = [run EXCEPT ![a].outcome = outcome,
                              ![a].pc = IF record[a].session THEN "closing" ELSE "ended"]
      BY DEF Fails, Types
  <2>. QED BY <2>1 DEF Run, Place, Outcome
<1>3. /\ stop' \in [Attempt \cup Request -> {"none", "unsubscribing", "closing", "stopped", "failed"}]
      /\ \A b \in Attempt \ {a} : stop'[b] = stop[b]
      /\ IF record[a].session THEN stop'[a] \in {"unsubscribing", "failed"} ELSE stop'[a] = stop[a]
    BY StopTypes DEF Fails, Types
<1>. QED
    BY <1>1, <1>2, <1>3

LEMMA EffectTypes ==
    /\ NoEffect \in Effect /\ Warning \in Effect /\ Error \in Effect
    /\ Info(TRUE) \in Effect /\ Info(FALSE) \in Effect
    /\ ~NoEffect.done /\ ~Warning.done /\ ~Error.done /\ ~Info(FALSE).done
BY DEF Effect, NoEffect, Warning, Error, Info

LEMMA NoRequestTypes ==
    /\ NoRequest \in Asked /\ NoRequest.command = NoCommand /\ NoRequest.effect = NoEffect
BY EffectTypes DEF Asked, NoRequest

(* A request is changed by one of its own steps, alone. *)
LEMMA AcceptsTypes ==
    ASSUME Types, NEW q \in Request, NEW c \in Command, request[q].pc = "reading",
           NEW to \in {"settled", "interrupting", "stopping", "calling"},
           NEW effect \in Effect, Accepts(q, c, to, effect)
    PROVE  /\ request' \in [Request -> Asked]
           /\ \A r \in Request : request'[r].pc = "reading" => request'[r].status \in Status
           /\ \A r \in Request \ {q} : request'[r] = request[r]
           /\ request'[q].pc = to /\ request'[q].command = c /\ request'[q].effect = effect
<1>1. request \in [Request -> Asked] /\ request[q] \in Asked /\ request[q].status \in Status
    BY DEF Types
<1>2. Applied(c, request[q].status) \in Status
    BY <1>1, AppliedTypes
<1>4. (IF c.type = "run.cancel" THEN request[q].status.runs[c.attempt].turn ELSE 0) \in Nat
  <2>1. c.type = "run.cancel" => request[q].status.runs[c.attempt] \in Record
      BY <1>1, CommandFields DEF Status
  <2>. QED BY <2>1 DEF Record
<1>5. /\ \A r \in Request \ {q} : request'[r] = request[r]
      /\ request' = [request EXCEPT ![q] = request'[q]]
      /\ request'[q] = [request[q] EXCEPT !.pc = to, !.command = c, !.effect = effect,
                                          !.status = Applied(c, request[q].status),
                                          !.turn = IF c.type = "run.cancel"
                                                   THEN request[q].status.runs[c.attempt].turn ELSE 0]
    BY <1>1 DEF Accepts
<1>6. request'[q] \in Asked
    BY <1>1, <1>2, <1>4, <1>5 DEF Asked
<1>7. request'[q].pc = to /\ request'[q].command = c /\ request'[q].effect = effect
    BY <1>1, <1>5 DEF Asked
<1>8. request' \in [Request -> Asked]
    BY <1>1, <1>5, <1>6
<1>9. \A r \in Request : request'[r].pc = "reading" => request'[r].status \in Status
    BY <1>5, <1>7 DEF Types
<1>. QED
    BY <1>5, <1>7, <1>8, <1>9

LEMMA AnswersTypes ==
    ASSUME Types, NEW q \in Request, NEW effect \in Effect, Answers(q, effect)
    PROVE  /\ request' \in [Request -> Asked]
           /\ \A r \in Request : request'[r].pc = "reading" => request'[r].status \in Status
           /\ \A r \in Request \ {q} : request'[r] = request[r]
           /\ request'[q].pc = "answered" /\ request'[q].command = request[q].command
           /\ request'[q].effect = effect
<1>1. request \in [Request -> Asked] /\ request[q] \in Asked
    BY DEF Types
<1>2. /\ \A r \in Request \ {q} : request'[r] = request[r]
      /\ request' = [request EXCEPT ![q] = request'[q]]
      /\ request'[q] = [NoRequest EXCEPT !.pc = "answered", !.outcome = "accepted",
                                         !.command = request[q].command, !.effect = effect]
    BY <1>1 DEF Answers
<1>3. request'[q] \in Asked /\ request'[q].pc = "answered"
      /\ request'[q].command = request[q].command /\ request'[q].effect = effect
    BY <1>1, <1>2, NoRequestTypes DEF Asked
<1>4. request' \in [Request -> Asked]
    BY <1>1, <1>2, <1>3
<1>5. \A r \in Request : request'[r].pc = "reading" => request'[r].status \in Status
    BY <1>2, <1>3 DEF Types
<1>. QED
    BY <1>2, <1>3, <1>4, <1>5

LEMMA SubmitTypes ==
    ASSUME Types, NEW q \in Request, NEW c \in Command, Submit(q, c)
    PROVE  /\ UNCHANGED <<daemon, runner, column, faults>>
           /\ request' \in [Request -> Asked]
           /\ stop' \in [Attempt \cup Request -> {"none", "unsubscribing", "closing", "stopped", "failed"}]
           /\ \A a \in Attempt : stop'[a] = stop[a]
           /\ \A r \in Request : request'[r].pc = "reading" => request'[r].status \in Status
           /\ \A r \in Request \ {q} : request'[r] = request[r]
           /\ request'[q].pc \in {"interrupting", "stopping", "calling", "settled", "answered"}
           /\ request'[q].pc = "interrupting" => request'[q].command.type = "run.cancel"
           /\ request'[q].pc \in {"stopping", "calling"} => request'[q].command.type # "run.cancel"
           /\ request'[q].command \in Command \cup {NoCommand}
           /\ ~request'[q].effect.done
<1>0. /\ request \in [Request -> Asked] /\ request[q] \in Asked /\ request[q].pc = "reading"
      /\ ~NoEffect.done /\ ~Warning.done /\ ~Info(FALSE).done
    BY EffectTypes DEF Types, Submit
<1>1. ASSUME NEW outcome \in {"rejected", "unavailable"}, Refuses(q, outcome) PROVE
          /\ request' \in [Request -> Asked]
          /\ \A r \in Request \ {q} : request'[r] = request[r]
          /\ request'[q].pc = "answered" /\ request'[q].command = NoCommand /\ ~request'[q].effect.done
  <2>. DEFINE answer == [NoRequest EXCEPT !.pc = "answered", !.outcome = outcome]
  <2>1. /\ answer \in Asked /\ answer.pc = "answered"
        /\ answer.command = NoCommand /\ answer.effect = NoEffect
      BY NoRequestTypes DEF Asked
  <2>2. request' = [request EXCEPT ![q] = answer]
      BY <1>1 DEF Refuses
  <2>. HIDE DEF answer
  <2>. QED BY <1>0, <2>1, <2>2
<1>2. ASSUME NEW outcome \in {"rejected", "unavailable"}, Refuses(q, outcome)
      PROVE  \A r \in Request : request'[r].pc = "reading" => request'[r].status \in Status
    BY <1>1, <1>2 DEF Types
<1>3. CASE \E outcome \in {"rejected", "unavailable"} : Refuses(q, outcome)
    BY <1>1, <1>2, <1>3 DEF Refuses, Types
<1>4. CASE Cancel(q, c)
  <2>1. c.type = "run.cancel" /\ UNCHANGED <<daemon, runner, stop, column, faults>>
      BY <1>4 DEF Cancel
  <2>2. PICK to \in {"settled", "interrupting"}, effect \in {NoEffect, Warning, Info(FALSE)} :
            Accepts(q, c, to, effect)
      BY <1>4 DEF Cancel, CancelEffect
  <2>p. to \in {"settled", "interrupting", "stopping", "calling"} /\ effect \in Effect /\ ~effect.done
      BY EffectTypes
  <2>3. /\ request' \in [Request -> Asked]
        /\ \A r \in Request : request'[r].pc = "reading" => request'[r].status \in Status
        /\ \A r \in Request \ {q} : request'[r] = request[r]
        /\ request'[q].pc = to /\ request'[q].command = c /\ request'[q].effect = effect
      BY <1>0, <2>2, <2>p, AcceptsTypes
  <2>. QED BY <2>1, <2>3, <2>p DEF Types
<1>5. CASE StopSession(q, c)
  <2>1. c.attempt \in Attempt
      BY <1>5, CommandFields DEF StopSession
  <2>2. /\ stop' \in [Attempt \cup Request -> {"none", "unsubscribing", "closing", "stopped", "failed"}]
        /\ \A a \in Attempt : stop'[a] = stop[a]
      BY <1>5, <2>1, StopTypes, Callers DEF StopSession
  <2>. QED BY <1>0, <1>5, <2>2, AcceptsTypes, EffectTypes DEF StopSession
<1>6. CASE OnCard(q, c)
    BY <1>0, <1>6, AcceptsTypes, EffectTypes DEF OnCard, Types
<1>7. CASE ModelOnly(q, c)
    BY <1>0, <1>7, AcceptsTypes, EffectTypes DEF ModelOnly, Types
<1>. QED
    BY <1>3, <1>4, <1>5, <1>6, <1>7 DEF Submit

LEMMA ProjectionTypes ==
    ASSUME Types
    PROVE  Projection \in Status
BY DEF Types, Projection, CardOf, Status, Bucket

LEMMA TypesInit == Init => Types
<1>1. NoRecord \in Record
    BY DEF NoRecord, Record, Bucket
<1>2. NoRequest.pc = "idle"
    BY DEF NoRequest
<1>. QED
    BY <1>1, <1>2, NoRequestTypes DEF Init, Types, Run, Place, Outcome

(* What an attempt's own steps leave of the other attempts. *)
LEMMA RunTypes ==
    ASSUME Types, NEW a \in Attempt, RunStep(a)
    PROVE  Types'
<1>. USE DEF daemon, runner
<1>0. {"running", "failed", "completed"} \subseteq Bucket
    BY DEF Bucket
<1>1. CASE StartRun(a)
  <2>1. record' \in [Attempt -> Record]
      BY <1>0, <1>1, PutRunTypes DEF StartRun
  <2>2. run' \in [Attempt -> Run]
      BY <1>1 DEF StartRun, Goes, Types, Run, Place
  <2>. QED BY <1>1, <2>1, <2>2 DEF StartRun, Types
<1>2. CASE OpenSession(a)
  <2>1. CASE Fault /\ Fails(a, "retry") /\ UNCHANGED <<sessions, proc>>
    <3>1. faults' \in Nat
        BY <2>1 DEF Fault, Types
    <3>. QED BY <1>2, <2>1, <3>1, FailsTypes DEF OpenSession, Types
  <2>2. CASE /\ PutRun(a, "running", TRUE, 0) /\ Goes(a, "turning")
             /\ sessions' = sessions \cup {a} /\ proc' = [proc EXCEPT ![a] = "up"]
             /\ UNCHANGED <<stop, faults>>
    <3>1. record' \in [Attempt -> Record]
        BY <1>0, <2>2, PutRunTypes
    <3>2. run' \in [Attempt -> Run]
        BY <2>2 DEF Goes, Types, Run, Place
    <3>. QED BY <1>2, <2>2, <3>1, <3>2 DEF OpenSession, Types
  <2>. QED BY <1>2, <2>1, <2>2 DEF OpenSession
<1>3. CASE StartTurn(a)
  <2>1. CASE Fails(a, "retry") /\ UNCHANGED turn
      BY <1>3, <2>1, FailsTypes DEF StartTurn, Types
  <2>2. CASE /\ run' = [run EXCEPT ![a].pc = "streaming", ![a].turn = @ + 1]
             /\ PutRun(a, "running", TRUE, run[a].turn + 1)
             /\ turn' = [turn EXCEPT ![a] = "running"] /\ UNCHANGED stop
    <3>1. run[a].turn + 1 \in Nat
        BY DEF Types, Run
    <3>2. record' \in [Attempt -> Record]
        BY <1>0, <2>2, <3>1, PutRunTypes
    <3>3. run' \in [Attempt -> Run]
        BY <2>2, <3>1 DEF Types, Run, Place
    <3>. QED BY <1>3, <2>2, <3>2, <3>3 DEF StartTurn, Types
  <2>. QED BY <1>3, <2>1, <2>2 DEF StartTurn
<1>4. CASE TurnReturns(a)
  <2>1. CASE Fails(a, "retry")
      BY <1>4, <2>1, FailsTypes DEF TurnReturns, Types
  <2>2. CASE \E to \in {"completing", "turning"} : Goes(a, to) /\ UNCHANGED <<record, stop>>
    <3>1. run' \in [Attempt -> Run]
        BY <2>2 DEF Goes, Types, Run, Place
    <3>. QED BY <1>4, <2>2, <3>1 DEF TurnReturns, Types
  <2>. QED BY <1>4, <2>1, <2>2 DEF TurnReturns
<1>5. CASE StreamBreaks(a)
    BY <1>5, FailsTypes DEF StreamBreaks, Types
<1>6. CASE Refresh(a)
  <2>1. CASE Fails(a, "blocked")
      BY <1>6, <2>1, FailsTypes DEF Refresh, Types
  <2>2. CASE Goes(a, "refreshed") /\ UNCHANGED <<record, stop>>
    <3>1. run' \in [Attempt -> Run]
        BY <2>2 DEF Goes, Types, Run, Place
    <3>2. UNCHANGED <<manual, record, stop, runner, column, request, faults>>
        BY <1>6, <2>2 DEF Refresh
    <3>. QED BY <3>1, <3>2 DEF Types, runner
  <2>. QED BY <1>6, <2>1, <2>2 DEF Refresh
<1>7. CASE ApplyPolicy(a)
  <2>1. run' \in [Attempt -> Run]
    <3>1. run \in [Attempt -> Run]
        BY DEF Types
    <3>2. run' = [run EXCEPT ![a].pc = "closing", ![a].outcome = "completed"]
        BY <1>7 DEF ApplyPolicy
    <3>. QED BY <3>1, <3>2 DEF Run, Place, Outcome
  <2>. QED BY <1>7, <2>1, StopTypes DEF ApplyPolicy, Types
<1>8. CASE Finalize(a)
  <2>1. run' \in [Attempt -> Run]
      BY <1>8 DEF Finalize, Goes, Types, Run, Place
  <2>2. record' \in [Attempt -> Record]
      BY <1>0, <1>8, PutRunTypes DEF Finalize, Types
  <2>3. /\ manual' \subseteq Attempt /\ sessions' \subseteq Attempt
        /\ proc' \in [Attempt -> {"none", "up", "ending", "down"}] /\ faults' \in Nat
      BY <1>8, Callers DEF Finalize, Fault, Types
  <2>. QED BY <1>8, <2>1, <2>2, <2>3 DEF Finalize, Types
<1>. QED
    BY <1>1, <1>2, <1>3, <1>4, <1>5, <1>6, <1>7, <1>8 DEF RunStep

LEMMA StopStepTypes ==
    ASSUME Types, NEW x \in Attempt \cup Request, StopStep(x)
    PROVE  Types'
BY Callers DEF StopStep, Unsubscribed, Unanswered, CloseReturns, Fault, Types, daemon, runner

LEMMA RequestTypes ==
    ASSUME Types, NEW q \in Request, RequestStep(q)
    PROVE  /\ Types'
           /\ UNCHANGED <<run, manual, record, sessions, proc, stop>>
           /\ \A a \in Attempt : turn'[a] # turn[a] => turn[a] = "running" /\ turn'[a] = "interrupted"
           /\ \A r \in Request \ {q} : request'[r] = request[r]
<1>. USE DEF daemon, runner
<1>0. request[q] \in Asked /\ request[q].effect \in Effect
    BY DEF Types, Asked
<1>1. CASE Respond(q)
  <2>1. PICK effect \in Effect : Answers(q, effect)
      BY <1>0, <1>1 DEF Respond
  <2>. QED BY <1>1, <2>1, AnswersTypes DEF Respond, Types
<1>2. CASE Interrupt(q)
  <2>1. request' \in [Request -> Asked] /\ \A r \in Request \ {q} : request'[r] = request[r]
      BY <1>0, <1>2 DEF Interrupt, Types, Asked
  <2>2. \A r \in Request : request'[r].pc = "reading" => request'[r].status \in Status
      BY <1>2 DEF Interrupt, Types, Asked
  <2>. QED BY <1>2, <2>1, <2>2 DEF Interrupt, Types
<1>3. CASE CancelReturns(q)
  <2>1. PICK effect \in Effect : Answers(q, effect)
    <3>1. Answers(q, Info(TRUE)) \/ Answers(q, Info(FALSE))
        BY <1>3, Zenon DEF CancelReturns, CancelEffect
    <3>. QED BY <3>1, EffectTypes, Zenon
  <2>2. (faults' = faults \/ Fault) /\ UNCHANGED <<daemon, runner, stop, column>>
      BY <1>3, Zenon DEF CancelReturns
  <2>3. faults' \in Nat
      BY <2>2 DEF Fault, Types
  <2>. QED BY <2>1, <2>2, <2>3, AnswersTypes DEF Types
<1>4. CASE StopReturns(q)
  <2>1. PICK effect \in Effect : Answers(q, effect)
    <3>1. (IF stop[q] = "stopped" THEN Info(TRUE) ELSE Error) \in Effect
        BY EffectTypes
    <3>. QED BY <1>4, <3>1 DEF StopReturns
  <2>. QED BY <1>4, <2>1, AnswersTypes DEF StopReturns, Types
<1>5. CASE CardReturns(q)
  <2>1. PICK effect \in Effect : Answers(q, effect)
    <3>1. Answers(q, Info(TRUE)) \/ Answers(q, Error)
        BY <1>5, Zenon DEF CardReturns
    <3>. QED BY <3>1, EffectTypes, Zenon
  <2>2. /\ faults' = faults \/ Fault
        /\ column' = (IF request[q].command.type = "card.move" THEN "elsewhere" ELSE column)
           \/ column' = column
        /\ UNCHANGED <<daemon, runner, stop>>
      BY <1>5, Zenon DEF CardReturns
  <2>3. faults' \in Nat /\ column' \in {"ready", "done", "elsewhere"}
      BY <2>2 DEF Fault, Types
  <2>. QED BY <2>1, <2>2, <2>3, AnswersTypes DEF Types
<1>. QED
    BY <1>1, <1>2, <1>3, <1>4, <1>5 DEF RequestStep

LEMMA ReceiveTypes ==
    ASSUME Types, NEW q \in Request, Receive(q)
    PROVE  /\ Types'
           /\ UNCHANGED <<daemon, runner, stop>>
           /\ \A r \in Request \ {q} : request'[r] = request[r]
           /\ request[q].pc = "idle" /\ request'[q].pc = "reading"
           /\ request'[q].command = request[q].command /\ request'[q].effect = request[q].effect
<1>1. /\ request' = [request EXCEPT ![q] = request'[q]] /\ request[q] \in Asked
      /\ request'[q] = [request[q] EXCEPT !.pc = "reading", !.status = Projection]
    BY DEF Receive, Types
<1>2. request'[q] \in Asked /\ request'[q].status \in Status /\ request'[q].pc = "reading"
      /\ request'[q].command = request[q].command /\ request'[q].effect = request[q].effect
    BY <1>1, ProjectionTypes DEF Asked
<1>. QED
    BY <1>1, <1>2 DEF Receive, Types, daemon, runner

LEMMA TypesStep == Types /\ [Next]_vars => Types'
<1>. SUFFICES ASSUME Types, [Next]_vars PROVE Types'
    OBVIOUS
<1>. USE DEF daemon, runner
<1>1. ASSUME NEW a \in Attempt, TurnEnds(a) PROVE Types'
    BY <1>1 DEF TurnEnds, Types
<1>2. ASSUME NEW a \in Attempt, Exits(a) PROVE Types'
    BY <1>2, Callers DEF Exits, Fault, Types
<1>3. ASSUME NEW q \in Request, NEW c \in Command, Submit(q, c) PROVE Types'
    BY <1>3, SubmitTypes DEF Types
<1>4. CASE UNCHANGED vars
    BY <1>4 DEF Types, vars
<1>. QED
    BY <1>1, <1>2, <1>3, <1>4, RunTypes, StopStepTypes, RequestTypes, ReceiveTypes DEF Next

(***************************************************************************)
(* Every variable of the commands and of the attempts beside them keeps    *)
(* its type: a command is checked against a status there really was.       *)
(***************************************************************************)
THEOREM TypeCorrect == Spec => []Types
BY TypesInit, TypesStep, PTL DEF Spec

-----------------------------------------------------------------------------
(* An attempt's step leaves the others alone. *)

LEMMA RunOthers ==
    ASSUME Types, NEW a \in Attempt, RunStep(a), NEW b \in Attempt, b # a
    PROVE  /\ run'[b] = run[b] /\ record'[b].session = record[b].session
           /\ proc'[b] = proc[b] /\ turn'[b] = turn[b] /\ stop'[b] = stop[b]
           /\ b \in manual' <=> b \in manual
<1>. USE DEF daemon, runner
<1>1. ASSUME NEW to, Goes(a, to) PROVE run'[b] = run[b]
    BY <1>1 DEF Goes, Types
<1>2. ASSUME NEW bucket, NEW session, NEW number, PutRun(a, bucket, session, number)
      PROVE  record'[b] = record[b]
    BY <1>2 DEF PutRun, Types
<1>3. ASSUME NEW outcome, Fails(a, outcome)
      PROVE  run'[b] = run[b] /\ record'[b] = record[b] /\ stop'[b] = stop[b]
    BY <1>2, <1>3 DEF Fails, StopBegins, Types
<1>4. CASE StartRun(a) \/ TurnReturns(a) \/ StreamBreaks(a) \/ Refresh(a)
    BY <1>1, <1>2, <1>3, <1>4 DEF StartRun, TurnReturns, StreamBreaks, Refresh
<1>5. CASE OpenSession(a)
    BY <1>1, <1>2, <1>3, <1>5 DEF OpenSession, Types
<1>6. CASE StartTurn(a)
    BY <1>2, <1>3, <1>6 DEF StartTurn, Types
<1>7. CASE ApplyPolicy(a)
    BY <1>7 DEF ApplyPolicy, StopBegins, Types
<1>8. CASE Finalize(a)
    BY <1>1, <1>2, <1>8 DEF Finalize, Types
<1>. QED
    BY <1>4, <1>5, <1>6, <1>7, <1>8 DEF RunStep

-----------------------------------------------------------------------------
(* No process is left behind. *)

LEMMA LeavesInit == Init => LeavesInv
<1>1. ASSUME Init, NEW a \in Attempt PROVE Leaves(a)
    BY <1>1 DEF Init, Leaves, NoRecord
<1>. QED
    BY <1>1, TypesInit DEF LeavesInv

LEMMA LeavesFails ==
    ASSUME Types, NEW a \in Attempt, NEW outcome \in {"retry", "blocked"}, Leaves(a),
           run[a].pc \notin {"closing", "ended"}, Fails(a, outcome), proc' = proc, manual' = manual
    PROVE  Leaves(a)'
<1>1. /\ record'[a].session = record[a].session
      /\ \/ record[a].session /\ run'[a].pc = "closing" /\ stop'[a] \in {"unsubscribing", "failed"}
         \/ ~record[a].session /\ run'[a].pc = "ended" /\ stop'[a] = stop[a]
    BY FailsTypes
<1>. QED
    BY <1>1 DEF Leaves

LEMMA LeavesRun ==
    ASSUME Types, NEW a \in Attempt, Leaves(a), RunStep(a)
    PROVE  Leaves(a)'
<1>. USE DEF daemon, runner
<1>0. run[a] \in Run /\ a \in Attempt \cup Request
    BY DEF Types
<1>1. ASSUME NEW to, Goes(a, to) PROVE run'[a].pc = to
    BY <1>0, <1>1 DEF Goes, Types, Run
<1>2. ASSUME NEW outcome \in {"retry", "blocked"}, Fails(a, outcome), UNCHANGED <<proc, manual>>,
             run[a].pc \notin {"closing", "ended"}
      PROVE  Leaves(a)'
    BY <1>2, LeavesFails
<1>b. {"running", "completed"} \subseteq Bucket
    BY DEF Bucket
<1>3. CASE StartRun(a)
  <2>1. record'[a].session = record[a].session
      BY <1>3, <1>b, PutRunTypes DEF StartRun, Types, Record
  <2>2. run'[a].pc = "starting" /\ run[a].pc = "waiting"
      BY <1>1, <1>3 DEF StartRun
  <2>. QED BY <1>3, <2>1, <2>2 DEF StartRun, Leaves
<1>4. CASE OpenSession(a)
  <2>1. CASE Fault /\ Fails(a, "retry") /\ UNCHANGED <<sessions, proc>>
      BY <1>2, <1>4, <2>1 DEF OpenSession
  <2>2. CASE /\ PutRun(a, "running", TRUE, 0) /\ Goes(a, "turning") /\ UNCHANGED stop
    <3>1. record'[a].session
        BY <1>b, <2>2, PutRunTypes
    <3>2. run'[a].pc = "turning" /\ stop'[a] = "none"
        BY <1>1, <1>4, <2>2 DEF OpenSession, Leaves
    <3>. QED BY <3>1, <3>2 DEF Leaves
  <2>. QED BY <1>4, <2>1, <2>2 DEF OpenSession
<1>5. CASE StartTurn(a)
  <2>1. CASE Fails(a, "retry") /\ UNCHANGED turn
      BY <1>2, <1>5, <2>1 DEF StartTurn
  <2>2. CASE /\ run' = [run EXCEPT ![a].pc = "streaming", ![a].turn = @ + 1]
             /\ PutRun(a, "running", TRUE, run[a].turn + 1) /\ UNCHANGED stop
    <3>1. record'[a].session
      <4>1. run[a].turn + 1 \in Nat
          BY <1>0 DEF Run
      <4>. QED BY <1>b, <2>2, <4>1, PutRunTypes
    <3>2. run'[a].pc = "streaming" /\ stop'[a] = "none"
        BY <1>0, <1>5, <2>2 DEF StartTurn, Leaves, Types, Run
    <3>. QED BY <3>1, <3>2 DEF Leaves
  <2>. QED BY <1>5, <2>1, <2>2 DEF StartTurn
<1>6. CASE TurnReturns(a)
  <2>1. CASE \E to \in {"completing", "turning"} : Goes(a, to) /\ UNCHANGED <<record, stop>>
      BY <1>1, <1>6, <2>1 DEF TurnReturns, Leaves
  <2>. QED BY <1>2, <1>6, <2>1 DEF TurnReturns
<1>7. CASE StreamBreaks(a)
    BY <1>2, <1>7 DEF StreamBreaks
<1>8. CASE Refresh(a)
  <2>1. CASE Goes(a, "refreshed") /\ UNCHANGED <<record, stop>>
      BY <1>1, <1>8, <2>1 DEF Refresh, Leaves
  <2>. QED BY <1>2, <1>8, <2>1 DEF Refresh
<1>9. CASE ApplyPolicy(a)
  <2>1. stop'[a] \in {"unsubscribing", "failed"}
      BY <1>0, <1>9, StopTypes DEF ApplyPolicy
  <2>2. run'[a].pc = "closing"
      BY <1>0, <1>9 DEF ApplyPolicy, Types, Run
  <2>. QED BY <1>9, <2>1, <2>2 DEF ApplyPolicy, Leaves
<1>10. CASE Finalize(a)
  <2>1. record'[a].session = record[a].session
      BY <1>10, <1>b, PutRunTypes DEF Finalize, Types, Record
  <2>2. run'[a].pc = "ended" /\ stop'[a] = stop[a] /\ run[a].pc = "closing"
      BY <1>1, <1>10 DEF Finalize
  <2>3. \/ stop[a] = "stopped" /\ proc' = proc /\ manual' = manual
        \/ stop[a] = "failed" /\ proc' = proc /\ a \in manual'
        \/ stop[a] = "failed" /\ proc'[a] = "down"
      BY <1>10 DEF Finalize, Types
  <2>4. record[a].session \/ proc[a] \in {"none", "down"}
      BY DEF Leaves
  <2>. QED BY <2>1, <2>2, <2>3, <2>4 DEF Leaves
<1>. QED
    BY <1>3, <1>4, <1>5, <1>6, <1>7, <1>8, <1>9, <1>10 DEF RunStep

LEMMA LeavesStep == LeavesInv /\ [Next]_vars => LeavesInv'
<1>. SUFFICES ASSUME LeavesInv, [Next]_vars, NEW b \in Attempt PROVE Leaves(b)'
    BY TypesStep DEF LeavesInv
<1>. USE DEF daemon, runner
<1>0. Types /\ Leaves(b) /\ b \in Attempt \cup Request
    BY DEF LeavesInv
<1>1. ASSUME NEW a \in Attempt, RunStep(a) PROVE Leaves(b)'
  <2>1. CASE b = a
      BY <1>0, <1>1, <2>1, LeavesRun
  <2>2. CASE b # a
      BY <1>0, <1>1, <2>2, RunOthers DEF Leaves
  <2>. QED BY <2>1, <2>2
<1>2. ASSUME NEW a \in Attempt, TurnEnds(a) PROVE Leaves(b)'
    BY <1>0, <1>2 DEF TurnEnds, Leaves
<1>3. ASSUME NEW a \in Attempt, Exits(a) PROVE Leaves(b)'
  <2>1. proc'[b] = proc[b] \/ proc'[b] = "down"
      BY <1>0, <1>3 DEF Exits, Types
  <2>. QED BY <1>0, <1>3, <2>1 DEF Exits, Leaves
<1>4. ASSUME NEW x \in Attempt \cup Request, StopStep(x) PROVE Leaves(b)'
  <2>1. CASE Unsubscribed(x)
    <3>1. proc'[b] = proc[b] \/ (proc[b] \in {"up", "ending"} /\ proc'[b] = "ending")
        BY <1>0, <2>1 DEF Unsubscribed, Types
    <3>2. stop'[b] = stop[b] \/ (stop[b] # "none" /\ stop'[b] = "closing")
        BY <1>0, <2>1 DEF Unsubscribed, Types
    <3>. QED BY <1>0, <2>1, <3>1, <3>2 DEF Unsubscribed, Leaves
  <2>2. CASE Unanswered(x)
    <3>1. stop'[b] = stop[b] \/ (stop[b] # "none" /\ stop'[b] = "failed")
        BY <1>0, <2>2 DEF Unanswered, Types
    <3>. QED BY <1>0, <2>2, <3>1 DEF Unanswered, Leaves
  <2>3. CASE CloseReturns(x)
    <3>1. stop'[b] = stop[b] \/ (stop[b] # "none" /\ stop'[b] \in {"stopped", "failed"})
        BY <1>0, <2>3 DEF CloseReturns, Types
    <3>2. stop'[b] = stop[b] \/ (stop'[b] = "stopped" => proc[b] = "down")
        BY <1>0, <2>3 DEF CloseReturns, SessionOf, Types
    <3>. QED BY <1>0, <2>3, <3>1, <3>2 DEF CloseReturns, Leaves
  <2>. QED BY <1>4, <2>1, <2>2, <2>3 DEF StopStep
<1>5. ASSUME NEW q \in Request, RequestStep(q) PROVE Leaves(b)'
    BY <1>0, <1>5, RequestTypes DEF Leaves
<1>6. ASSUME NEW q \in Request, Receive(q) PROVE Leaves(b)'
    BY <1>0, <1>6, ReceiveTypes DEF Leaves
<1>7. ASSUME NEW q \in Request, NEW c \in Command, Submit(q, c) PROVE Leaves(b)'
    BY <1>0, <1>7, SubmitTypes DEF Leaves
<1>8. CASE UNCHANGED vars
    BY <1>0, <1>8 DEF Leaves, vars
<1>. QED
    BY <1>1, <1>2, <1>3, <1>4, <1>5, <1>6, <1>7, <1>8 DEF Next

(***************************************************************************)
(* However many operators stop sessions behind the backs of the attempts   *)
(* that use them, and whatever fails: an attempt that has ended has no     *)
(* process left, or its record asks for a person.                          *)
(***************************************************************************)
THEOREM LeaksAreTold == Spec => []NoSilentLeak
<1>1. LeavesInv => NoSilentLeak
    BY DEF LeavesInv, Leaves, NoSilentLeak
<1>. QED
    BY <1>1, LeavesInit, LeavesStep, PTL DEF Spec

-----------------------------------------------------------------------------
(* An interrupted attempt does not complete. *)

LEMMA InterruptInit == Init => InterruptInv
<1>1. ASSUME Init, NEW a \in Attempt PROVE Interruptible(a)
    BY <1>1 DEF Init, Interruptible
<1>2. ASSUME Init, NEW q \in Request PROVE Truthful(q)
    BY <1>2 DEF Init, Truthful, Succeeded, NoRequest, NoCommand, NoEffect
<1>. QED
    BY <1>1, <1>2, TypesInit DEF InterruptInv

(* An attempt's own step, and the end of a turn, leave an interrupted turn as
   it is. *)
LEMMA InterruptRun ==
    ASSUME Types, NEW a \in Attempt, Interruptible(a), RunStep(a)
    PROVE  /\ Interruptible(a)'
           /\ turn[a] = "interrupted" => turn'[a] = "interrupted"
<1>. USE DEF daemon, runner
<1>0. run[a] \in Run
    BY DEF Types
<1>1. ASSUME NEW to, Goes(a, to) PROVE run'[a].pc = to /\ run'[a].outcome = run[a].outcome
    BY <1>0, <1>1 DEF Goes, Types, Run
<1>2. ASSUME NEW outcome \in {"retry", "blocked"}, Fails(a, outcome), turn' = turn
      PROVE  Interruptible(a)' /\ turn'[a] = turn[a]
  <2>1. run'[a].pc \in {"closing", "ended"} /\ run'[a].outcome = outcome
      BY <1>2, FailsTypes
  <2>. QED BY <1>2, <2>1 DEF Interruptible
<1>3. CASE StartRun(a)
    BY <1>1, <1>3 DEF StartRun, Interruptible
<1>4. CASE OpenSession(a)
  <2>1. CASE Goes(a, "turning")
      BY <1>1, <1>4, <2>1 DEF OpenSession, Interruptible
  <2>. QED BY <1>2, <1>4, <2>1 DEF OpenSession
<1>5. CASE StartTurn(a)
  <2>1. CASE run' = [run EXCEPT ![a].pc = "streaming", ![a].turn = @ + 1]
    <3>1. run'[a].pc = "streaming" /\ run'[a].outcome = run[a].outcome
        BY <1>0, <2>1 DEF Types, Run
    <3>. QED BY <1>5, <3>1 DEF StartTurn, Interruptible
  <2>. QED BY <1>2, <1>5, <2>1 DEF StartTurn
<1>6. CASE TurnReturns(a)
  <2>1. CASE \E to \in {"completing", "turning"} : Goes(a, to) /\ turn[a] \in {"completed", "continues"}
      BY <1>1, <1>6, <2>1 DEF TurnReturns, Interruptible
  <2>. QED BY <1>2, <1>6, <2>1 DEF TurnReturns
<1>7. CASE StreamBreaks(a)
    BY <1>2, <1>7 DEF StreamBreaks
<1>8. CASE Refresh(a)
  <2>1. CASE Goes(a, "refreshed")
      BY <1>1, <1>8, <2>1 DEF Refresh, Interruptible
  <2>. QED BY <1>2, <1>8, <2>1 DEF Refresh
<1>9. CASE ApplyPolicy(a)
  <2>1. run'[a].pc = "closing"
      BY <1>0, <1>9 DEF ApplyPolicy, Types, Run
  <2>. QED BY <1>9, <2>1 DEF ApplyPolicy, Interruptible
<1>10. CASE Finalize(a)
    BY <1>1, <1>10 DEF Finalize, Interruptible
<1>. QED
    BY <1>3, <1>4, <1>5, <1>6, <1>7, <1>8, <1>9, <1>10 DEF RunStep

(* What a request was told stays true, as interrupted turns stay so. *)
LEMMA TruthfulStays ==
    ASSUME NEW q \in Request, Truthful(q), request'[q] = request[q],
           \A a \in Attempt : turn[a] = "interrupted" => turn'[a] = "interrupted"
    PROVE  Truthful(q)'
BY DEF Truthful, Succeeded

LEMMA TruthfulOwn ==
    ASSUME Types, NEW q \in Request, Truthful(q), RequestStep(q)
    PROVE  Truthful(q)'
<1>. USE DEF daemon, runner
<1>0. request[q] \in Asked
    BY DEF Types
<1>t. \A a \in Attempt : turn[a] = "interrupted" => turn'[a] = "interrupted"
    BY RequestTypes
<1>1. ASSUME NEW effect \in Effect, Answers(q, effect),
             request[q].command.type = "run.cancel" /\ effect.done =>
                request[q].pc = "interrupted" \/ request[q].effect.done
      PROVE  Truthful(q)'
    BY <1>t, <1>1, AnswersTypes DEF Truthful, Succeeded
<1>2. CASE Respond(q)
  <2>1. PICK effect \in Effect : Answers(q, effect) /\ effect = request[q].effect
      BY <1>0, <1>2 DEF Respond, Asked
  <2>. QED BY <1>1, <2>1
<1>3. CASE Interrupt(q)
  <2>1. /\ request[q].pc = "interrupting" /\ request'[q].command = request[q].command
        /\ request'[q].effect = request[q].effect
        /\ request'[q].pc \in {"interrupted", "refused"}
      BY <1>0, <1>3 DEF Interrupt, Types, Asked
  <2>2. request'[q].pc = "interrupted" => turn'[request[q].command.attempt] = "interrupted"
      BY <1>0, <1>3 DEF Interrupt, Types, Asked, Truthful
  <2>. QED BY <1>t, <2>1, <2>2 DEF Truthful, Succeeded
<1>4. CASE CancelReturns(q)
  <2>1. \/ Answers(q, Info(FALSE))
        \/ request[q].pc = "interrupted" /\ Answers(q, Info(TRUE))
      BY <1>4, Zenon DEF CancelReturns, CancelEffect
  <2>2. PICK effect \in Effect : Answers(q, effect) /\ (effect.done => request[q].pc = "interrupted")
      BY <2>1, EffectTypes, Zenon
  <2>. QED BY <1>1, <2>2
<1>5. CASE StopReturns(q)
  <2>1. PICK effect \in Effect : Answers(q, effect)
    <3>1. (IF stop[q] = "stopped" THEN Info(TRUE) ELSE Error) \in Effect
        BY EffectTypes
    <3>. QED BY <1>5, <3>1 DEF StopReturns
  <2>. QED BY <1>1, <1>5, <2>1 DEF StopReturns, Truthful
<1>6. CASE CardReturns(q)
  <2>1. PICK effect \in Effect : Answers(q, effect)
    <3>1. Answers(q, Info(TRUE)) \/ Answers(q, Error)
        BY <1>6, Zenon DEF CardReturns
    <3>. QED BY <3>1, EffectTypes, Zenon
  <2>2. request[q].pc = "calling"
      BY <1>6, Zenon DEF CardReturns
  <2>. QED BY <1>1, <2>1, <2>2 DEF Truthful
<1>. QED
    BY <1>2, <1>3, <1>4, <1>5, <1>6 DEF RequestStep

LEMMA InterruptStep == InterruptInv /\ [Next]_vars => InterruptInv'
<1>. SUFFICES ASSUME InterruptInv, [Next]_vars
              PROVE  (\A a \in Attempt : Interruptible(a)') /\ (\A q \in Request : Truthful(q)')
    BY TypesStep DEF InterruptInv
<1>. USE DEF daemon, runner
<1>0. Types /\ (\A a \in Attempt : Interruptible(a)) /\ (\A q \in Request : Truthful(q))
    BY DEF InterruptInv
<1>1. ASSUME UNCHANGED <<run, turn>>, NEW b \in Attempt PROVE Interruptible(b)'
    BY <1>0, <1>1 DEF Interruptible
<1>2. ASSUME UNCHANGED request, \A a \in Attempt : turn[a] = "interrupted" => turn'[a] = "interrupted",
             NEW q \in Request
      PROVE  Truthful(q)'
    BY <1>0, <1>2, TruthfulStays
<1>3. ASSUME NEW a \in Attempt, RunStep(a)
      PROVE  (\A b \in Attempt : Interruptible(b)') /\ (\A q \in Request : Truthful(q)')
  <2>1. /\ Interruptible(a)' /\ (turn[a] = "interrupted" => turn'[a] = "interrupted")
      BY <1>0, <1>3, InterruptRun
  <2>2. ASSUME NEW b \in Attempt, b # a
        PROVE  Interruptible(b)' /\ turn'[b] = turn[b]
    <3>1. run'[b] = run[b] /\ turn'[b] = turn[b]
        BY <1>0, <1>3, <2>2, RunOthers
    <3>. QED BY <1>0, <3>1 DEF Interruptible
  <2>3. UNCHANGED request
      BY <1>3 DEF RunStep, StartRun, OpenSession, StartTurn, TurnReturns, StreamBreaks, Refresh,
                  ApplyPolicy, Finalize
  <2>. QED BY <1>2, <2>1, <2>2, <2>3
<1>4. ASSUME NEW a \in Attempt, TurnEnds(a)
      PROVE  (\A b \in Attempt : Interruptible(b)') /\ (\A q \in Request : Truthful(q)')
  <2>1. /\ turn[a] = "running" /\ \A b \in Attempt \ {a} : turn'[b] = turn[b]
        /\ turn'[a] \in {"completed", "continues", "failed"} /\ UNCHANGED <<run, request>>
      BY <1>0, <1>4 DEF TurnEnds, Types
  <2>2. \A b \in Attempt : Interruptible(b)'
      BY <1>0, <2>1 DEF Interruptible
  <2>. QED BY <1>2, <2>1, <2>2
<1>5. ASSUME NEW a \in Attempt, Exits(a) PROVE UNCHANGED <<run, turn, request>>
    BY <1>5 DEF Exits
<1>6. ASSUME NEW x \in Attempt \cup Request, StopStep(x) PROVE UNCHANGED <<run, turn, request>>
    BY <1>6 DEF StopStep, Unsubscribed, Unanswered, CloseReturns
<1>7. ASSUME NEW q \in Request, RequestStep(q)
      PROVE  (\A b \in Attempt : Interruptible(b)') /\ (\A r \in Request : Truthful(r)')
  <2>1. /\ \A r \in Request \ {q} : request'[r] = request[r]
        /\ \A b \in Attempt : turn'[b] # turn[b] => turn[b] = "running" /\ turn'[b] = "interrupted"
        /\ UNCHANGED run
      BY <1>0, <1>7, RequestTypes
  <2>2. \A b \in Attempt : Interruptible(b)'
      BY <1>0, <2>1 DEF Interruptible
  <2>3. \A r \in Request \ {q} : Truthful(r)'
      BY <1>0, <2>1, TruthfulStays
  <2>. QED BY <1>0, <1>7, <2>2, <2>3, TruthfulOwn
<1>8. ASSUME NEW q \in Request, Receive(q)
      PROVE  (\A b \in Attempt : Interruptible(b)') /\ (\A r \in Request : Truthful(r)')
  <2>1. /\ UNCHANGED <<run, turn>>
        /\ \A r \in Request \ {q} : request'[r] = request[r]
        /\ request[q].pc = "idle" /\ request'[q].pc = "reading"
        /\ request'[q].command = request[q].command /\ request'[q].effect = request[q].effect
      BY <1>0, <1>8, ReceiveTypes
  <2>2. Truthful(q)'
      BY <1>0, <2>1 DEF Truthful, Succeeded
  <2>. QED BY <1>0, <1>1, <2>1, <2>2, TruthfulStays
<1>9. ASSUME NEW q \in Request, NEW c \in Command, Submit(q, c)
      PROVE  (\A b \in Attempt : Interruptible(b)') /\ (\A r \in Request : Truthful(r)')
  <2>1. /\ UNCHANGED <<run, turn>>
        /\ \A r \in Request \ {q} : request'[r] = request[r]
        /\ request'[q].pc \in {"interrupting", "stopping", "calling", "settled", "answered"}
        /\ request'[q].pc = "interrupting" => request'[q].command.type = "run.cancel"
        /\ request'[q].pc \in {"stopping", "calling"} => request'[q].command.type # "run.cancel"
        /\ request'[q].command \in Command \cup {NoCommand}
        /\ ~request'[q].effect.done
      BY <1>0, <1>9, SubmitTypes
  <2>2. request'[q].command.type = "run.cancel" => request'[q].command.attempt \in Attempt
      BY <2>1, CommandFields DEF NoCommand
  <2>3. Truthful(q)'
      BY <2>1, <2>2 DEF Truthful, Succeeded
  <2>. QED BY <1>0, <1>1, <2>1, <2>3, TruthfulStays
<1>10. CASE UNCHANGED vars
    BY <1>1, <1>2, <1>10 DEF vars
<1>. QED
    BY <1>1, <1>2, <1>3, <1>4, <1>5, <1>6, <1>7, <1>8, <1>9, <1>10 DEF Next

(***************************************************************************)
(* An attempt whose operator was told that its turn was interrupted never  *)
(* completes, for any number of requests, attempts and turns: the answer   *)
(* is only positive once the turn is interrupted, and an interrupted turn  *)
(* is the last one of an attempt that fails.                               *)
(***************************************************************************)
THEOREM InterruptsTakeHold == Spec => []InterruptedNeverCompletes
<1>1. InterruptInv => InterruptedNeverCompletes
  <2>1. ASSUME InterruptInv, NEW q \in Request, Succeeded(q, "run.cancel")
        PROVE  run[request[q].command.attempt].outcome # "completed"
    <3>. DEFINE a == request[q].command.attempt
    <3>1. a \in Attempt /\ turn[a] = "interrupted"
        BY <2>1 DEF InterruptInv, Truthful
    <3>2. Interruptible(a)
        BY <2>1, <3>1 DEF InterruptInv
    <3>. QED BY <3>1, <3>2 DEF Interruptible
  <2>. QED BY <2>1 DEF InterruptedNeverCompletes
<1>. QED
    BY <1>1, InterruptInit, InterruptStep, PTL DEF Spec

(***************************************************************************)
(* Setup, run as often as the operator likes and broken off anywhere: one  *)
(* webhook a board, one section, a config that is true when it is written, *)
(* and a startup that does not refuse what setup accepted.                 *)
(***************************************************************************)

AHook == [active : BOOLEAN, wanted : BOOLEAN, gone : BOOLEAN]
Sound == [active |-> TRUE, wanted |-> TRUE, gone |-> FALSE]

AStep == {StarterSteps[i] : i \in 1..10}

AtHooks == {"hooks", "create", "update", "activate"}

SetupTypes ==
    /\ DOMAIN board = Board
    /\ \A b \in Board : DOMAIN board[b] = {"made", "columns", "cards"} /\ board[b].made \in BOOLEAN
    /\ DOMAIN hooks = Board
    /\ \A b \in Board : hooks[b] \in Seq(AHook)
    /\ workflow \in [there : BOOLEAN, sections : Nat]
    /\ DOMAIN config = {"boards", "hooks", "written"}
    /\ config.boards \subseteq Board /\ config.written \in BOOLEAN
    /\ ask \in [starter : BOOLEAN, manage : BOOLEAN, boards : SUBSET Board]
    /\ DOMAIN read = {"boards", "titles", "missing"}
    /\ DOMAIN known = {"boards", "titles", "missing"}
    /\ acted \in [setup : BOOLEAN, config : BOOLEAN, start : BOOLEAN]
    /\ failed \in BOOLEAN

(* A webhook is made where none is listed, and tended until it is sound.   *)
HooksOnce ==
    /\ \A b \in Board : \A i, j \in Listed(b) : i = j
    /\ pc \in AtHooks \ {"hooks"} => current.board \in ask.boards \ DOMAIN managed
    /\ pc = "create" => Listed(current.board) = {}
    /\ pc \in {"update", "activate"} => current.id \in DOMAIN hooks[current.board]
    /\ DOMAIN managed \subseteq ask.boards
    /\ ~acted.setup => \A b \in DOMAIN managed :
          managed[b] \in DOMAIN hooks[b] /\ hooks[b][managed[b]] = Sound

(* A section is appended to a file that has none.                          *)
SectionOnce ==
    /\ workflow.sections <= 1
    /\ plan = "append" /\ (pc \in {"review", "workflow"} \/ (pc = "boards" /\ ~ask.starter)) =>
          workflow.sections = 0

(* Between its runs setup holds nothing, and no webhook before it is at the webhooks. *)
Idle ==
    /\ pc = "off" => ask.boards = {} /\ DOMAIN read.boards = {}
    /\ pc \notin AtHooks => DOMAIN managed = {}

(* The boards a daemon that starts goes by.                                *)
Starting == DOMAIN known.boards \cup known.missing

(* A starter board before the step with so many to go.                     *)
Stage(b, left) ==
    LET cards == board[b].cards IN
    /\ left > 6 => cards = <<>>
    /\ left <= 6 => cards = <<cards[1]>> /\ DOMAIN cards[1] = {"golden", "column", "tags"}
    /\ left = 6 => cards[1].tags = {}
    /\ left < 6 => StarterTag["instructions"] \in cards[1].tags
    /\ left = 1 => cards[1].golden

HasTicket(b) == \E i \in DOMAIN board[b].cards :
    board[b].cards[i].golden /\ StarterTag["instructions"] \in board[b].cards[i].tags

Unmade == \E b \in Starter : ~board[b].made

(* Only boards that are made have cards, are asked for, configured and
   started from. *)
MadeFirst ==
    /\ \A b \in Board : ~board[b].made => board[b].cards = <<>>
    /\ \A b \in ask.boards \cup config.boards \cup Starting : b \in Board /\ board[b].made

(* A starter setup asks for no board before it makes one. *)
StarterAsked ==
    ask.starter /\ pc \in {"review", "workflow"} => ask.boards = {} /\ Unmade /\ DOMAIN read.boards = {}

(* What is still to be done on the board that is built is the end of the
   starter steps, and what was done shows on it. *)
BuildGoes ==
    pc = "build" =>
        /\ ask.starter /\ DOMAIN read.boards = {}
        /\ Len(build) \in 1..10 /\ build \in Seq(AStep)
        /\ \A i \in 1..Len(build) : build[i] = StarterSteps[10 - Len(build) + i]
        /\ Len(build) = 10 => ask.boards = {} /\ Unmade
        /\ Len(build) < 10 => \E b \in Starter :
              /\ ask.boards = {b} /\ b \notin config.boards \cup Starting
              /\ ~acted.setup => Stage(b, Len(build))

TicketBuilt ==
    ask.starter /\ pc \in {"boards"} \cup AtHooks /\ ~acted.setup => \A b \in ask.boards : HasTicket(b)

BoardsMade == MadeFirst /\ StarterAsked /\ BuildGoes /\ TicketBuilt

(* What setup has read is what is there, unless people acted; it goes on   *)
(* to the webhooks with what it accepts.                                   *)
ReadChecked ==
    /\ read.boards = [b \in DOMAIN read.boards |-> read.boards[b]]
    /\ read.titles \subseteq titles
    /\ ~acted.setup => \A b \in DOMAIN read.boards : read.boards[b] = board[b]
    /\ pc \in AtHooks \/ (pc \in {"review", "workflow"} /\ ~ask.starter) =>
          DOMAIN read.boards = ask.boards /\ Acceptable(read)

Acceptance(S, t) == Acceptable([boards |-> [b \in S |-> board[b]], titles |-> t, missing |-> {}])

(* So does what is configured, and what a start goes by.                   *)
ConfigAccepted == config.written /\ ~acted.config => Acceptance(config.boards, titles)

StartAccepted ==
    /\ known.boards = [b \in DOMAIN known.boards |-> known.boards[b]]
    /\ service = "validating" /\ ~acted.start /\ ~failed =>
          /\ Acceptance(Starting, known.titles)
          /\ \A b \in DOMAIN known.boards : known.boards[b] = board[b]

SetupInv == /\ SetupTypes /\ Idle /\ HooksOnce /\ SectionOnce /\ BoardsMade
            /\ ReadChecked /\ ConfigAccepted /\ StartAccepted

-----------------------------------------------------------------------------
(* What the steps of setup have in common. *)

LEMMA Nothing == DOMAIN <<>> = {} /\ <<>> = [x \in DOMAIN <<>> |-> <<>>[x]]
<1>1. DOMAIN <<>> = {}
  BY SMT
<1>2. <<>> = [x \in {} |-> <<>>[x]]
  BY SMT
<1> QED
  BY <1>1, <1>2

(* A setup that ended holds nothing. *)
LEMMA Ending ==
    ASSUME SetupEnds
    PROVE  /\ pc' = "off" /\ plan' = "none" /\ build' = <<>> /\ ask' = NoAsk /\ read' = NoRead
           /\ ~ask'.starter /\ ask'.boards = {} /\ managed' = <<>> /\ DOMAIN managed' = {}
           /\ DOMAIN read'.boards = {} /\ read'.titles = {}
           /\ read'.boards = [b \in DOMAIN read'.boards |-> read'.boards[b]]
<1>1. pc' = "off" /\ plan' = "none" /\ build' = <<>> /\ ask' = NoAsk /\ read' = NoRead /\ managed' = <<>>
  BY DEF SetupEnds
<1>2. ~ask'.starter /\ ask'.boards = {}
  BY <1>1 DEF NoAsk
<1>3. read'.boards = <<>> /\ read'.titles = {}
  BY <1>1 DEF NoRead
<1> QED
  BY <1>1, <1>2, <1>3, Nothing, Zenon

LEMMA Hooked ==
    ASSUME DOMAIN hooks = Board, NEW b \in Board, hooks[b] \in Seq(AHook),
           NEW i \in 1..Len(hooks[b]) + 1, NEW h \in AHook, Hook(b, i, h)
    PROVE  /\ DOMAIN hooks' = Board
           /\ \A d \in Board : d # b => hooks'[d] = hooks[d]
           /\ hooks'[b] \in Seq(AHook)
           /\ DOMAIN hooks'[b] = DOMAIN hooks[b] \cup {i}
           /\ hooks'[b][i] = h
           /\ \A j \in DOMAIN hooks[b] : j # i => hooks'[b][j] = hooks[b][j]
<1> DEFINE s == [j \in DOMAIN hooks[b] \cup {i} |-> IF j = i THEN h ELSE hooks[b][j]]
<1>1. hooks' = [hooks EXCEPT ![b] = s]
  BY DEF Hook
<1>2. DOMAIN hooks[b] = 1..Len(hooks[b]) /\ \A j \in DOMAIN hooks[b] : hooks[b][j] \in AHook
  OBVIOUS
<1>3. PICK n \in Nat : DOMAIN hooks[b] \cup {i} = 1..n
  <2>1. Len(hooks[b]) \in Nat
    OBVIOUS
  <2>2. CASE i <= Len(hooks[b])
    BY <1>2, <2>1, <2>2
  <2>3. CASE i = Len(hooks[b]) + 1
    <3>1. 1..Len(hooks[b]) \cup {i} = 1..(Len(hooks[b]) + 1)
      BY <2>1, <2>3
    <3> QED
      BY <1>2, <2>1, <3>1
  <2> QED
    BY <2>1, <2>2, <2>3
<1>4. s \in Seq(AHook)
  <2>1. s \in [1..n -> AHook]
    BY <1>2, <1>3
  <2>2. 1..n \in {1..m : m \in Nat} /\ [1..n -> AHook] \in {[1..m -> AHook] : m \in Nat}
    BY <1>3
  <2> HIDE DEF s
  <2> QED
    BY <2>1, <2>2, SeqDef
<1>5. /\ DOMAIN s = DOMAIN hooks[b] \cup {i} /\ s[i] = h
      /\ \A j \in DOMAIN hooks[b] : j # i => s[j] = hooks[b][j]
  OBVIOUS
<1> HIDE DEF s
<1>6. DOMAIN hooks' = Board /\ hooks'[b] = s /\ \A d \in Board : d # b => hooks'[d] = hooks[d]
  BY <1>1
<1> QED
  BY <1>4, <1>5, <1>6

(* What a call on a webhook does to it. *)
LEMMA Calling ==
    ASSUME SetupInv, CreateHook \/ UpdateHook \/ ActivateHook
    PROVE  \E b \in ask.boards, h \in AHook : \E i \in 1..Len(hooks[b]) + 1 :
              /\ b \in Board /\ b \notin DOMAIN managed /\ Hook(b, i, h) /\ ~h.gone
              /\ pc \in AtHooks \ {"hooks"}
              /\ (pc = "create" /\ Listed(b) = {} /\ i = Len(hooks[b]) + 1)
                   \/ (pc # "create" /\ i \in Listed(b))
              /\ \/ /\ Tend([board |-> b, id |-> i, active |-> h.active, wanted |-> h.wanted])
                    /\ UNCHANGED <<ask, read, plan, build, boundVars>>
                 \/ SetupEnds /\ SetupFault
              /\ UNCHANGED <<board, titles, workflow, config, startVars, acted>>
<1> DEFINE b == current.board
<1>0. DOMAIN hooks = Board /\ ask.boards \subseteq Board /\ \A d \in Board : hooks[d] \in Seq(AHook)
  BY DEF SetupInv, SetupTypes
<1>1. /\ pc \in AtHooks \ {"hooks"} => b \in ask.boards \ DOMAIN managed
      /\ pc = "create" => Listed(b) = {}
      /\ pc \in {"update", "activate"} => current.id \in DOMAIN hooks[b]
  BY DEF SetupInv, HooksOnce
<1>2. CASE CreateHook
  <2> DEFINE h == [active |-> TRUE, wanted |-> TRUE, gone |-> FALSE]
             i == Len(hooks[b]) + 1
  <2>1. HookCall("create", h)
    BY <1>2 DEF CreateHook
  <2>2. h \in AHook /\ ~h.gone
    BY DEF AHook
  <2> HIDE DEF h
  <2>3. /\ pc = "create" /\ Hook(b, i, h)
        /\ \/ /\ Tend([board |-> b, id |-> i, active |-> h.active, wanted |-> h.wanted])
              /\ UNCHANGED <<ask, read, plan, build>> /\ UNCHANGED boundVars
           \/ SetupEnds /\ SetupFault
        /\ UNCHANGED <<board, titles, workflow, config, startVars, acted>>
    BY <2>1, Zenon DEF HookCall, Answered
  <2>4. b \in ask.boards /\ b \notin DOMAIN managed /\ Listed(b) = {} /\ pc \in AtHooks \ {"hooks"}
    BY <2>3, <1>1 DEF AtHooks
  <2>5. b \in Board /\ i \in 1..Len(hooks[b]) + 1
    BY <2>4, <1>0
  <2> HIDE DEF b, i
  <2> QED
    BY <2>2, <2>3, <2>4, <2>5 DEF b, i
<1>3. CASE UpdateHook \/ ActivateHook
  <2> DEFINE i == current.id
             up == [hooks[b][i] EXCEPT !.wanted = TRUE]
             on == [hooks[b][i] EXCEPT !.active = TRUE]
  <2>1. PICK step \in {"update", "activate"}, h \in {up, on} : pc = step /\ HookCall(step, h)
    BY <1>3 DEF UpdateHook, ActivateHook
  <2>2. b \in ask.boards /\ b \notin DOMAIN managed /\ pc \in AtHooks \ {"hooks"} /\ i \in DOMAIN hooks[b]
    BY <2>1, <1>1 DEF AtHooks
  <2>3. b \in Board /\ i \in 1..Len(hooks[b]) + 1 /\ hooks[b][i] \in AHook
    BY <2>2, <1>0
  <2>4. /\ ~hooks[b][i].gone /\ Hook(b, i, h)
        /\ \/ /\ Tend([board |-> b, id |-> i, active |-> h.active, wanted |-> h.wanted])
              /\ UNCHANGED <<ask, read, plan, build>> /\ UNCHANGED boundVars
           \/ SetupEnds /\ SetupFault
        /\ UNCHANGED <<board, titles, workflow, config, startVars, acted>>
    <3>1. step # "create" /\ (IF step = "create" THEN Len(hooks[b]) + 1 ELSE i) = i
      BY <2>1
    <3> HIDE DEF b, i, up, on
    <3> QED
      BY <2>1, <3>1, Zenon DEF HookCall, Answered, b, i
  <2>5. h \in AHook /\ ~h.gone
    BY <2>1, <2>3, <2>4 DEF AHook
  <2>6. pc # "create" /\ i \in Listed(b)
    BY <2>1, <2>2, <2>4 DEF Listed
  <2> HIDE DEF b, i
  <2> QED
    BY <2>2, <2>3, <2>4, <2>5, <2>6 DEF b, i
<1> QED
  BY <1>2, <1>3

(* What a step of createStarterBoard does to the board. *)
LEMMA BuildingMade ==
    ASSUME NEW b, DOMAIN b = {"made", "columns", "cards"}, b.made \in BOOLEAN,
           NEW n \in 1..9, NEW c, c = Built(b, StarterSteps[n])
    PROVE  /\ DOMAIN c = {"made", "columns", "cards"}
           /\ c.made \in BOOLEAN /\ (c.made <=> (n = 1 \/ b.made))
           /\ n < 4 => c.cards = b.cards
<1>0. DOMAIN StarterTag = {"instructions", "backend", "completion"}
  BY DEF StarterTag
<1> DEFINE step == StarterSteps[n]
<1>1. CASE n = 1
  <2>1. step = "board"
    BY <1>1 DEF StarterSteps
  <2>2. Built(b, step) = [b EXCEPT !.made = TRUE]
    BY <2>1, <1>0 DEF Built
  <2> HIDE DEF step
  <2> QED
    BY <1>1, <2>2 DEF step
<1>2. CASE n = 2 \/ n = 3
  <2>1. step \in {"ready", "ship"}
    BY <1>2 DEF StarterSteps
  <2>2. Built(b, step) = [b EXCEPT !.columns = @ \cup {step}]
    BY <2>1, <1>0 DEF Built
  <2> HIDE DEF step
  <2> QED
    BY <1>2, <2>2 DEF step
<1>3. CASE n = 4
  <2>1. step = "card"
    BY <1>3 DEF StarterSteps
  <2>2. Built(b, step) = [b EXCEPT !.cards =
            Append(@, [golden |-> FALSE, column |-> "none", tags |-> {}])]
    BY <2>1, <1>0 DEF Built
  <2> HIDE DEF step
  <2> QED
    BY <1>3, <2>2 DEF step
<1>4. CASE n \in {5, 6, 7}
  <2>1. step \in DOMAIN StarterTag /\ step \notin {"board", "ready", "ship", "card"}
    BY <1>4, <1>0 DEF StarterSteps
  <2>2. Built(b, step) = [b EXCEPT !.cards[Len(b.cards)].tags =
            IF StarterTag[step] \in @ THEN @ \ {StarterTag[step]} ELSE @ \cup {StarterTag[step]}]
    BY <2>1, <1>0 DEF Built
  <2> HIDE DEF step
  <2> QED
    BY <1>4, <2>2 DEF step
<1>5. CASE n = 8
  <2>1. step = "move"
    BY <1>5 DEF StarterSteps
  <2>2. Built(b, step) = [b EXCEPT !.cards[Len(b.cards)].column = "ready"]
    BY <2>1, <1>0 DEF Built
  <2> HIDE DEF step
  <2> QED
    BY <1>5, <2>2 DEF step
<1>6. CASE n = 9
  <2>1. step = "gold"
    BY <1>6 DEF StarterSteps
  <2>2. Built(b, step) = [b EXCEPT !.cards[Len(b.cards)].golden = TRUE]
    BY <2>1, <1>0 DEF Built
  <2> HIDE DEF step
  <2> QED
    BY <1>6, <2>2 DEF step
<1> QED
  BY <1>1, <1>2, <1>3, <1>4, <1>5, <1>6

(* It leaves the cards alone at first. *)
LEMMA BuildingEarly ==
    ASSUME NEW b, DOMAIN b = {"made", "columns", "cards"}, b.made \in BOOLEAN,
           NEW n \in 1..3, NEW c, c = Built(b, StarterSteps[n])
    PROVE  c.cards = b.cards
<1>1. n \in 1..9 /\ n < 4
  OBVIOUS
<1> QED
  BY <1>1, BuildingMade

(* It gives it a card. *)
LEMMA BuildingFirst ==
    ASSUME NEW b, DOMAIN b = {"made", "columns", "cards"}, b.cards = <<>>,
           NEW c, c = Built(b, "card")
    PROVE  \E d : c.cards = <<d>> /\ DOMAIN d = {"golden", "column", "tags"} /\ d.tags = {}
<1> DEFINE d == [golden |-> FALSE, column |-> "none", tags |-> {}]
<1>1. "card" \notin DOMAIN StarterTag
  BY DEF StarterTag
<1>2. c = [b EXCEPT !.cards = Append(@, d)]
  BY <1>1 DEF Built
<1>3. DOMAIN d = {"golden", "column", "tags"} /\ d.tags = {}
  OBVIOUS
<1> HIDE DEF d
<1>4. c.cards = Append(<<>>, d)
  BY <1>2
<1>5. Append(<<>>, d) = <<d>>
  OBVIOUS
<1> QED
  BY <1>3, <1>4, <1>5

(* What it does to its card. *)
LEMMA BuildingCard ==
    ASSUME NEW b, DOMAIN b = {"made", "columns", "cards"},
           NEW card, DOMAIN card = {"golden", "column", "tags"}, b.cards = <<card>>,
           NEW n \in 5..9, NEW c, c = Built(b, StarterSteps[n])
    PROVE  \E d : /\ c.cards = <<d>> /\ DOMAIN d = {"golden", "column", "tags"}
                  /\ n = 5 /\ card.tags = {} => StarterTag["instructions"] \in d.tags
                  /\ n > 5 /\ StarterTag["instructions"] \in card.tags =>
                        StarterTag["instructions"] \in d.tags
                  /\ n = 9 => d.golden
<1>0. DOMAIN StarterTag = {"instructions", "backend", "completion"}
  BY DEF StarterTag
<1>1. Len(b.cards) = 1 /\ b.cards[1] = card /\ DOMAIN b.cards = {1}
  OBVIOUS
<1> DEFINE step == StarterSteps[n]
<1>2. ASSUME NEW d, c = [b EXCEPT !.cards = [b.cards EXCEPT ![1] = d]]
      PROVE  c.cards = <<d>>
  <2>1. [<<card>> EXCEPT ![1] = d] = <<d>>
    OBVIOUS
  <2>2. c.cards = [b.cards EXCEPT ![1] = d]
    BY <1>2
  <2> QED
    BY <2>1, <2>2
<1>3. CASE n \in {5, 6, 7}
  <2>1. step \in DOMAIN StarterTag /\ step \notin {"board", "ready", "ship", "card"}
    BY <1>3, <1>0 DEF StarterSteps
  <2> DEFINE t == StarterTag[step]
             d == [card EXCEPT !.tags = IF t \in @ THEN @ \ {t} ELSE @ \cup {t}]
  <2>2. Built(b, step) = [b EXCEPT !.cards[Len(b.cards)].tags = IF t \in @ THEN @ \ {t} ELSE @ \cup {t}]
    BY <2>1, <1>0 DEF Built
  <2>3. c = [b EXCEPT !.cards = [b.cards EXCEPT ![1] = d]]
    <3> HIDE DEF step
    <3>1. t = StarterTag[step]
      OBVIOUS
    <3> HIDE DEF t
    <3>2. c = [b EXCEPT !.cards[1].tags = IF t \in @ THEN @ \ {t} ELSE @ \cup {t}]
      BY <2>2, <1>1 DEF step, t
    <3> QED
      BY <3>2, <1>1
  <2>4. c.cards = <<d>>
    <3> HIDE DEF d
    <3> QED
      BY <2>3, <1>2
  <2>5. n = 5 => t = StarterTag["instructions"]
    BY DEF StarterSteps
  <2>6. n > 5 => t # StarterTag["instructions"]
    <3>1. n > 5 => step \in {"backend", "completion"}
      BY <1>3 DEF StarterSteps
    <3> HIDE DEF step
    <3> QED
      BY <3>1 DEF StarterTag, Tag
  <2>7. DOMAIN d = {"golden", "column", "tags"} /\ d.tags = IF t \in card.tags THEN card.tags \ {t} ELSE card.tags \cup {t}
    <3> HIDE DEF t
    <3> QED
      OBVIOUS
  <2> HIDE DEF t, d
  <2> QED
    BY <1>3, <2>4, <2>5, <2>6, <2>7
<1>4. CASE n = 8
  <2> DEFINE d == [card EXCEPT !.column = "ready"]
  <2>1. step = "move"
    BY <1>4 DEF StarterSteps
  <2>2. c = [b EXCEPT !.cards[Len(b.cards)].column = "ready"]
    BY <2>1, <1>0 DEF Built
  <2>3. c = [b EXCEPT !.cards = [b.cards EXCEPT ![1] = d]]
    BY <2>2, <1>1
  <2>4. DOMAIN d = {"golden", "column", "tags"} /\ d.tags = card.tags
    OBVIOUS
  <2> HIDE DEF d
  <2>5. c.cards = <<d>>
    BY <2>3, <1>2
  <2> QED
    BY <1>4, <2>4, <2>5
<1>5. CASE n = 9
  <2> DEFINE d == [card EXCEPT !.golden = TRUE]
  <2>1. step = "gold"
    BY <1>5 DEF StarterSteps
  <2>2. c = [b EXCEPT !.cards[Len(b.cards)].golden = TRUE]
    BY <2>1, <1>0 DEF Built
  <2>3. c = [b EXCEPT !.cards = [b.cards EXCEPT ![1] = d]]
    BY <2>2, <1>1
  <2>4. DOMAIN d = {"golden", "column", "tags"} /\ d.tags = card.tags /\ d.golden
    OBVIOUS
  <2> HIDE DEF d
  <2>5. c.cards = <<d>>
    BY <2>3, <1>2
  <2> QED
    BY <1>5, <2>4, <2>5
<1> QED
  BY <1>3, <1>4, <1>5

(* Which board is built, and what is known of it. *)
LEMMA BuildingOne ==
    ASSUME SetupInv, BuildStep
    PROVE  \E b \in Starter : \E n \in 1..9 :
              /\ n = 11 - Len(build) /\ pc = "build"
              /\ b \in Board /\ b \notin config.boards \cup Starting
              /\ n = 1 => ~board[b].made
              /\ n > 1 => ask.boards = {b} /\ board[b].made
              /\ n > 1 /\ ~acted.setup => Stage(b, 11 - n)
              /\ board' = [board EXCEPT ![b] = Built(@, StarterSteps[n])]
              /\ titles \subseteq titles'
              /\ \/ /\ build' = Tail(build) /\ ask' = [ask EXCEPT !.boards = {b}]
                    /\ UNCHANGED <<pc, read, plan, current, managed, boundVars>>
                 \/ SetupEnds /\ SetupFault
              /\ UNCHANGED <<hooks, workflow, config, startVars, acted>>
<1>0. pc = "build" /\ build # <<>> /\ Head(build) # "read"
  BY Zenon DEF BuildStep, Answered
<1>1. /\ Len(build) \in 1..10 /\ build \in Seq(AStep)
      /\ \A i \in 1..Len(build) : build[i] = StarterSteps[10 - Len(build) + i]
      /\ Len(build) = 10 => ask.boards = {} /\ Unmade
      /\ Len(build) < 10 => \E b \in Starter :
            /\ ask.boards = {b} /\ b \notin config.boards \cup Starting
            /\ ~acted.setup => Stage(b, Len(build))
  BY <1>0 DEF SetupInv, BoardsMade, MadeFirst, BuildGoes
<1>2. \A b \in ask.boards \cup config.boards \cup Starting : b \in Board /\ board[b].made
  BY DEF SetupInv, BoardsMade, MadeFirst, BuildGoes
<1> DEFINE n == 11 - Len(build)
<1>3. Head(build) = StarterSteps[n]
  BY <1>0, <1>1
<1>4. Len(build) # 1
  <2>1. StarterSteps[10] = "read"
    BY DEF StarterSteps
  <2> QED
    BY <1>0, <1>1, <1>3, <2>1
<1>5. n \in 1..9 /\ n = 11 - Len(build) /\ Len(build) = 11 - n
  <2>1. PICK k \in 1..10 : Len(build) = k
    BY <1>1
  <2>2. 11 - k \in 1..9 /\ k = 11 - (11 - k)
    BY <2>1, <1>4
  <2> QED
    BY <2>1, <2>2
<1>6. /\ Building \in Starter /\ Building \in Board /\ Building \notin config.boards \cup Starting
      /\ n = 1 => ~board[Building].made
      /\ n > 1 => ask.boards = {Building} /\ board[Building].made
      /\ n > 1 /\ ~acted.setup => Stage(Building, 11 - n)
  <2>0. Starter \subseteq Board
    BY SetupAssumption
  <2>1. CASE n = 1
    <3>1. Building = Fresh /\ Unmade
      BY <1>1, <1>5, <2>1 DEF Building
    <3>2. Fresh \in Starter /\ ~board[Fresh].made
      BY <3>1 DEF Unmade, Fresh
    <3> HIDE DEF n
    <3> QED
      BY <2>0, <2>1, <3>1, <3>2, <1>2
  <2>2. CASE n > 1
    <3>1. PICK b \in Starter : /\ ask.boards = {b} /\ b \notin config.boards \cup Starting
                               /\ ~acted.setup => Stage(b, Len(build))
      BY <1>1, <1>5, <2>2
    <3>2. Building = b
      BY <3>1 DEF Building
    <3>3. ~acted.setup => Stage(b, 11 - n)
      BY <3>1, <1>5
    <3>4. b \in Board /\ board[b].made
      BY <3>1, <1>2
    <3> HIDE DEF n
    <3> QED
      BY <2>0, <2>2, <3>1, <3>2, <3>3, <3>4
  <2> QED
    BY <1>5, <2>1, <2>2
<1>7. /\ board' = [board EXCEPT ![Building] = Built(@, StarterSteps[n])]
      /\ titles \subseteq titles'
      /\ \/ /\ build' = Tail(build) /\ ask' = [ask EXCEPT !.boards = {Building}]
            /\ UNCHANGED <<pc, read, plan, current, managed>> /\ UNCHANGED boundVars
         \/ SetupEnds /\ SetupFault
      /\ UNCHANGED <<hooks, workflow, config, startVars, acted>>
  <2>1. /\ board' = [board EXCEPT ![Building] = Built(@, Head(build))]
        /\ titles' = IF Head(build) \in DOMAIN StarterTag
                     THEN titles \cup {StarterTag[Head(build)]} ELSE titles
        /\ \/ /\ build' = Tail(build) /\ ask' = [ask EXCEPT !.boards = {Building}]
              /\ UNCHANGED <<pc, read, plan, current, managed>> /\ UNCHANGED boundVars
           \/ SetupEnds /\ SetupFault
        /\ UNCHANGED <<hooks, workflow, config, startVars, acted>>
    BY Zenon DEF BuildStep, Answered
  <2>2. titles \subseteq titles'
    BY <2>1
  <2> HIDE DEF n
  <2> QED
    BY <2>1, <2>2, <1>3, Zenon
<1> HIDE DEF n
<1> QED
  BY <1>0, <1>5, <1>6, <1>7

(* A step leaves the boards as they are, or builds one, or is people's. *)
LEMMA BoardSteps ==
    ASSUME SetupInv, [SetupNext]_setupAllVars
    PROVE  \/ UNCHANGED <<board, titles>>
           \/ BuildStep
           \/ \E b \in Board, cards \in CardSets : HumanDeals(b, cards)
<1> USE DEF fizzyVars
<1>1. CASE UNCHANGED setupAllVars
  BY <1>1, Zenon DEF setupAllVars
<1>2. CASE RunsSetup
  <2>1. CASE CreateHook \/ UpdateHook \/ ActivateHook
    BY <2>1, Calling
  <2> QED
    BY <1>2, <2>1, Zenon DEF RunsSetup, SetupBegins, ReadBoard, CheckBoards, Review, ApplyWorkflow,
       BuildRead, ListHooks, HookGone, WriteConfig, SetupThrows
<1>3. CASE Starts
  BY <1>3, Zenon DEF Starts, StartBegins, StartReadsBoard, StartCallFails, StartDecides, DaemonEnds
<1>4. CASE Human
  BY <1>4, Zenon DEF Human, HumanHooks, HumanWorkflow
<1> QED
  BY <1>1, <1>2, <1>3, <1>4 DEF SetupNext

-----------------------------------------------------------------------------
(* The steps of setup, each by what it does to what the invariant speaks of. *)

SetupRest == <<service, known, failed>>
Things    == <<board, titles, workflow, config, acted>>

Breaks  == SetupEnds /\ UNCHANGED Things /\ UNCHANGED hooks
AcceptsRead == /\ pc = "boards" /\ DOMAIN read.boards = ask.boards /\ Acceptable(read)
               /\ pc' = IF ask.starter THEN "hooks" ELSE "review"
               /\ UNCHANGED <<ask, read, plan, build, current, managed>> /\ UNCHANGED Things /\ UNCHANGED hooks
Agrees  == /\ pc = "review" /\ pc' = "workflow"
           /\ UNCHANGED <<ask, read, plan, build, current, managed>> /\ UNCHANGED Things /\ UNCHANGED hooks
Applies == /\ pc = "workflow" /\ workflow' = Planned
           /\ AfterWorkflow \/ SetupEnds
           /\ UNCHANGED <<board, titles, config, acted>> /\ UNCHANGED hooks
Tends   == /\ ListHooks \/ CreateHook \/ UpdateHook \/ ActivateHook
           /\ pc \in AtHooks
           /\ (pc' \in AtHooks /\ UNCHANGED <<ask, read, plan, build>>) \/ SetupEnds
           /\ UNCHANGED Things
Begins  == \E starter, manage \in BOOLEAN, policy \in {"skip", "create", "append"} :
              \E boards \in SUBSET Board : SetupBegins(starter, policy, manage, boards)

LEMMA Tending == ASSUME NEW hook, Tend(hook) PROVE pc' \in AtHooks
BY Zenon DEF Tend, Manages, AtHooks

LEMMA SetupSteps ==
    ASSUME SetupInv, RunsSetup
    PROVE  /\ UNCHANGED SetupRest
           /\ \/ Begins \/ ReadBoard \/ AcceptsRead \/ Agrees \/ Applies \/ BuildStep \/ BuildRead
              \/ Tends \/ WriteConfig \/ Breaks
<1> USE DEF SetupRest, Things, fizzyVars, startVars, boundVars, Resting
<1>1. CASE Begins
  BY <1>1, Zenon DEF Begins, SetupBegins
<1>2. CASE ReadBoard \/ BuildStep \/ BuildRead \/ WriteConfig
  BY <1>2, Zenon DEF ReadBoard, BuildStep, BuildRead, WriteConfig
<1>3. CASE CheckBoards
  <2>1. CASE SetupAccepts
    BY <1>3, <2>1, Zenon DEF CheckBoards, AcceptsRead, SetupAccepts
  <2>2. CASE ~SetupAccepts
    BY <1>3, <2>2, Zenon DEF CheckBoards, Breaks
  <2> QED
    BY <2>1, <2>2
<1>4. CASE Review
  BY <1>4, Zenon DEF Review, Agrees, Breaks
<1>5. CASE ApplyWorkflow
  <2>1. CASE plan = "create" /\ workflow.there
    BY <1>5, <2>1, Zenon DEF ApplyWorkflow, Breaks
  <2>2. CASE ~(plan = "create" /\ workflow.there)
    BY <1>5, <2>2, Zenon DEF ApplyWorkflow, Answered, Applies
  <2> QED
    BY <2>1, <2>2
<1>6. CASE ListHooks
  <2>1. pc \in AtHooks
    BY <1>6, Zenon DEF ListHooks, AtHooks
  <2>2. pc' \in AtHooks
    <3>1. PICK b \in Unmanaged :
             IF Listed(b) = {}
             THEN pc' = "create" /\ current' = [NoHook EXCEPT !.board = b] /\ UNCHANGED managed
             ELSE Tend(Seen(b, CHOOSE i \in Listed(b) : \A j \in Listed(b) : i <= j))
      BY <1>6, Zenon DEF ListHooks
    <3> QED
      BY <3>1, Tending, Zenon DEF AtHooks
  <2> QED
    BY <1>6, <2>1, <2>2, Zenon DEF ListHooks, Tends
<1>7. CASE CreateHook \/ UpdateHook \/ ActivateHook
  <2>1. /\ pc \in AtHooks
        /\ (pc' \in AtHooks /\ UNCHANGED <<ask, read, plan, build>>) \/ SetupEnds
        /\ UNCHANGED <<board, titles, workflow, config, startVars, acted>>
    BY <1>7, Calling, Tending
  <2> QED
    BY <1>7, <2>1, Zenon DEF Tends
<1>8. CASE HookGone
  BY <1>8, Zenon DEF HookGone, Breaks
<1>9. CASE SetupThrows
  BY <1>9, Zenon DEF SetupThrows, Breaks
<1> QED
  BY <1>1, <1>2, <1>3, <1>4, <1>5, <1>6, <1>7, <1>8, <1>9, Zenon DEF RunsSetup, Begins

SetupHolds == <<pc, ask, read, plan, build, current, managed>>

(* A startup changes nothing that setup and people do. *)
LEMMA StartSteps ==
    ASSUME SetupInv, Starts
    PROVE  /\ UNCHANGED SetupHolds /\ UNCHANGED <<board, titles, hooks, workflow, config>>
           /\ acted'.setup = acted.setup /\ acted'.config = acted.config
<1>1. acted \in [setup : BOOLEAN, config : BOOLEAN, start : BOOLEAN]
  BY DEF SetupInv, SetupTypes
<1>2. /\ UNCHANGED SetupHolds /\ UNCHANGED <<board, titles, hooks, workflow, config>>
      /\ \/ acted' = acted \/ acted' = [acted EXCEPT !.start = acted.config]
         \/ acted' = [acted EXCEPT !.start = FALSE]
  BY Zenon DEF Starts, StartBegins, StartReadsBoard, StartCallFails, StartDecides, DaemonEnds,
     fizzyVars, setupVars, SetupHolds
<1> QED
  BY <1>1, <1>2

(* Whoever people disturb knows it. *)
LEMMA PersonSteps ==
    ASSUME SetupInv, Human
    PROVE  /\ UNCHANGED SetupHolds /\ UNCHANGED SetupRest /\ UNCHANGED config
           /\ workflow'.sections = workflow.sections
           /\ acted' = [setup |-> pc # "off", config |-> config.written, start |-> service = "validating"]
           /\ (acted'.setup <=> pc # "off") /\ (acted'.config <=> config.written)
           /\ (acted'.start <=> service = "validating")
           /\ titles \subseteq titles'
<1>1. Person /\ UNCHANGED SetupHolds /\ UNCHANGED SetupRest /\ UNCHANGED config
  BY Zenon DEF Human, HumanDeals, HumanHooks, HumanWorkflow, Person, setupVars, startVars, SetupHolds, SetupRest
<1>2. workflow'.sections = workflow.sections
  <2>1. workflow' = workflow \/ workflow' = [there |-> TRUE, sections |-> workflow.sections]
    BY Zenon DEF Human, HumanDeals, HumanHooks, HumanWorkflow
  <2> QED
    BY <2>1
<1>3. titles \subseteq titles'
  <2>1. titles' = titles \/ \E S : titles' = titles \cup S
    BY Zenon DEF Human, HumanDeals, HumanHooks, HumanWorkflow, fizzyVars
  <2> QED
    BY <2>1
<1>4. acted' = [setup |-> pc # "off", config |-> config.written, start |-> service = "validating"]
  BY <1>1 DEF Person
<1>5. /\ acted'.setup = (pc # "off") /\ acted'.config = config.written
      /\ acted'.start = (service = "validating")
  BY <1>4
<1> QED
  BY <1>1, <1>2, <1>3, <1>4, <1>5

LEMMA SetupSides ==
    ASSUME [SetupNext]_setupAllVars
    PROVE  RunsSetup \/ Starts \/ Human \/ (UNCHANGED SetupHolds /\ UNCHANGED SetupRest
               /\ UNCHANGED Things /\ UNCHANGED hooks)
BY Zenon DEF SetupNext, setupAllVars, fizzyVars, setupVars, startVars, SetupHolds, SetupRest, Things

-----------------------------------------------------------------------------
(* Every step keeps the invariant, one part after the other. *)

(* Boards keep their shape and are not unmade, what is not made has no cards,
   and a step that is not one of createStarterBoard makes none. *)
LEMMA BoardsKeep ==
    ASSUME SetupInv, [SetupNext]_setupAllVars
    PROVE  /\ DOMAIN board' = Board
           /\ \A b \in Board : /\ DOMAIN board'[b] = {"made", "columns", "cards"}
                               /\ board'[b].made \in BOOLEAN
                               /\ board[b].made => board'[b].made
                               /\ ~board'[b].made => board'[b].cards = <<>>
                               /\ ~BuildStep => board'[b].made = board[b].made
           /\ titles \subseteq titles'
<1>0. /\ DOMAIN board = Board
      /\ \A b \in Board : /\ DOMAIN board[b] = {"made", "columns", "cards"}
                          /\ board[b].made \in BOOLEAN
                          /\ ~board[b].made => board[b].cards = <<>>
  BY DEF SetupInv, SetupTypes, BoardsMade, MadeFirst
<1>1. CASE UNCHANGED <<board, titles>>
  BY <1>0, <1>1
<1>2. CASE BuildStep
  <2>1. PICK b \in Starter, n \in 1..9 :
              /\ n > 1 => board[b].made
              /\ board' = [board EXCEPT ![b] = Built(@, StarterSteps[n])]
              /\ titles \subseteq titles'
    BY <1>2, BuildingOne
  <2> DEFINE c == Built(board[b], StarterSteps[n])
  <2>2. b \in Board
    BY SetupAssumption
  <2>3. DOMAIN c = {"made", "columns", "cards"} /\ c.made \in BOOLEAN /\ (c.made <=> (n = 1 \/ board[b].made))
    <3>1. DOMAIN board[b] = {"made", "columns", "cards"} /\ board[b].made \in BOOLEAN
      BY <1>0, <2>2
    <3>2. c = Built(board[b], StarterSteps[n])
      OBVIOUS
    <3> HIDE DEF c
    <3> QED
      BY <3>1, <3>2, BuildingMade
  <2> HIDE DEF c
  <2>4. board' = [board EXCEPT ![b] = c]
    BY <2>1 DEF c
  <2> QED
    BY <1>0, <1>2, <2>1, <2>2, <2>3, <2>4
<1>3. ASSUME NEW b \in Board, NEW cards \in CardSets, HumanDeals(b, cards)
      PROVE  /\ DOMAIN board' = Board
             /\ \A d \in Board : /\ DOMAIN board'[d] = {"made", "columns", "cards"}
                                 /\ board'[d].made = board[d].made
                                 /\ ~board'[d].made => board'[d].cards = <<>>
             /\ titles \subseteq titles'
  <2>1. /\ board[b].made /\ board' = [board EXCEPT ![b].cards = cards]
        /\ titles' = titles \cup UNION {cards[i].tags : i \in DOMAIN cards}
    BY <1>3 DEF HumanDeals
  <2>2. titles \subseteq titles'
    BY <2>1
  <2>3. \A d \in Board : d # b => board'[d] = board[d]
    BY <1>0, <2>1
  <2>4. board'[b] = [board[b] EXCEPT !.cards = cards] /\ DOMAIN board' = Board
    BY <1>0, <2>1
  <2>5. DOMAIN board'[b] = {"made", "columns", "cards"} /\ board'[b].made = board[b].made
    BY <1>0, <2>4
  <2> QED
    BY <1>0, <2>1, <2>2, <2>3, <2>4, <2>5
<1> QED
  BY <1>0, <1>1, <1>2, <1>3, BoardSteps

(* A board that is configured or started from is changed by people only, who
   then are known to have acted. *)
LEMMA BoardsStand ==
    ASSUME SetupInv, [SetupNext]_setupAllVars, NEW b \in config.boards \cup Starting, board'[b] # board[b]
    PROVE  Human
<1>0. b \in Board /\ DOMAIN board = Board
  BY DEF SetupInv, SetupTypes, BoardsMade, MadeFirst
<1>1. CASE BuildStep
  <2>1. PICK d \in Starter, n \in 1..9 :
              /\ d \notin config.boards \cup Starting
              /\ board' = [board EXCEPT ![d] = Built(@, StarterSteps[n])]
    BY <1>1, BuildingOne
  <2> QED
    BY <1>0, <2>1
<1>2. CASE \E d \in Board, cards \in CardSets : HumanDeals(d, cards)
  BY <1>2 DEF Human
<1> QED
  BY <1>1, <1>2, BoardSteps

(* Webhooks keep their types; only their calls and people change them. *)
LEMMA HooksTyped ==
    ASSUME SetupInv, [SetupNext]_setupAllVars
    PROVE  DOMAIN hooks' = Board /\ \A b \in Board : hooks'[b] \in Seq(AHook)
<1>0. /\ DOMAIN hooks = Board /\ \A b \in Board : hooks[b] \in Seq(AHook)
  BY DEF SetupInv, SetupTypes
<1>1. CASE UNCHANGED hooks
  BY <1>0, <1>1
<1>2. CASE CreateHook \/ UpdateHook \/ ActivateHook
  <2>1. PICK b \in Board, h \in AHook : \E i \in 1..Len(hooks[b]) + 1 : Hook(b, i, h)
    BY <1>2, Calling
  <2>2. PICK i \in 1..Len(hooks[b]) + 1 : Hook(b, i, h)
    BY <2>1
  <2> QED
    BY <1>0, <2>2, Hooked
<1>3. ASSUME NEW b \in Board, NEW i \in DOMAIN hooks[b], NEW field \in {"active", "wanted", "gone"},
             HumanHooks(b, i, [hooks[b][i] EXCEPT ![field] = ~@])
      PROVE  DOMAIN hooks' = Board /\ \A d \in Board : hooks'[d] \in Seq(AHook)
  <2> DEFINE h == [hooks[b][i] EXCEPT ![field] = ~@]
  <2>1. i \in 1..Len(hooks[b]) + 1 /\ hooks[b][i] \in AHook
    BY <1>0
  <2>2. h \in AHook
    BY <2>1 DEF AHook
  <2>3. Hook(b, i, h)
    BY <1>3, Zenon DEF HumanHooks
  <2> HIDE DEF h
  <2> QED
    BY <1>0, <2>1, <2>2, <2>3, Hooked
<1>4. \/ UNCHANGED hooks \/ CreateHook \/ UpdateHook \/ ActivateHook
      \/ \E b \in Board : \E i \in DOMAIN hooks[b] : \E field \in {"active", "wanted", "gone"} :
            HumanHooks(b, i, [hooks[b][i] EXCEPT ![field] = ~@])
  BY Zenon DEF SetupNext, setupAllVars, fizzyVars, RunsSetup, SetupBegins, ReadBoard, CheckBoards, Review,
     ApplyWorkflow, BuildStep, BuildRead, ListHooks, HookGone, WriteConfig, SetupThrows, Starts,
     StartBegins, StartReadsBoard, StartCallFails, StartDecides, DaemonEnds, Human, HumanDeals, HumanWorkflow
<1> QED
  BY <1>1, <1>2, <1>3, <1>4

LEMMA SetupTyped ==
    ASSUME SetupInv, [SetupNext]_setupAllVars
    PROVE  SetupTypes'
<1>0. SetupTypes
  BY DEF SetupInv
<1> DEFINE AnAsk == [starter : BOOLEAN, manage : BOOLEAN, boards : SUBSET Board]
           Shaped(r) == DOMAIN r = {"boards", "titles", "missing"}
           Acted == [setup : BOOLEAN, config : BOOLEAN, start : BOOLEAN]
           Done(c) == DOMAIN c = {"boards", "hooks", "written"} /\ c.boards \subseteq Board
                      /\ c.written \in BOOLEAN
           File == [there : BOOLEAN, sections : Nat]
<1>1. ask \in AnAsk /\ Shaped(read) /\ Shaped(known) /\ acted \in Acted /\ Done(config)
      /\ workflow \in File /\ failed \in BOOLEAN
  BY <1>0 DEF SetupTypes
<1>2. NoAsk \in AnAsk /\ Shaped(NoRead)
  BY DEF NoAsk, NoRead
<1>b. DOMAIN board' = Board /\ \A b \in Board : DOMAIN board'[b] = {"made", "columns", "cards"} /\ board'[b].made \in BOOLEAN
  BY BoardsKeep
<1>h. DOMAIN hooks' = Board /\ \A b \in Board : hooks'[b] \in Seq(AHook)
  BY HooksTyped
<1>3. SUFFICES /\ ask' \in AnAsk /\ Shaped(read') /\ Shaped(known') /\ acted' \in Acted
               /\ Done(config') /\ workflow' \in File /\ failed' \in BOOLEAN
  BY <1>b, <1>h DEF SetupTypes
<1>4. ASSUME SetupEnds PROVE ask' \in AnAsk /\ Shaped(read')
  BY <1>2, <1>4 DEF SetupEnds
<1>5. CASE RunsSetup
  <2>0. known' = known /\ failed' = failed
    BY <1>5, SetupSteps DEF SetupRest
  <2>1. ASSUME Begins PROVE ask' \in AnAsk /\ Shaped(read') /\ acted' \in Acted /\ Done(config') /\ workflow' \in File
    <3>1. PICK starter \in BOOLEAN, manage \in BOOLEAN, boards \in SUBSET Board :
            /\ ask' = [starter |-> starter, manage |-> manage, boards |-> boards]
            /\ read' = [NoRead EXCEPT !.titles = titles]
            /\ acted' = [acted EXCEPT !.setup = FALSE]
            /\ UNCHANGED <<workflow, config>>
      BY <2>1, Zenon DEF Begins, SetupBegins
    <3> QED
      BY <1>1, <1>2, <3>1
  <2>2. ASSUME ReadBoard PROVE ask' \in AnAsk /\ Shaped(read') /\ acted' \in Acted /\ Done(config') /\ workflow' \in File
    <3>1. /\ \E S : read' = [read EXCEPT !.boards = S]
          /\ UNCHANGED <<ask, acted, workflow, config>>
      BY <2>2, Zenon DEF ReadBoard
    <3> QED
      BY <1>1, <3>1
  <2>3. ASSUME Applies PROVE ask' \in AnAsk /\ Shaped(read') /\ acted' \in Acted /\ Done(config') /\ workflow' \in File
    <3>1. workflow' \in File
      BY <1>1, <2>3 DEF Applies, Planned
    <3>2. (UNCHANGED <<ask, read>> \/ SetupEnds) /\ UNCHANGED <<acted, config>>
      BY <2>3, Zenon DEF Applies, AfterWorkflow
    <3> QED
      BY <1>1, <1>4, <3>1, <3>2
  <2>4. ASSUME BuildStep PROVE ask' \in AnAsk /\ Shaped(read') /\ acted' \in Acted /\ Done(config') /\ workflow' \in File
    <3>1. PICK b \in Starter : /\ (ask' = [ask EXCEPT !.boards = {b}] /\ UNCHANGED read) \/ SetupEnds
                               /\ UNCHANGED <<workflow, config, acted>>
      BY <2>4, BuildingOne
    <3>2. b \in Board
      BY SetupAssumption
    <3> QED
      BY <1>1, <1>4, <3>1, <3>2
  <2>5. ASSUME BuildRead PROVE ask' \in AnAsk /\ Shaped(read') /\ acted' \in Acted /\ Done(config') /\ workflow' \in File
    <3>1. /\ read' = [NoRead EXCEPT !.boards = [b \in ask.boards |-> board[b]], !.titles = titles]
          /\ UNCHANGED <<ask, acted, workflow, config>>
      BY <2>5, Zenon DEF BuildRead, fizzyVars
    <3> QED
      BY <1>1, <1>2, <3>1
  <2>6. ASSUME WriteConfig PROVE ask' \in AnAsk /\ Shaped(read') /\ acted' \in Acted /\ Done(config') /\ workflow' \in File
    <3>1. /\ config' = [boards |-> ask.boards, hooks |-> managed, written |-> TRUE]
          /\ SetupEnds /\ acted' = [acted EXCEPT !.config = acted.setup] /\ UNCHANGED workflow
      BY <2>6, Zenon DEF WriteConfig
    <3> QED
      BY <1>1, <1>4, <3>1
  <2>7. ASSUME AcceptsRead \/ Agrees \/ Tends \/ Breaks
        PROVE  ask' \in AnAsk /\ Shaped(read') /\ acted' \in Acted /\ Done(config') /\ workflow' \in File
    <3>1. (UNCHANGED <<ask, read>> \/ SetupEnds) /\ UNCHANGED <<workflow, config, acted>>
      BY <2>7, Zenon DEF AcceptsRead, Agrees, Tends, Breaks, Things
    <3> QED
      BY <1>1, <1>4, <3>1
  <2> HIDE DEF AnAsk, Shaped, Acted, Done, File
  <2> QED
    BY <1>1, <1>5, <2>0, <2>1, <2>2, <2>3, <2>4, <2>5, <2>6, <2>7, SetupSteps
<1>6. CASE Starts
  <2>1. UNCHANGED <<ask, read, workflow, config>>
    BY <1>6, StartSteps DEF SetupHolds
  <2>2. acted' = acted \/ acted' = [acted EXCEPT !.start = acted.config] \/ acted' = [acted EXCEPT !.start = FALSE]
    BY <1>6, Zenon DEF Starts, StartBegins, StartReadsBoard, StartCallFails, StartDecides, DaemonEnds
  <2>3. /\ failed' = failed \/ failed' = FALSE \/ failed' = TRUE
        /\ \/ known' = known \/ known' = NoRead
           \/ known' = [NoRead EXCEPT !.titles = titles, !.missing = config.boards]
           \/ \E S : known' = [known EXCEPT !.missing = S]
           \/ \E S, T : known' = [known EXCEPT !.missing = S, !.boards = T]
    BY <1>6, Zenon DEF Starts, StartBegins, StartReadsBoard, StartCallFails, StartDecides, DaemonEnds
  <2>4. Shaped(known')
    BY <2>3, <1>1, <1>2
  <2> QED
    BY <1>1, <2>1, <2>2, <2>3, <2>4
<1>7. CASE Human
  <2>1. /\ UNCHANGED <<ask, read, known, failed, config>>
        /\ acted' = [setup |-> pc # "off", config |-> config.written, start |-> service = "validating"]
    BY <1>7, PersonSteps DEF SetupHolds, SetupRest
  <2>2. workflow' \in File
    <3>1. workflow' = workflow \/ workflow' = [there |-> TRUE, sections |-> workflow.sections]
      BY <1>7, Zenon DEF Human, HumanDeals, HumanHooks, HumanWorkflow
    <3>2. workflow.sections \in Nat /\ workflow \in File
      BY <1>1
    <3>3. [there |-> TRUE, sections |-> workflow.sections] \in File
      BY <3>2
    <3> QED
      BY <3>1, <3>2, <3>3, Zenon
  <2>3. acted' \in Acted
    <3>1. (pc # "off") \in BOOLEAN /\ config.written \in BOOLEAN /\ (service = "validating") \in BOOLEAN
      BY <1>1
    <3> QED
      BY <2>1, <3>1, Zenon
  <2> QED
    BY <1>1, <2>1, <2>2, <2>3
<1>8. CASE UNCHANGED SetupHolds /\ UNCHANGED SetupRest /\ UNCHANGED Things
  BY <1>1, <1>8 DEF SetupHolds, SetupRest, Things
<1> QED
  BY <1>5, <1>6, <1>7, <1>8, SetupSides

(* A startup goes by what is configured, and drops what it cannot read. *)
LEMMA StartingFrom ==
    ASSUME SetupInv, [SetupNext]_setupAllVars
    PROVE  /\ Starting' \subseteq config.boards \cup Starting
           /\ ~StartBegins => Starting' \subseteq Starting
<1>0. DOMAIN known = {"boards", "titles", "missing"}
  BY DEF SetupInv, SetupTypes
<1>1. CASE known' = known
  BY <1>1 DEF Starting
<1>2. CASE StartBegins
  <2>1. known' = [NoRead EXCEPT !.titles = titles, !.missing = config.boards]
    BY <1>2 DEF StartBegins
  <2>2. known'.boards = <<>> /\ known'.missing = config.boards
    BY <2>1 DEF NoRead
  <2> QED
    BY <1>2, <2>2, Nothing DEF Starting
<1>3. ASSUME NEW b \in Board, StartReadsBoard(b) PROVE Starting' = Starting
  <2> DEFINE f == [d \in DOMAIN known.boards \cup {b} |-> IF d = b THEN board[b] ELSE known.boards[d]]
  <2>1. b \in known.missing /\ known' = [known EXCEPT !.missing = @ \ {b}, !.boards = f]
    BY <1>3 DEF StartReadsBoard
  <2>2. DOMAIN f = DOMAIN known.boards \cup {b}
    OBVIOUS
  <2> HIDE DEF f
  <2>3. known'.boards = f /\ known'.missing = known.missing \ {b}
    BY <1>0, <2>1
  <2> QED
    BY <2>1, <2>2, <2>3 DEF Starting
<1>4. CASE StartCallFails
  <2>1. PICK b \in known.missing : known' = [known EXCEPT !.missing = @ \ {b}]
    BY <1>4 DEF StartCallFails
  <2>2. known'.boards = known.boards /\ known'.missing = known.missing \ {b}
    BY <1>0, <2>1
  <2>3. ~StartBegins
    BY <1>4 DEF StartCallFails, StartBegins
  <2> QED
    BY <2>2, <2>3 DEF Starting
<1>5. CASE known' = NoRead
  <2>1. known'.boards = <<>> /\ known'.missing = {}
    BY <1>5 DEF NoRead
  <2> QED
    BY <2>1, Nothing DEF Starting
<1>6. CASE RunsSetup
  BY <1>1, <1>6, SetupSteps DEF SetupRest
<1>7. CASE Human
  BY <1>1, <1>7, PersonSteps DEF SetupRest
<1>8. CASE Starts
  BY <1>2, <1>3, <1>4, <1>5, <1>8, Zenon DEF Starts, StartDecides, DaemonEnds
<1> QED
  BY <1>1, <1>6, <1>7, <1>8, SetupSides DEF SetupRest

(* The config is written at the end of a setup, and only then. *)
LEMMA Configured ==
    ASSUME SetupInv, [SetupNext]_setupAllVars
    PROVE  \/ UNCHANGED config /\ ~WriteConfig
           \/ WriteConfig /\ config' = [boards |-> ask.boards, hooks |-> managed, written |-> TRUE]
<1>1. CASE WriteConfig
  BY <1>1 DEF WriteConfig
<1>2. CASE RunsSetup /\ ~WriteConfig
  <2>1. CASE BuildStep
    BY <1>2, <2>1 DEF BuildStep
  <2> QED
    BY <1>2, <2>1, SetupSteps, Zenon DEF Begins, SetupBegins, ReadBoard, AcceptsRead, Agrees, Applies, BuildRead,
       Tends, Breaks, Things
<1> QED
  BY <1>1, <1>2, SetupSides, StartSteps, PersonSteps DEF Things

LEMMA MadeKept ==
    ASSUME SetupInv, [SetupNext]_setupAllVars
    PROVE  MadeFirst'
<1>1. /\ \A b \in Board : /\ board[b].made => board'[b].made
                          /\ ~board'[b].made => board'[b].cards = <<>>
  BY BoardsKeep
<1>2. \A b \in ask.boards \cup config.boards \cup Starting : b \in Board /\ board[b].made
  BY DEF SetupInv, BoardsMade, MadeFirst
<1>3. Starting' \subseteq config.boards \cup Starting
  BY StartingFrom
<1>4. config'.boards \subseteq config.boards \cup ask.boards
  BY Configured
<1>5. \A b \in ask'.boards : b \in Board /\ board'[b].made
  <2>0. ASSUME UNCHANGED ask \/ SetupEnds PROVE \A b \in ask'.boards : b \in Board /\ board'[b].made
    BY <1>1, <1>2, <2>0, Ending
  <2>1. CASE Begins
    <3>1. PICK starter, manage \in BOOLEAN, boards \in SUBSET Board :
            /\ boards \subseteq {b \in Board : board[b].made}
            /\ ask' = [starter |-> starter, manage |-> manage, boards |-> boards]
      BY <2>1, Zenon DEF Begins, SetupBegins
    <3>2. ask'.boards = boards
      BY <3>1
    <3> QED
      BY <1>1, <3>1, <3>2
  <2>2. CASE BuildStep
    <3>1. PICK b \in Starter, n \in 1..9 :
              /\ b \in Board
              /\ n > 1 => board[b].made
              /\ board' = [board EXCEPT ![b] = Built(@, StarterSteps[n])]
              /\ ask' = [ask EXCEPT !.boards = {b}] \/ SetupEnds
      BY <2>2, BuildingOne
    <3>2. board'[b].made
      <4> DEFINE c == Built(board[b], StarterSteps[n])
      <4>1. DOMAIN board = Board /\ DOMAIN board[b] = {"made", "columns", "cards"} /\ board[b].made \in BOOLEAN
        BY <3>1 DEF SetupInv, SetupTypes
      <4>2. c = Built(board[b], StarterSteps[n]) /\ board'[b] = c
        BY <3>1, <4>1
      <4> HIDE DEF c
      <4> QED
        BY <3>1, <4>1, <4>2, BuildingMade
    <3>3. CASE SetupEnds
      BY <2>0, <3>3
    <3>4. CASE ask' = [ask EXCEPT !.boards = {b}]
      <4>1. ask'.boards = {b}
        BY <3>4 DEF SetupInv, SetupTypes
      <4> QED
        BY <3>1, <3>2, <4>1
    <3> QED
      BY <3>1, <3>3, <3>4
  <2>3. CASE RunsSetup
    BY <2>0, <2>1, <2>2, <2>3, SetupSteps, Zenon DEF ReadBoard, AcceptsRead, Agrees, Applies, AfterWorkflow,
       BuildRead, Tends, WriteConfig, Breaks
  <2> QED
    BY <2>0, <2>3, SetupSides, StartSteps, PersonSteps DEF SetupHolds
<1> QED
  BY <1>1, <1>2, <1>3, <1>4, <1>5 DEF MadeFirst

LEMMA IdleKept ==
    ASSUME SetupInv, [SetupNext]_setupAllVars
    PROVE  Idle'
<1>0. Idle
  BY DEF SetupInv
<1>1. ASSUME SetupEnds PROVE Idle'
  BY <1>1, Ending DEF Idle
<1>2. ASSUME UNCHANGED SetupHolds PROVE Idle'
  BY <1>0, <1>2 DEF Idle, SetupHolds
<1>3. CASE RunsSetup
  <2>1. CASE Begins
    BY <1>0, <2>1 DEF Begins, SetupBegins, Idle, AtHooks
  <2>2. CASE ReadBoard \/ AcceptsRead \/ Agrees \/ Applies \/ BuildRead
    <3>1. (pc' # "off" /\ pc \notin AtHooks /\ UNCHANGED managed) \/ SetupEnds
      BY <2>2 DEF ReadBoard, AcceptsRead, Agrees, Applies, AfterWorkflow, BuildRead, AtHooks
    <3> QED
      BY <1>0, <1>1, <3>1 DEF Idle
  <2>3. CASE Tends
    <3>1. pc' \in AtHooks \/ SetupEnds
      BY <2>3 DEF Tends
    <3> QED
      BY <1>1, <3>1 DEF Idle, AtHooks
  <2>4. CASE WriteConfig \/ Breaks
    <3>1. SetupEnds
      BY <2>4, Zenon DEF WriteConfig, Breaks
    <3> QED
      BY <1>1, <3>1
  <2>5. CASE BuildStep
    <3>1. pc = "build" /\ ((pc' = pc /\ UNCHANGED managed) \/ SetupEnds)
      BY <2>5, BuildingOne
    <3> QED
      BY <1>0, <1>1, <3>1 DEF Idle, AtHooks
  <2> QED
    BY <1>3, <2>1, <2>2, <2>3, <2>4, <2>5, SetupSteps
<1> QED
  BY <1>2, <1>3, SetupSides, StartSteps, PersonSteps

LEMMA SectionKept ==
    ASSUME SetupInv, [SetupNext]_setupAllVars
    PROVE  SectionOnce'
<1>0. SectionOnce /\ workflow.sections \in Nat
  BY DEF SetupInv, SetupTypes
<1>1. ASSUME workflow'.sections = workflow.sections, UNCHANGED SetupHolds PROVE SectionOnce'
  BY <1>0, <1>1 DEF SectionOnce, SetupHolds
<1>2. ASSUME workflow'.sections <= 1, SetupEnds PROVE SectionOnce'
  BY <1>2, Ending DEF SectionOnce
<1>3. CASE RunsSetup
  <2>1. CASE Begins
    <3>1. PICK policy \in {"skip", "create", "append"} : plan' = PlanFor(policy) /\ UNCHANGED workflow
      BY <2>1, Zenon DEF Begins, SetupBegins
    <3>2. plan' = "append" => workflow.sections = 0
      BY <3>1 DEF PlanFor
    <3> QED
      BY <1>0, <3>1, <3>2 DEF SectionOnce
  <2>2. CASE ReadBoard \/ AcceptsRead \/ Agrees
    <3>1. /\ UNCHANGED <<workflow, plan, ask>>
          /\ pc \in {"boards", "review"}
          /\ (pc = "boards" /\ ask.starter /\ pc' \in {"boards", "hooks"}) \/ (pc = "boards" /\ ~ask.starter)
               \/ pc = "review"
      BY <2>2 DEF ReadBoard, AcceptsRead, Agrees, Things
    <3> QED
      BY <1>0, <3>1 DEF SectionOnce
  <2>3. CASE Applies
    <3>1. pc = "workflow" /\ workflow' = Planned /\ (pc' \in {"build", "hooks"} \/ SetupEnds)
      BY <2>3 DEF Applies, AfterWorkflow
    <3>2. workflow'.sections <= 1
      <4>1. plan = "append" => workflow.sections = 0
        BY <1>0, <3>1 DEF SectionOnce
      <4> QED
        BY <1>0, <3>1, <4>1 DEF Planned, SectionOnce
    <3> QED
      BY <1>2, <3>1, <3>2 DEF SectionOnce
  <2>4. CASE BuildStep
    <3>1. UNCHANGED workflow /\ ((UNCHANGED <<pc, plan>> /\ pc = "build") \/ SetupEnds)
      BY <2>4, BuildingOne
    <3> QED
      BY <1>0, <1>2, <3>1 DEF SectionOnce
  <2>5. CASE BuildRead
    <3>1. UNCHANGED <<workflow, ask>> /\ pc = "build" /\ pc' = "boards"
      BY <2>5, Zenon DEF BuildRead
    <3>2. ask.starter
      BY <3>1 DEF SetupInv, BoardsMade, BuildGoes
    <3> QED
      BY <1>0, <3>1, <3>2 DEF SectionOnce
  <2>6. CASE Tends
    <3>1. UNCHANGED workflow /\ (pc' \in AtHooks \/ SetupEnds)
      BY <2>6 DEF Tends, Things
    <3> QED
      BY <1>0, <1>2, <3>1 DEF SectionOnce, AtHooks
  <2>7. CASE WriteConfig \/ Breaks
    <3>1. UNCHANGED workflow /\ SetupEnds
      BY <2>7, Zenon DEF WriteConfig, Breaks, Things
    <3> QED
      BY <1>0, <1>2, <3>1 DEF SectionOnce
  <2> QED
    BY <1>3, <2>1, <2>2, <2>3, <2>4, <2>5, <2>6, <2>7, SetupSteps
<1> QED
  BY <1>1, <1>3, SetupSides, StartSteps, PersonSteps DEF Things

LEMMA AskedKept ==
    ASSUME SetupInv, [SetupNext]_setupAllVars
    PROVE  StarterAsked'
<1>0. StarterAsked /\ Starter \subseteq Board
  BY SetupAssumption DEF SetupInv, BoardsMade
<1>1. ~BuildStep => \A b \in Board : board'[b].made = board[b].made
  BY BoardsKeep
<1>2. Unmade /\ ~BuildStep => Unmade'
  BY <1>0, <1>1 DEF Unmade
<1>3. ASSUME UNCHANGED SetupHolds, ~BuildStep PROVE StarterAsked'
  BY <1>0, <1>2, <1>3 DEF StarterAsked, SetupHolds
<1>4. ASSUME SetupEnds PROVE StarterAsked'
  BY <1>4, Ending DEF StarterAsked
<1>5. CASE RunsSetup
  <2>1. CASE Begins
    <3>1. PICK starter, manage \in BOOLEAN, boards \in SUBSET Board :
            /\ starter <=> boards = {}
            /\ starter => \E b \in Starter : ~board[b].made
            /\ ask' = [starter |-> starter, manage |-> manage, boards |-> boards]
            /\ read' = [NoRead EXCEPT !.titles = titles]
            /\ UNCHANGED board
      BY <2>1, Zenon DEF Begins, SetupBegins, fizzyVars
    <3>2. ask'.starter = starter /\ ask'.boards = boards
      BY <3>1
    <3>3. read'.boards = <<>>
      BY <3>1 DEF NoRead
    <3> QED
      BY <3>1, <3>2, <3>3, Nothing DEF StarterAsked, Unmade
  <2>2. CASE ReadBoard \/ BuildRead \/ Applies \/ Tends
    <3>1. pc' \in {"boards", "build"} \cup AtHooks \/ SetupEnds
      BY <2>2 DEF ReadBoard, BuildRead, Applies, AfterWorkflow, Tends, AtHooks
    <3> QED
      BY <1>4, <3>1 DEF StarterAsked, AtHooks
  <2>3. CASE AcceptsRead
    BY <2>3 DEF AcceptsRead, StarterAsked
  <2>4. CASE Agrees
    <3>1. UNCHANGED <<ask, read>> /\ UNCHANGED board /\ pc = "review"
      BY <2>4 DEF Agrees, Things
    <3> QED
      BY <1>0, <3>1 DEF StarterAsked, Unmade
  <2>5. CASE BuildStep
    <3>1. (pc = "build" /\ pc' = pc) \/ SetupEnds
      BY <2>5, BuildingOne
    <3> QED
      BY <1>4, <3>1 DEF StarterAsked
  <2>6. CASE WriteConfig \/ Breaks
    <3>1. SetupEnds
      BY <2>6, Zenon DEF WriteConfig, Breaks
    <3> QED
      BY <1>4, <3>1
  <2> QED
    BY <1>5, <2>1, <2>2, <2>3, <2>4, <2>5, <2>6, SetupSteps
<1>6. CASE ~BuildStep /\ ~RunsSetup
  BY <1>3, <1>6, SetupSides, StartSteps, PersonSteps
<1>7. CASE BuildStep
  BY <1>5, <1>7 DEF RunsSetup
<1> QED
  BY <1>5, <1>6, <1>7

(* A step takes the board it builds from one stage to the next. *)
LEMMA Staged ==
    ASSUME SetupInv, NEW b \in Board, NEW n \in 1..9,
           board' = [board EXCEPT ![b] = Built(@, StarterSteps[n])],
           n = 1 => board[b].cards = <<>>,
           n > 1 => Stage(b, 11 - n)
    PROVE  Stage(b, 10 - n)'
<1>0. DOMAIN board = Board /\ DOMAIN board[b] = {"made", "columns", "cards"} /\ board[b].made \in BOOLEAN
  BY DEF SetupInv, SetupTypes
<1> DEFINE c == Built(board[b], StarterSteps[n])
<1>1. board'[b] = c /\ c = Built(board[b], StarterSteps[n])
  BY <1>0
<1> HIDE DEF c
<1>2. CASE n < 4
  <2>1. board[b].cards = <<>>
    <3>1. n > 1 => 11 - n > 6
      BY <1>2
    <3> QED
      BY <3>1 DEF Stage
  <2>2. c.cards = board[b].cards
    <3>1. n \in 1..3 /\ c = Built(board[b], StarterSteps[n])
      BY <1>1, <1>2
    <3> QED
      BY <1>0, <3>1, BuildingEarly
  <2>3. ~(10 - n <= 6)
    BY <1>2
  <2> QED
    BY <1>1, <2>1, <2>2, <2>3 DEF Stage
<1>3. CASE n = 4
  <2>1. board[b].cards = <<>>
    BY <1>3 DEF Stage
  <2>2. c = Built(board[b], "card")
    <3>1. StarterSteps[4] = "card"
      BY DEF StarterSteps
    <3> QED
      BY <1>1, <1>3, <3>1
  <2>3. PICK d : c.cards = <<d>> /\ DOMAIN d = {"golden", "column", "tags"} /\ d.tags = {}
    BY <1>0, <2>1, <2>2, BuildingFirst
  <2>4. <<d>>[1] = d
    OBVIOUS
  <2>5. board'[b].cards = <<d>>
    BY <1>1, <2>3
  <2> QED
    BY <1>3, <2>3, <2>4, <2>5 DEF Stage
<1>4. CASE n >= 5
  <2> DEFINE card == board[b].cards[1]
  <2>1. /\ board[b].cards = <<card>> /\ DOMAIN card = {"golden", "column", "tags"}
        /\ n = 5 => card.tags = {}
        /\ n > 5 => StarterTag["instructions"] \in card.tags
    <3>1. 11 - n <= 6 /\ (n = 5 => 11 - n = 6) /\ (n > 5 => 11 - n < 6) /\ n > 1
      BY <1>4
    <3> QED
      BY <3>1 DEF Stage
  <2>2. n \in 5..9
    BY <1>4
  <2> HIDE DEF card
  <2>3. PICK d : /\ c.cards = <<d>> /\ DOMAIN d = {"golden", "column", "tags"}
                 /\ n = 5 /\ card.tags = {} => StarterTag["instructions"] \in d.tags
                 /\ n > 5 /\ StarterTag["instructions"] \in card.tags => StarterTag["instructions"] \in d.tags
                 /\ n = 9 => d.golden
    BY <1>0, <1>1, <2>1, <2>2, BuildingCard
  <2>4. <<d>>[1] = d
    OBVIOUS
  <2>5. board'[b].cards = <<d>>
    BY <1>1, <2>3
  <2>6. StarterTag["instructions"] \in d.tags
    BY <2>1, <2>2, <2>3
  <2>7. ~(10 - n > 6) /\ 10 - n # 6 /\ (10 - n = 1 => n = 9)
    BY <1>4
  <2> QED
    BY <2>3, <2>4, <2>5, <2>6, <2>7 DEF Stage
<1> QED
  BY <1>2, <1>3, <1>4

(* Boards that are built are touched by people, or by the next step. *)
LEMMA BuildKept ==
    ASSUME SetupInv, [SetupNext]_setupAllVars
    PROVE  BuildGoes'
<1>0. BuildGoes /\ MadeFirst /\ Starter \subseteq Board
  BY SetupAssumption DEF SetupInv, BoardsMade
<1>1. CASE BuildStep
  <2>1. PICK b \in Starter, n \in 1..9 :
              /\ n = 11 - Len(build) /\ pc = "build"
              /\ b \in Board /\ b \notin config.boards \cup Starting
              /\ n = 1 => ~board[b].made
              /\ n > 1 /\ ~acted.setup => Stage(b, 11 - n)
              /\ board' = [board EXCEPT ![b] = Built(@, StarterSteps[n])]
              /\ \/ /\ build' = Tail(build) /\ ask' = [ask EXCEPT !.boards = {b}]
                    /\ UNCHANGED <<pc, read>>
                 \/ SetupEnds
              /\ UNCHANGED <<config, acted>> /\ UNCHANGED known
    BY <1>1, BuildingOne DEF startVars
  <2>2. CASE SetupEnds
    BY <2>2 DEF SetupEnds, BuildGoes
  <2>3. CASE build' = Tail(build) /\ ask' = [ask EXCEPT !.boards = {b}] /\ UNCHANGED <<pc, read>>
    <3>1. ask'.boards = {b} /\ ask'.starter = ask.starter
      BY <2>3 DEF SetupInv, SetupTypes
    <3>2. /\ ask.starter /\ DOMAIN read.boards = {}
          /\ Len(build) \in 1..10 /\ build \in Seq(AStep)
          /\ \A i \in 1..Len(build) : build[i] = StarterSteps[10 - Len(build) + i]
      BY <1>0, <2>1 DEF BuildGoes
    <3>3. Len(build) = 11 - n /\ Len(build) >= 2
      <4>1. PICK k \in 1..10 : Len(build) = k
        BY <3>2
      <4> QED
        BY <4>1, <2>1
    <3>4. /\ build' \in Seq(AStep) /\ Len(build') = 10 - n
          /\ \A i \in 1..(10 - n) : build'[i] = build[i + 1]
      <4>1. build # <<>>
        BY <3>2, <3>3
      <4> QED
        BY <2>3, <3>2, <3>3, <4>1
    <3>5. \A i \in 1..Len(build') : build'[i] = StarterSteps[10 - Len(build') + i]
      <4>1. ASSUME NEW i \in 1..(10 - n) PROVE build'[i] = StarterSteps[n + i]
        <5>1. i + 1 \in 1..Len(build) /\ 10 - Len(build) + (i + 1) = n + i
          BY <3>3
        <5> QED
          BY <3>2, <3>4, <5>1
      <4>2. \A i \in 1..(10 - n) : 10 - (10 - n) + i = n + i
        OBVIOUS
      <4> QED
        BY <3>4, <4>1, <4>2
    <3>6. ~acted'.setup => Stage(b, 10 - n)'
      <4>1. ASSUME ~acted'.setup PROVE Stage(b, 10 - n)'
        <5>1. n = 1 => board[b].cards = <<>>
          BY <1>0, <2>1 DEF MadeFirst
        <5>2. n > 1 => Stage(b, 11 - n)
          BY <2>1, <4>1
        <5> QED
          BY <2>1, <5>1, <5>2, Staged
      <4> QED
        BY <4>1
    <3>7. b \notin config'.boards \cup Starting'
      BY <2>1 DEF Starting
    <3>8. Len(build') \in 1..9 /\ 10 - n \in 1..9
      BY <3>3, <3>4
    <3>9. \E s \in Starter : /\ ask'.boards = {s} /\ s \notin config'.boards \cup Starting'
                             /\ ~acted'.setup => Stage(s, Len(build))'
      <4>1. Stage(b, Len(build))' <=> Stage(b, 10 - n)'
        BY <3>4
      <4> QED
        BY <2>1, <3>1, <3>6, <3>7, <4>1
    <3>10. ask'.starter /\ DOMAIN read'.boards = {} /\ Len(build') \in 1..10 /\ Len(build') # 10
      <4>1. ask'.starter /\ DOMAIN read'.boards = {}
        BY <2>3, <3>1, <3>2
      <4>2. PICK k \in 1..9 : Len(build') = k
        BY <3>8
      <4>3. Len(build') \in 1..10 /\ Len(build') # 10
        BY <4>2
      <4> QED
        BY <4>1, <4>3
    <3> QED
      BY <3>4, <3>5, <3>9, <3>10 DEF BuildGoes
  <2> QED
    BY <2>1, <2>2, <2>3
<1>2. CASE Applies
  <2>1. CASE SetupEnds
    BY <2>1 DEF SetupEnds, BuildGoes
  <2>2. CASE AfterWorkflow
    <3>1. CASE ~ask.starter
      BY <2>2, <3>1 DEF AfterWorkflow, BuildGoes
    <3>2. CASE ask.starter
      <4>1. pc = "workflow" /\ build' = StarterSteps /\ UNCHANGED <<ask, read>> /\ UNCHANGED board
        BY <1>2, <2>2, <3>2 DEF Applies, AfterWorkflow
      <4>2. ask.boards = {} /\ Unmade /\ DOMAIN read.boards = {}
        BY <3>2, <4>1 DEF SetupInv, BoardsMade, StarterAsked
      <4>3. StarterSteps \in Seq(AStep) /\ Len(StarterSteps) = 10
        <5>1. StarterSteps = [i \in 1..10 |-> StarterSteps[i]] /\ Len(StarterSteps) = 10
          BY DEF StarterSteps
        <5>2. \A i \in 1..10 : StarterSteps[i] \in AStep
          BY DEF AStep
        <5>3. StarterSteps \in [1..10 -> AStep]
          BY <5>1, <5>2, Zenon
        <5>4. [1..10 -> AStep] \in {[1..m -> AStep] : m \in Nat}
          OBVIOUS
        <5> QED
          BY <5>1, <5>3, <5>4, SeqDef
      <4>4. \A i \in 1..10 : StarterSteps[i] = StarterSteps[10 - 10 + i]
        OBVIOUS
      <4>5. Unmade'
        BY <4>1, <4>2 DEF Unmade
      <4> QED
        BY <3>2, <4>1, <4>2, <4>3, <4>4, <4>5 DEF BuildGoes
    <3> QED
      BY <3>1, <3>2
  <2> QED
    BY <1>2, <2>1, <2>2 DEF Applies
<1>3. CASE RunsSetup /\ ~BuildStep /\ ~Applies
  <2>1. pc' # "build"
    <3>1. CASE SetupEnds
      BY <3>1 DEF SetupEnds
    <3>2. CASE Begins \/ ReadBoard \/ AcceptsRead \/ Agrees \/ BuildRead \/ Tends
      BY <3>2 DEF Begins, SetupBegins, ReadBoard, AcceptsRead, Agrees, BuildRead, Tends, AtHooks, SetupEnds
    <3> QED
      BY <1>3, <3>1, <3>2, SetupSteps, Zenon DEF WriteConfig, Breaks
  <2> QED
    BY <2>1 DEF BuildGoes
<1>4. CASE Starts
  <2>1. UNCHANGED SetupHolds /\ UNCHANGED board /\ UNCHANGED config /\ acted'.setup = acted.setup
    BY <1>4, StartSteps
  <2>2. Starting' \subseteq config.boards \cup Starting
    BY StartingFrom
  <2>3. \A b \in Starter : Stage(b, Len(build))' <=> Stage(b, Len(build))
    BY <2>1 DEF Stage, SetupHolds
  <2>4. Unmade' <=> Unmade
    BY <2>1 DEF Unmade
  <2> QED
    BY <1>0, <2>1, <2>2, <2>3, <2>4 DEF BuildGoes, SetupHolds
<1>5. CASE Human
  <2>1. UNCHANGED SetupHolds /\ UNCHANGED config /\ UNCHANGED known /\ (pc # "off" => acted'.setup)
    BY <1>5, PersonSteps DEF SetupRest
  <2>2. Unmade => Unmade'
    <3>1. ~BuildStep
      <4>1. Human => UNCHANGED build
        BY <2>1 DEF SetupHolds
      <4>2. BuildStep => build' # build \/ (SetupEnds /\ pc = "build")
        <5>1. ASSUME BuildStep PROVE build' # build \/ (SetupEnds /\ pc = "build")
          <6>1. /\ pc = "build" /\ (build' = Tail(build) \/ SetupEnds)
            BY <5>1, BuildingOne
          <6>2. build \in Seq(AStep) /\ Len(build) \in 1..10
            BY <1>0, <6>1 DEF BuildGoes
          <6>3. Len(Tail(build)) # Len(build)
            <7>1. build # <<>>
              BY <5>1, Zenon DEF BuildStep
            <7> QED
              BY <6>2, <7>1
          <6> QED
            BY <6>1, <6>3
        <5> QED
          BY <5>1
      <4>3. SetupEnds /\ pc = "build" => pc' # pc
        BY DEF SetupEnds
      <4> QED
        BY <1>5, <2>1, <4>1, <4>2, <4>3 DEF SetupHolds
    <3> QED
      BY <1>0, <3>1, BoardsKeep DEF Unmade
  <2> QED
    BY <1>0, <2>1, <2>2 DEF BuildGoes, SetupHolds, Starting
<1>6. CASE UNCHANGED SetupHolds /\ UNCHANGED SetupRest /\ UNCHANGED Things
  <2>1. UNCHANGED SetupHolds /\ UNCHANGED board /\ UNCHANGED config /\ UNCHANGED acted /\ UNCHANGED known
    BY <1>6 DEF SetupRest, Things
  <2>2. \A b \in Starter : Stage(b, Len(build))' <=> Stage(b, Len(build))
    BY <2>1 DEF Stage, SetupHolds
  <2>3. (Unmade' <=> Unmade) /\ Starting' = Starting
    BY <2>1 DEF Unmade, Starting
  <2> QED
    BY <1>0, <2>1, <2>2, <2>3 DEF BuildGoes, SetupHolds
<1> QED
  BY <1>1, <1>2, <1>3, <1>4, <1>5, <1>6, SetupSides

(* The board of a starter setup keeps its ticket. *)
LEMMA TicketKept ==
    ASSUME SetupInv, [SetupNext]_setupAllVars
    PROVE  TicketBuilt'
<1>0. TicketBuilt
  BY DEF SetupInv, BoardsMade
<1>1. ASSUME UNCHANGED <<ask, board, acted>>, pc \in {"boards"} \cup AtHooks PROVE TicketBuilt'
  BY <1>0, <1>1 DEF TicketBuilt, HasTicket
<1>2. ASSUME SetupEnds PROVE TicketBuilt'
  BY <1>2 DEF SetupEnds, TicketBuilt, AtHooks
<1>3. ASSUME pc' \notin {"boards"} \cup AtHooks PROVE TicketBuilt'
  BY <1>3 DEF TicketBuilt
<1>4. CASE RunsSetup
  <2>1. CASE Begins
    <3>1. pc' = "review" \/ (~ask'.starter)
      BY <2>1 DEF Begins, SetupBegins
    <3> QED
      BY <3>1 DEF TicketBuilt, AtHooks
  <2>2. CASE ReadBoard
    BY <1>1, <2>2 DEF ReadBoard, fizzyVars
  <2>3. CASE AcceptsRead
    BY <1>1, <2>3 DEF AcceptsRead, Things
  <2>4. CASE Agrees
    BY <1>3, <2>4 DEF Agrees, AtHooks
  <2>5. CASE Applies
    <3>1. SetupEnds \/ pc' = "build" \/ ~ask'.starter
      BY <2>5 DEF Applies, AfterWorkflow
    <3> QED
      BY <1>2, <1>3, <3>1 DEF TicketBuilt, AtHooks
  <2>6. CASE BuildStep
    <3>1. (pc = "build" /\ pc' = pc) \/ SetupEnds
      BY <2>6, BuildingOne
    <3> QED
      BY <1>2, <1>3, <3>1 DEF AtHooks
  <2>7. CASE BuildRead
    <3>1. pc = "build" /\ build = <<"read">> /\ UNCHANGED <<ask, acted>> /\ UNCHANGED board
      BY <2>7, Zenon DEF BuildRead, fizzyVars
    <3>2. Len(build) = 1
      BY <3>1
    <3>3. \E b \in Starter : ask.boards = {b} /\ (~acted.setup => Stage(b, 1))
      BY <3>1, <3>2 DEF SetupInv, BoardsMade, BuildGoes
    <3>4. ASSUME NEW b \in Starter, Stage(b, 1) PROVE HasTicket(b)
      <4>1. /\ board[b].cards = <<board[b].cards[1]>> /\ board[b].cards[1].golden
            /\ StarterTag["instructions"] \in board[b].cards[1].tags
        BY <3>4 DEF Stage
      <4> DEFINE card == board[b].cards[1]
      <4>2. DOMAIN <<card>> = {1}
        OBVIOUS
      <4>3. DOMAIN board[b].cards = {1}
        BY <4>1, <4>2
      <4> QED
        BY <4>1, <4>3 DEF HasTicket
    <3> QED
      BY <3>1, <3>3, <3>4 DEF TicketBuilt, HasTicket
  <2>8. CASE Tends
    BY <1>1, <1>2, <2>8 DEF Tends, Things
  <2>9. CASE WriteConfig \/ Breaks
    BY <1>2, <2>9, Zenon DEF WriteConfig, Breaks
  <2> QED
    BY <1>4, <2>1, <2>2, <2>3, <2>4, <2>5, <2>6, <2>7, <2>8, <2>9, SetupSteps
<1>5. CASE Starts
  <2>1. UNCHANGED <<pc, ask, board>> /\ acted'.setup = acted.setup
    BY <1>5, StartSteps DEF SetupHolds
  <2> QED
    BY <1>0, <2>1 DEF TicketBuilt, HasTicket
<1>6. CASE Human
  BY <1>6, PersonSteps DEF SetupHolds, TicketBuilt, AtHooks
<1>7. CASE UNCHANGED SetupHolds /\ UNCHANGED SetupRest /\ UNCHANGED Things
  BY <1>0, <1>7 DEF SetupHolds, Things, TicketBuilt, HasTicket
<1> QED
  BY <1>4, <1>5, <1>6, <1>7, SetupSides

-----------------------------------------------------------------------------
(* The webhooks. *)

(* A webhook at hand is tended further, or is sound and managed. *)
LEMMA TendKeeps ==
    ASSUME NEW b, NEW i, NEW active \in BOOLEAN, NEW wanted \in BOOLEAN,
           Tend([board |-> b, id |-> i, active |-> active, wanted |-> wanted])
    PROVE  /\ pc' \in AtHooks \ {"create"}
           /\ pc' # "hooks" => current'.board = b /\ current'.id = i /\ UNCHANGED managed
           /\ pc' = "hooks" => /\ active /\ wanted /\ DOMAIN managed' = DOMAIN managed \cup {b}
                               /\ managed'[b] = i
                               /\ \A d \in DOMAIN managed : d # b => managed'[d] = managed[d]
<1> DEFINE hook == [board |-> b, id |-> i, active |-> active, wanted |-> wanted]
<1>1. hook.board = b /\ hook.id = i /\ hook.active = active /\ hook.wanted = wanted
  OBVIOUS
<1> HIDE DEF hook
<1>2. Tend(hook)
  BY DEF hook
<1>3. CASE ~wanted \/ ~active
  <2>1. pc' \in {"update", "activate"} /\ current' = hook /\ UNCHANGED managed
    BY <1>1, <1>2, <1>3, Zenon DEF Tend
  <2> QED
    BY <1>1, <2>1 DEF AtHooks
<1>4. CASE wanted /\ active
  <2>1. Manages(hook)
    BY <1>1, <1>2, <1>4, Zenon DEF Tend
  <2>2. pc' = "hooks" /\ managed' = [d \in DOMAIN managed \cup {b} |-> IF d = b THEN i ELSE managed[d]]
    BY <1>1, <2>1 DEF Manages
  <2> QED
    BY <1>4, <2>2 DEF AtHooks
<1> QED
  BY <1>3, <1>4

OneHook == \A b \in Board : \A i, j \in Listed(b) : i = j

(* What the invariant says of the webhook at hand and of the managed ones, once
   one of them was tended. *)
LEMMA Tended ==
    ASSUME SetupInv, pc \in AtHooks, OneHook', NEW b \in ask.boards, b \notin DOMAIN managed,
           UNCHANGED <<ask, acted>>, \A d \in Board : d # b => hooks'[d] = hooks[d],
           NEW i \in DOMAIN hooks'[b], NEW active \in BOOLEAN, NEW wanted \in BOOLEAN,
           hooks'[b][i] = [active |-> active, wanted |-> wanted, gone |-> FALSE],
           Tend([board |-> b, id |-> i, active |-> active, wanted |-> wanted])
    PROVE  HooksOnce'
<1>0. /\ DOMAIN managed \subseteq ask.boards /\ ask.boards \subseteq Board
      /\ ~acted.setup => \A d \in DOMAIN managed : managed[d] \in DOMAIN hooks[d] /\ hooks[d][managed[d]] = Sound
  BY DEF SetupInv, HooksOnce, SetupTypes
<1>1. /\ pc' \in AtHooks \ {"create"}
      /\ pc' # "hooks" => current'.board = b /\ current'.id = i /\ UNCHANGED managed
      /\ pc' = "hooks" => /\ active /\ wanted /\ DOMAIN managed' = DOMAIN managed \cup {b}
                          /\ managed'[b] = i
                          /\ \A d \in DOMAIN managed : d # b => managed'[d] = managed[d]
  BY TendKeeps
<1>2. ~acted'.setup => \A d \in DOMAIN managed : managed[d] \in DOMAIN hooks'[d] /\ hooks'[d][managed[d]] = Sound
  BY <1>0
<1>3. CASE pc' # "hooks"
  BY <1>0, <1>1, <1>2, <1>3 DEF HooksOnce, OneHook, AtHooks
<1>4. CASE pc' = "hooks"
  <2>1. hooks'[b][i] = Sound
    BY <1>1, <1>4 DEF Sound
  <2>2. ~acted'.setup => \A d \in DOMAIN managed' : managed'[d] \in DOMAIN hooks'[d] /\ hooks'[d][managed'[d]] = Sound
    BY <1>1, <1>2, <1>4, <2>1
  <2>3. DOMAIN managed' \subseteq ask'.boards
    BY <1>0, <1>1, <1>4
  <2> QED
    BY <1>4, <2>2, <2>3 DEF HooksOnce, OneHook
<1> QED
  BY <1>3, <1>4

(* A webhook is listed when it was, or was made where none was listed. *)
LEMMA HooksListed ==
    ASSUME SetupInv, NEW b \in Board, NEW i \in 1..Len(hooks[b]) + 1, NEW h \in AHook, Hook(b, i, h),
           (Listed(b) = {}) \/ (i \in Listed(b))
    PROVE  OneHook'
<1>0. DOMAIN hooks = Board /\ hooks[b] \in Seq(AHook) /\ OneHook
  BY DEF SetupInv, SetupTypes, HooksOnce, OneHook
<1>1. /\ \A d \in Board : d # b => hooks'[d] = hooks[d]
      /\ DOMAIN hooks'[b] = DOMAIN hooks[b] \cup {i} /\ hooks'[b][i] = h
      /\ \A j \in DOMAIN hooks[b] : j # i => hooks'[b][j] = hooks[b][j]
  <2>1. /\ DOMAIN hooks' = Board /\ (\A d \in Board : d # b => hooks'[d] = hooks[d])
        /\ hooks'[b] \in Seq(AHook)
        /\ DOMAIN hooks'[b] = DOMAIN hooks[b] \cup {i}
        /\ hooks'[b][i] = h
        /\ \A j \in DOMAIN hooks[b] : j # i => hooks'[b][j] = hooks[b][j]
    <3>1. DOMAIN hooks = Board /\ hooks[b] \in Seq(AHook)
      BY <1>0
    <3> QED
      BY <3>1, Hooked, SMTT(20)
  <2> QED
    BY <2>1
<1>2. \A d \in Board : d # b => Listed(d)' = Listed(d)
  BY <1>1 DEF Listed
<1>3. Listed(b)' \subseteq Listed(b) \cup {i}
  BY <1>1 DEF Listed
<1>4. \A j, k \in Listed(b)' : j = k
  BY <1>0, <1>3 DEF OneHook
<1> QED
  BY <1>0, <1>2, <1>4 DEF OneHook

LEMMA HooksKept ==
    ASSUME SetupInv, [SetupNext]_setupAllVars
    PROVE  HooksOnce'
<1>0. HooksOnce /\ OneHook /\ Idle /\ DOMAIN hooks = Board /\ (\A b \in Board : hooks[b] \in Seq(AHook)) /\ ask.boards \subseteq Board
  BY DEF SetupInv, HooksOnce, OneHook, SetupTypes
<1>o. ASSUME UNCHANGED hooks PROVE OneHook' /\ \A b : Listed(b)' = Listed(b)
  BY <1>0, <1>o DEF OneHook, Listed
<1>1. ASSUME SetupEnds, OneHook' PROVE HooksOnce'
  BY <1>1, Ending DEF HooksOnce, OneHook, AtHooks
<1>2. ASSUME UNCHANGED SetupHolds, UNCHANGED hooks, acted'.setup = acted.setup PROVE HooksOnce'
  BY <1>0, <1>2, <1>o DEF HooksOnce, OneHook, SetupHolds
<1>3. ASSUME pc \notin AtHooks, pc' \notin AtHooks \ {"hooks"}, UNCHANGED managed, UNCHANGED hooks
      PROVE  HooksOnce'
  <2>1. DOMAIN managed' = {}
    BY <1>0, <1>3 DEF Idle
  <2> QED
    BY <1>3, <1>o, <2>1 DEF HooksOnce, OneHook, AtHooks
<1>4. CASE RunsSetup
  <2>1. CASE Begins \/ ReadBoard \/ AcceptsRead \/ Agrees \/ Applies \/ BuildRead
    <3>1. /\ UNCHANGED hooks /\ (SetupEnds \/ (pc \notin AtHooks /\ pc' \notin AtHooks \ {"hooks"} /\ UNCHANGED managed))
      BY <2>1 DEF Begins, SetupBegins, ReadBoard, AcceptsRead, Agrees, Applies, AfterWorkflow, BuildRead, AtHooks, fizzyVars
    <3> QED
      BY <1>1, <1>3, <1>o, <3>1
  <2>2. CASE BuildStep
    <3>1. UNCHANGED hooks /\ pc = "build" /\ (SetupEnds \/ (pc' = pc /\ UNCHANGED managed))
      BY <2>2, BuildingOne
    <3> QED
      BY <1>1, <1>3, <1>o, <3>1 DEF AtHooks
  <2>3. CASE WriteConfig \/ Breaks
    <3>1. SetupEnds /\ UNCHANGED hooks
      BY <2>3, Zenon DEF WriteConfig, Breaks, fizzyVars
    <3> QED
      BY <1>1, <1>o, <3>1
  <2>4. CASE ListHooks
    <3>1. PICK b \in Unmanaged :
             IF Listed(b) = {}
             THEN pc' = "create" /\ current' = [NoHook EXCEPT !.board = b] /\ UNCHANGED managed
             ELSE Tend(Seen(b, CHOOSE i \in Listed(b) : \A j \in Listed(b) : i <= j))
      BY <2>4, Zenon DEF ListHooks
    <3>2. pc = "hooks" /\ UNCHANGED <<ask, acted>> /\ UNCHANGED hooks
      BY <2>4, Zenon DEF ListHooks, fizzyVars
    <3>3. b \in ask.boards /\ b \notin DOMAIN managed /\ b \in Board
      BY <1>0, <3>1 DEF Unmanaged
    <3>4. CASE Listed(b) = {}
      <4>1. pc' = "create" /\ current' = [NoHook EXCEPT !.board = b] /\ UNCHANGED managed
        BY <3>1, <3>4, Zenon
      <4>2. current'.board = b
        BY <4>1 DEF NoHook
      <4>3. Listed(b)' = {}
        BY <3>2, <3>4, <1>o
      <4> QED
        BY <1>0, <1>o, <3>2, <3>3, <4>1, <4>2, <4>3 DEF HooksOnce, OneHook
    <3>5. CASE Listed(b) # {}
      <4> DEFINE i == CHOOSE k \in Listed(b) : \A j \in Listed(b) : k <= j
      <4>1. i \in Listed(b)
        <5>1. PICK k \in Listed(b) : TRUE
          BY <3>5
        <5>2. k \in Nat
          BY <1>0, <3>3 DEF Listed
        <5>3. \A j \in Listed(b) : j = k
          BY <1>0, <3>3, <5>1 DEF OneHook
        <5>4. \A j \in Listed(b) : k <= j
          BY <5>2, <5>3
        <5> QED
          BY <5>1, <5>4
      <4>2. Tend(Seen(b, i))
        BY <3>1, <3>5, Zenon
      <4> HIDE DEF i
      <4>3. i \in DOMAIN hooks[b] /\ ~hooks[b][i].gone /\ hooks[b][i] \in AHook
        BY <1>0, <3>3, <4>1 DEF Listed
      <4>4. hooks'[b][i] = [active |-> hooks[b][i].active, wanted |-> hooks[b][i].wanted, gone |-> FALSE]
        BY <3>2, <4>3 DEF AHook
      <4>5. hooks[b][i].active \in BOOLEAN /\ hooks[b][i].wanted \in BOOLEAN
        BY <4>3 DEF AHook
      <4>6. pc \in AtHooks /\ OneHook' /\ \A d \in Board : d # b => hooks'[d] = hooks[d]
        BY <1>o, <3>2 DEF AtHooks
      <4>7. i \in DOMAIN hooks'[b]
        BY <3>2, <4>3
      <4>8. Tend([board |-> b, id |-> i, active |-> hooks[b][i].active, wanted |-> hooks[b][i].wanted])
        BY <4>2 DEF Seen
      <4> QED
        BY <3>2, <3>3, <4>4, <4>5, <4>6, <4>7, <4>8, Tended
    <3> QED
      BY <3>4, <3>5
  <2>5. CASE CreateHook \/ UpdateHook \/ ActivateHook
    <3>1. PICK b \in ask.boards, h \in AHook : \E i \in 1..Len(hooks[b]) + 1 :
              /\ b \in Board /\ b \notin DOMAIN managed /\ Hook(b, i, h) /\ ~h.gone
              /\ pc \in AtHooks
              /\ (Listed(b) = {}) \/ (i \in Listed(b))
              /\ \/ /\ Tend([board |-> b, id |-> i, active |-> h.active, wanted |-> h.wanted])
                    /\ UNCHANGED ask
                 \/ SetupEnds
              /\ UNCHANGED acted
      BY <2>5, Calling, Zenon
    <3>2. PICK i \in 1..Len(hooks[b]) + 1 :
              /\ b \in Board /\ b \notin DOMAIN managed /\ Hook(b, i, h) /\ ~h.gone
              /\ pc \in AtHooks
              /\ (Listed(b) = {}) \/ (i \in Listed(b))
              /\ \/ /\ Tend([board |-> b, id |-> i, active |-> h.active, wanted |-> h.wanted])
                    /\ UNCHANGED ask
                 \/ SetupEnds
              /\ UNCHANGED acted
      BY <3>1
    <3>3. OneHook'
      BY <3>2, HooksListed
    <3>4. CASE SetupEnds
      BY <1>1, <3>3, <3>4
    <3>5. CASE Tend([board |-> b, id |-> i, active |-> h.active, wanted |-> h.wanted]) /\ UNCHANGED ask
      <4>1. /\ \A d \in Board : d # b => hooks'[d] = hooks[d]
            /\ i \in DOMAIN hooks'[b] /\ hooks'[b][i] = h
        BY <1>0, <3>2, Hooked
      <4>2. /\ hooks'[b][i] = [active |-> h.active, wanted |-> h.wanted, gone |-> FALSE]
            /\ h.active \in BOOLEAN /\ h.wanted \in BOOLEAN
        BY <3>2, <4>1 DEF AHook
      <4> QED
        BY <3>2, <3>3, <3>5, <4>1, <4>2, Tended
    <3> QED
      BY <3>2, <3>4, <3>5
  <2> QED
    BY <1>4, <2>1, <2>2, <2>3, <2>4, <2>5, SetupSteps DEF Tends
<1>5. CASE Starts
  BY <1>2, <1>5, StartSteps
<1>6. CASE UNCHANGED SetupHolds /\ UNCHANGED Things /\ UNCHANGED hooks
  BY <1>2, <1>6 DEF Things
<1>7. CASE Human
  <2>1. UNCHANGED SetupHolds /\ (acted'.setup \/ pc = "off")
    BY <1>7, PersonSteps
  <2>2. ASSUME OneHook', \A b \in Board : Listed(b)' \subseteq Listed(b) /\ DOMAIN hooks[b] \subseteq DOMAIN hooks'[b]
        PROVE  HooksOnce'
    <3>1. pc = "off" => DOMAIN managed = {}
      BY <1>0 DEF Idle, AtHooks
    <3>2. pc \in AtHooks \ {"hooks"} => current.board \in Board
      BY <1>0 DEF HooksOnce
    <3> QED
      BY <1>0, <2>1, <2>2, <3>1, <3>2 DEF HooksOnce, OneHook, SetupHolds, AtHooks
  <2>3. CASE UNCHANGED hooks
    BY <1>o, <2>2, <2>3
  <2>4. ASSUME NEW b \in Board, NEW i \in DOMAIN hooks[b], NEW field \in {"active", "wanted", "gone"},
               HumanHooks(b, i, [hooks[b][i] EXCEPT ![field] = ~@])
        PROVE  HooksOnce'
    <3> DEFINE h == [hooks[b][i] EXCEPT ![field] = ~@]
    <3>1. i \in 1..Len(hooks[b]) + 1 /\ hooks[b][i] \in AHook
      BY <1>0
    <3>2. h \in AHook
      BY <3>1 DEF AHook
    <3>3. Hook(b, i, h) /\ ~hooks[b][i].gone
      BY <2>4, Zenon DEF HumanHooks
    <3> HIDE DEF h
    <3>4. i \in Listed(b)
      BY <3>3 DEF Listed
    <3>5. OneHook'
      BY <3>1, <3>2, <3>3, <3>4, HooksListed
    <3>6. /\ \A d \in Board : d # b => hooks'[d] = hooks[d]
          /\ DOMAIN hooks'[b] = DOMAIN hooks[b] \cup {i}
          /\ \A j \in DOMAIN hooks[b] : j # i => hooks'[b][j] = hooks[b][j]
      BY <1>0, <3>1, <3>2, <3>3, Hooked
    <3>7. \A d \in Board : Listed(d)' \subseteq Listed(d) /\ DOMAIN hooks[d] \subseteq DOMAIN hooks'[d]
      BY <3>4, <3>6 DEF Listed
    <3> QED
      BY <2>2, <3>5, <3>7
  <2>5. \/ UNCHANGED hooks
        \/ \E b \in Board : \E i \in DOMAIN hooks[b] : \E field \in {"active", "wanted", "gone"} :
              HumanHooks(b, i, [hooks[b][i] EXCEPT ![field] = ~@])
    BY <1>7, Zenon DEF Human, HumanDeals, HumanWorkflow, fizzyVars
  <2> QED
    BY <2>3, <2>4, <2>5
<1> QED
  BY <1>4, <1>5, <1>6, <1>7, SetupSides

-----------------------------------------------------------------------------
(* What setup and startup require, they require of what they have read; more
   tags are no harm. *)

LEMMA AcceptsMore ==
    ASSUME NEW r, NEW q, q.boards = r.boards, r.titles \subseteq q.titles, Acceptable(r)
    PROVE  Acceptable(q)
<1>1. Required(q.boards) = Required(r.boards) /\ (Unroutable(q.boards) <=> Unroutable(r.boards))
  OBVIOUS
<1> QED
  BY <1>1 DEF Acceptable, Resolvable

LEMMA ReadKept ==
    ASSUME SetupInv, [SetupNext]_setupAllVars
    PROVE  ReadChecked'
<1>0. ReadChecked /\ DOMAIN read = {"boards", "titles", "missing"} /\ Idle
  BY DEF SetupInv, SetupTypes
<1>t. titles \subseteq titles'
  BY BoardsKeep
<1>1. ASSUME SetupEnds PROVE ReadChecked'
  BY <1>1, Ending DEF ReadChecked, AtHooks
<1>2. ASSUME UNCHANGED SetupHolds, UNCHANGED board, acted'.setup = acted.setup PROVE ReadChecked'
  BY <1>0, <1>t, <1>2 DEF ReadChecked, SetupHolds
<1>3. ASSUME UNCHANGED <<read, ask>>, UNCHANGED <<board, acted>>,
             pc' \in AtHooks \/ (pc' \in {"review", "workflow"} /\ ~ask.starter) =>
                 DOMAIN read.boards = ask.boards /\ Acceptable(read)
      PROVE  ReadChecked'
  BY <1>0, <1>t, <1>3 DEF ReadChecked
<1>4. CASE RunsSetup
  <2>1. CASE Begins
    <3>1. PICK starter, manage \in BOOLEAN, boards \in SUBSET Board :
            /\ ask' = [starter |-> starter, manage |-> manage, boards |-> boards]
            /\ read' = [NoRead EXCEPT !.titles = titles]
            /\ pc' = IF starter THEN "review" ELSE "boards"
            /\ UNCHANGED titles
      BY <2>1, Zenon DEF Begins, SetupBegins, fizzyVars
    <3>2. read'.boards = <<>> /\ read'.titles = titles
      BY <3>1 DEF NoRead
    <3>3. pc' \in {"review", "boards"} /\ (pc' = "review" => ask'.starter)
      BY <3>1
    <3>4. /\ DOMAIN read'.boards = {}
          /\ read'.boards = [b \in DOMAIN read'.boards |-> read'.boards[b]]
      BY <3>2, Nothing, Zenon
    <3> QED
      BY <3>1, <3>2, <3>3, <3>4 DEF ReadChecked, AtHooks
  <2>2. CASE ReadBoard
    <3>1. PICK b \in ask.boards : read' = [read EXCEPT !.boards =
            [d \in DOMAIN @ \cup {b} |-> IF d = b THEN board[b] ELSE @[d]]]
      BY <2>2, Zenon DEF ReadBoard
    <3> DEFINE f == [d \in DOMAIN read.boards \cup {b} |-> IF d = b THEN board[b] ELSE read.boards[d]]
    <3>2. read' = [read EXCEPT !.boards = f]
      BY <3>1
    <3>3. /\ f = [d \in DOMAIN f |-> f[d]]
          /\ DOMAIN f = DOMAIN read.boards \cup {b} /\ f[b] = board[b]
          /\ \A d \in DOMAIN read.boards : d # b => f[d] = read.boards[d]
      OBVIOUS
    <3> HIDE DEF f
    <3>4. read'.boards = f /\ read'.titles = read.titles
      BY <1>0, <3>2
    <3>5. pc' = "boards" /\ UNCHANGED <<board, acted>>
      BY <2>2, Zenon DEF ReadBoard, fizzyVars
    <3>6. ~acted.setup => \A d \in DOMAIN f : f[d] = board[d]
      BY <1>0, <3>3 DEF ReadChecked
    <3>7. read'.titles \subseteq titles'
      BY <1>0, <1>t, <3>4 DEF ReadChecked
    <3> QED
      BY <3>3, <3>4, <3>5, <3>6, <3>7 DEF ReadChecked, AtHooks
  <2>3. CASE AcceptsRead
    <3>1. /\ UNCHANGED <<read, ask>> /\ UNCHANGED <<board, acted>>
          /\ DOMAIN read.boards = ask.boards /\ Acceptable(read)
      BY <2>3 DEF AcceptsRead, Things
    <3> QED
      BY <1>3, <3>1
  <2>4. CASE Agrees
    <3>1. UNCHANGED <<read, ask>> /\ UNCHANGED <<board, acted>> /\ pc = "review" /\ pc' = "workflow"
      BY <2>4 DEF Agrees, Things
    <3> QED
      BY <1>0, <1>3, <3>1 DEF ReadChecked, AtHooks
  <2>5. CASE Applies
    <3>1. CASE SetupEnds
      BY <1>1, <3>1
    <3>2. CASE AfterWorkflow
      <4>1. /\ UNCHANGED <<read, ask>> /\ UNCHANGED <<board, acted>> /\ pc = "workflow"
            /\ pc' = "build" \/ ~ask.starter
        BY <2>5, <3>2 DEF Applies, AfterWorkflow
      <4>2. ~ask.starter => DOMAIN read.boards = ask.boards /\ Acceptable(read)
        BY <1>0, <4>1 DEF ReadChecked
      <4> QED
        BY <1>3, <4>1, <4>2 DEF AtHooks
    <3> QED
      BY <2>5, <3>1, <3>2 DEF Applies
  <2>6. CASE BuildStep
    <3>1. pc = "build" /\ ((pc' = pc /\ UNCHANGED read) \/ SetupEnds)
      BY <2>6, BuildingOne
    <3>2. DOMAIN read.boards = {}
      BY <3>1 DEF SetupInv, BoardsMade, BuildGoes
    <3>3. CASE pc' = pc /\ UNCHANGED read
      <4>1. read'.titles \subseteq titles'
        BY <1>0, <1>t, <3>3 DEF ReadChecked
      <4>2. read'.boards = [b \in DOMAIN read'.boards |-> read'.boards[b]]
        BY <1>0, <3>3 DEF ReadChecked
      <4> QED
        BY <3>1, <3>2, <3>3, <4>1, <4>2 DEF ReadChecked, AtHooks
    <3> QED
      BY <1>1, <3>1, <3>3
  <2>7. CASE BuildRead
    <3> DEFINE f == [b \in ask.boards |-> board[b]]
    <3>1. read' = [NoRead EXCEPT !.boards = f, !.titles = titles]
      BY <2>7, Zenon DEF BuildRead
    <3>2. /\ f = [d \in DOMAIN f |-> f[d]] /\ \A d \in DOMAIN f : f[d] = board[d]
      OBVIOUS
    <3> HIDE DEF f
    <3>3. read'.boards = f /\ read'.titles = titles
      BY <3>1 DEF NoRead
    <3>4. pc' = "boards" /\ UNCHANGED <<board, titles>>
      BY <2>7, Zenon DEF BuildRead, fizzyVars
    <3> QED
      BY <3>2, <3>3, <3>4 DEF ReadChecked, AtHooks
  <2>8. CASE Tends
    <3>1. CASE SetupEnds
      BY <1>1, <3>1
    <3>2. CASE ~SetupEnds
      <4>1. UNCHANGED <<read, ask>> /\ UNCHANGED <<board, acted>> /\ pc \in AtHooks
        BY <2>8, <3>2 DEF Tends, Things
      <4> QED
        BY <1>0, <1>3, <4>1 DEF ReadChecked
    <3> QED
      BY <3>1, <3>2
  <2>9. CASE WriteConfig \/ Breaks
    <3>1. SetupEnds
      BY <2>9, Zenon DEF WriteConfig, Breaks
    <3> QED
      BY <1>1, <3>1
  <2> QED
    BY <1>4, <2>1, <2>2, <2>3, <2>4, <2>5, <2>6, <2>7, <2>8, <2>9, SetupSteps
<1>5. CASE Starts
  BY <1>2, <1>5, StartSteps
<1>6. CASE UNCHANGED SetupHolds /\ UNCHANGED Things
  BY <1>2, <1>6 DEF Things
<1>7. CASE Human
  <2>1. UNCHANGED SetupHolds /\ (acted'.setup <=> pc # "off")
    BY <1>7, PersonSteps
  <2>2. pc = "off" => DOMAIN read.boards = {}
    BY <1>0 DEF Idle
  <2> QED
    BY <1>0, <1>t, <2>1, <2>2 DEF ReadChecked, SetupHolds
<1> QED
  BY <1>4, <1>5, <1>6, <1>7, SetupSides

(* What is configured when setup ends is what it read and accepted. *)
LEMMA AcceptedAtEnd ==
    ASSUME SetupInv, pc \in AtHooks, ~acted.setup
    PROVE  Acceptance(ask.boards, titles)
<1>1. /\ read.boards = [b \in DOMAIN read.boards |-> read.boards[b]] /\ read.titles \subseteq titles
      /\ \A b \in DOMAIN read.boards : read.boards[b] = board[b]
      /\ DOMAIN read.boards = ask.boards /\ Acceptable(read)
  BY DEF SetupInv, ReadChecked
<1> DEFINE q == [boards |-> [b \in ask.boards |-> board[b]], titles |-> titles, missing |-> {}]
<1>2. read.boards = [b \in ask.boards |-> board[b]]
  BY <1>1
<1>3. q.boards = read.boards /\ read.titles \subseteq q.titles
  BY <1>1, <1>2
<1> HIDE DEF q
<1>4. Acceptable(q)
  BY <1>1, <1>3, AcceptsMore
<1> QED
  BY <1>4 DEF q, Acceptance

(* As long as the boards stand and tags only come, what was accepted is. *)
LEMMA AcceptedStill ==
    ASSUME NEW S, NEW t, NEW u, Acceptance(S, t), t \subseteq u, \A b \in S : board'[b] = board[b]
    PROVE  Acceptable([boards |-> [b \in S |-> board'[b]], titles |-> u, missing |-> {}])
<1> DEFINE r == [boards |-> [b \in S |-> board[b]], titles |-> t, missing |-> {}]
           q == [boards |-> [b \in S |-> board'[b]], titles |-> u, missing |-> {}]
<1>1. Acceptable(r)
  BY DEF Acceptance
<1>2. [b \in S |-> board'[b]] = [b \in S |-> board[b]]
  OBVIOUS
<1>3. q.boards = r.boards /\ r.titles \subseteq q.titles
  BY <1>2
<1> HIDE DEF q, r
<1>4. Acceptable(q)
  BY <1>1, <1>3, AcceptsMore
<1> QED
  BY <1>4 DEF q

LEMMA ConfigKept ==
    ASSUME SetupInv, [SetupNext]_setupAllVars
    PROVE  ConfigAccepted'
<1>0. ConfigAccepted /\ acted \in [setup : BOOLEAN, config : BOOLEAN, start : BOOLEAN]
  BY DEF SetupInv, SetupTypes
<1>t. titles \subseteq titles'
  BY BoardsKeep
<1>1. CASE WriteConfig
  <2>1. /\ pc = "hooks" /\ config' = [boards |-> ask.boards, hooks |-> managed, written |-> TRUE]
        /\ acted' = [acted EXCEPT !.config = acted.setup] /\ UNCHANGED <<board, titles>>
    BY <1>1, Zenon DEF WriteConfig, fizzyVars
  <2>2. config'.boards = ask.boards /\ acted'.config = acted.setup
    BY <1>0, <2>1
  <2>3. ~acted.setup => Acceptance(ask.boards, titles)
    BY <2>1, AcceptedAtEnd DEF AtHooks
  <2>4. Acceptance(ask.boards, titles) => Acceptance(config.boards, titles)'
    BY <2>1, <2>2 DEF Acceptance
  <2> QED
    BY <2>2, <2>3, <2>4 DEF ConfigAccepted
<1>2. CASE ~WriteConfig /\ ~Human
  <2>1. UNCHANGED config
    BY <1>2, Configured
  <2>2. acted'.config = acted.config
    <3>1. CASE RunsSetup
      <4>1. acted' = acted \/ acted' = [acted EXCEPT !.setup = FALSE]
        <5>1. CASE BuildStep
          BY <5>1 DEF BuildStep
        <5> QED
          BY <1>2, <3>1, <5>1, SetupSteps, Zenon DEF Begins, SetupBegins, ReadBoard, AcceptsRead, Agrees, Applies,
             BuildRead, Tends, Breaks, Things
      <4> QED
        BY <1>0, <4>1
    <3> QED
      BY <1>2, <3>1, SetupSides, StartSteps DEF Things
  <2>3. \A b \in config.boards : board'[b] = board[b]
    BY <1>2, BoardsStand
  <2>4. ASSUME Acceptance(config.boards, titles) PROVE Acceptance(config.boards, titles)'
    <3>1. Acceptable([boards |-> [b \in config.boards |-> board'[b]], titles |-> titles', missing |-> {}])
      BY <1>t, <2>3, <2>4, AcceptedStill
    <3> QED
      BY <2>1, <3>1 DEF Acceptance
  <2> QED
    BY <1>0, <2>1, <2>2, <2>4 DEF ConfigAccepted
<1>3. CASE Human
  <2>1. (acted'.config <=> config.written) /\ UNCHANGED config
    BY <1>3, PersonSteps
  <2> QED
    BY <2>1 DEF ConfigAccepted
<1> QED
  BY <1>1, <1>2, <1>3

LEMMA StartKept ==
    ASSUME SetupInv, [SetupNext]_setupAllVars
    PROVE  StartAccepted'
<1>0. /\ StartAccepted /\ acted \in [setup : BOOLEAN, config : BOOLEAN, start : BOOLEAN]
      /\ DOMAIN known = {"boards", "titles", "missing"}
  BY DEF SetupInv, SetupTypes
<1>1. CASE StartBegins
  <2>1. /\ config.written /\ known' = [NoRead EXCEPT !.titles = titles, !.missing = config.boards]
        /\ acted' = [acted EXCEPT !.start = acted.config] /\ UNCHANGED <<board, titles, config>>
    BY <1>1, Zenon DEF StartBegins, fizzyVars
  <2>2. known'.boards = <<>> /\ known'.titles = titles /\ known'.missing = config.boards
    BY <2>1 DEF NoRead
  <2>3. /\ DOMAIN known'.boards = {} /\ known'.boards = [b \in DOMAIN known'.boards |-> known'.boards[b]]
    BY <2>2, Nothing, Zenon
  <2>4. Starting' = config.boards /\ acted'.start = acted.config
    BY <1>0, <2>1, <2>2, <2>3 DEF Starting
  <2>5. ~acted.config => Acceptance(config.boards, titles)
    BY <2>1 DEF SetupInv, ConfigAccepted
  <2>6. Acceptance(config.boards, titles) => Acceptance(Starting, known.titles)'
    BY <2>1, <2>2, <2>4 DEF Acceptance
  <2> QED
    BY <2>3, <2>4, <2>5, <2>6 DEF StartAccepted
<1>2. ASSUME NEW b \in Board, StartReadsBoard(b) PROVE StartAccepted'
  <2> DEFINE f == [d \in DOMAIN known.boards \cup {b} |-> IF d = b THEN board[b] ELSE known.boards[d]]
  <2>1. /\ b \in known.missing /\ known' = [known EXCEPT !.missing = @ \ {b}, !.boards = f]
        /\ UNCHANGED <<service, failed, acted, board>>
    BY <1>2 DEF StartReadsBoard, fizzyVars
  <2>2. /\ f = [d \in DOMAIN f |-> f[d]]
        /\ DOMAIN f = DOMAIN known.boards \cup {b} /\ f[b] = board[b]
        /\ \A d \in DOMAIN known.boards : d # b => f[d] = known.boards[d]
    OBVIOUS
  <2> HIDE DEF f
  <2>3. known'.boards = f /\ known'.missing = known.missing \ {b} /\ known'.titles = known.titles
    BY <1>0, <2>1
  <2>4. Starting' = Starting
    BY <2>1, <2>2, <2>3 DEF Starting
  <2>5. Acceptance(Starting, known.titles) => Acceptance(Starting, known.titles)'
    BY <2>1, <2>3, <2>4 DEF Acceptance
  <2>6. (\A d \in DOMAIN known.boards : known.boards[d] = board[d]) => \A d \in DOMAIN f : f[d] = board[d]
    BY <2>2
  <2> QED
    BY <1>0, <2>1, <2>2, <2>3, <2>5, <2>6 DEF StartAccepted
<1>3. CASE StartCallFails
  <2>1. failed' /\ \E b \in known.missing : known' = [known EXCEPT !.missing = @ \ {b}]
    BY <1>3 DEF StartCallFails
  <2>2. known'.boards = known.boards
    BY <1>0, <2>1
  <2> QED
    BY <1>0, <2>1, <2>2 DEF StartAccepted
<1>4. CASE StartDecides \/ DaemonEnds
  <2>1. known' = NoRead /\ service' # "validating"
    BY <1>4 DEF StartDecides, DaemonEnds
  <2>2. known'.boards = <<>>
    BY <2>1 DEF NoRead
  <2>3. known'.boards = [b \in DOMAIN known'.boards |-> known'.boards[b]]
    BY <2>2, Nothing, Zenon
  <2> QED
    BY <2>1, <2>3 DEF StartAccepted
<1>5. CASE Human
  <2>1. UNCHANGED <<service, known, failed>> /\ (acted'.start <=> service = "validating")
    BY <1>5, PersonSteps DEF SetupRest
  <2> QED
    BY <1>0, <2>1 DEF StartAccepted
<1>6. ASSUME ~Human, UNCHANGED SetupRest, acted'.start = acted.start PROVE StartAccepted'
  <2>1. Starting' = Starting /\ UNCHANGED <<service, known, failed>>
    BY <1>6 DEF Starting, SetupRest
  <2>2. \A b \in Starting : board'[b] = board[b]
    BY <1>6, BoardsStand
  <2>3. ASSUME Acceptance(Starting, known.titles) PROVE Acceptance(Starting, known.titles)'
    <3>1. Acceptable([boards |-> [b \in Starting |-> board'[b]], titles |-> known.titles, missing |-> {}])
      BY <2>2, <2>3, AcceptedStill
    <3> QED
      BY <2>1, <3>1 DEF Acceptance
  <2>4. \A b \in DOMAIN known.boards : board'[b] = board[b]
    BY <2>2 DEF Starting
  <2> QED
    BY <1>0, <1>6, <2>1, <2>3, <2>4 DEF StartAccepted
<1>7. CASE RunsSetup /\ ~Human
  <2>1. acted'.start = acted.start
    <3>1. acted' = acted \/ acted' = [acted EXCEPT !.setup = FALSE] \/ acted' = [acted EXCEPT !.config = acted.setup]
      <4>1. CASE BuildStep
        BY <4>1 DEF BuildStep
      <4> QED
        BY <1>7, <4>1, SetupSteps, Zenon DEF Begins, SetupBegins, ReadBoard, AcceptsRead, Agrees, Applies,
           BuildRead, Tends, WriteConfig, Breaks, Things
    <3> QED
      BY <1>0, <3>1
  <2> QED
    BY <1>6, <1>7, <2>1, SetupSteps
<1>8. CASE UNCHANGED SetupRest /\ UNCHANGED Things /\ ~Human
  BY <1>6, <1>8 DEF Things
<1> QED
  BY <1>1, <1>2, <1>3, <1>4, <1>5, <1>7, <1>8, SetupSides, Zenon DEF Starts

-----------------------------------------------------------------------------
(* The invariant, and what it shows. *)

LEMMA SetupStarts == SetupInit => SetupInv
<1> SUFFICES ASSUME SetupInit PROVE SetupInv
  OBVIOUS
<1>1. PICK cards \in CardSets :
        board = [b \in Board |->
            IF b \in Starter THEN [made |-> FALSE, columns |-> {}, cards |-> <<>>]
            ELSE [made |-> TRUE, columns |-> DOMAIN ColumnAt[b], cards |-> cards]]
  BY Zenon DEF SetupInit
<1>2. PICK old \in {<<>>, <<[active |-> FALSE, wanted |-> FALSE, gone |-> FALSE]>>} :
        hooks = [b \in Board |-> IF b \in Starter THEN <<>> ELSE old]
  BY Zenon DEF SetupInit
<1>3. /\ workflow \in {[there |-> FALSE, sections |-> 0], [there |-> TRUE, sections |-> 0]}
      /\ config = NoConfig
      /\ pc = "off" /\ ask = NoAsk /\ read = NoRead
      /\ managed = <<>> /\ service = "off" /\ known = NoRead /\ failed = FALSE
      /\ acted = Nobody
  BY Zenon DEF SetupInit
<1>4. /\ DOMAIN board = Board
      /\ \A b \in Board : /\ DOMAIN board[b] = {"made", "columns", "cards"}
                          /\ board[b].made \in BOOLEAN
                          /\ ~board[b].made => board[b].cards = <<>>
  BY <1>1
<1>5. ask.boards = {} /\ ask \in [starter : BOOLEAN, manage : BOOLEAN, boards : SUBSET Board]
  BY <1>3 DEF NoAsk
<1>6. /\ read.boards = <<>> /\ read.titles = {} /\ read.missing = {}
      /\ known.boards = <<>> /\ known.missing = {}
      /\ DOMAIN read = {"boards", "titles", "missing"} /\ DOMAIN known = {"boards", "titles", "missing"}
  BY <1>3 DEF NoRead
<1>7. /\ DOMAIN config = {"boards", "hooks", "written"} /\ config.boards = {} /\ config.written = FALSE
      /\ acted \in [setup : BOOLEAN, config : BOOLEAN, start : BOOLEAN]
  BY <1>3 DEF NoConfig, Nobody
<1>8. workflow.sections = 0 /\ workflow \in [there : BOOLEAN, sections : Nat]
  <2>1. PICK there \in BOOLEAN : workflow = [there |-> there, sections |-> 0]
    BY <1>3, Zenon
  <2> QED
    BY <2>1
<1>9. Starting = {}
  BY <1>6, Nothing DEF Starting
<1>10. DOMAIN hooks = Board /\ \A b \in Board : hooks[b] \in Seq(AHook) /\ \A i, j \in DOMAIN hooks[b] : i = j
  <2> DEFINE h == [active |-> FALSE, wanted |-> FALSE, gone |-> FALSE]
  <2>1. h \in AHook
    BY DEF AHook
  <2> HIDE DEF h
  <2>2. /\ <<>> \in Seq(AHook) /\ <<h>> \in Seq(AHook)
        /\ \A i, j \in DOMAIN <<>> : i = j
        /\ \A i, j \in DOMAIN <<h>> : i = j
    BY <2>1
  <2>3. \A b \in Board : hooks[b] = <<>> \/ hooks[b] = <<h>>
    BY <1>2 DEF h
  <2>4. DOMAIN hooks = Board
    BY <1>2
  <2> QED
    BY <2>2, <2>3, <2>4
<1>11. SetupTypes
  BY <1>3, <1>4, <1>5, <1>6, <1>7, <1>8, <1>10 DEF SetupTypes
<1>12. Idle
  BY <1>3, <1>5, <1>6, Nothing DEF Idle
<1>13. HooksOnce
  <2>1. DOMAIN managed = {}
    BY <1>3, Nothing
  <2> QED
    BY <1>3, <1>10, <2>1 DEF HooksOnce, Listed, AtHooks
<1>14. SectionOnce
  BY <1>3, <1>8 DEF SectionOnce
<1>15. BoardsMade
  BY <1>3, <1>4, <1>5, <1>7, <1>9 DEF BoardsMade, MadeFirst, StarterAsked, BuildGoes, TicketBuilt, AtHooks
<1>16. ReadChecked
  <2>1. DOMAIN read.boards = {} /\ read.boards = [b \in DOMAIN read.boards |-> read.boards[b]]
    BY <1>6, Nothing, Zenon
  <2> QED
    BY <1>3, <1>6, <2>1 DEF ReadChecked, AtHooks
<1>17. ConfigAccepted
  BY <1>7 DEF ConfigAccepted
<1>18. StartAccepted
  <2>1. known.boards = [b \in DOMAIN known.boards |-> known.boards[b]]
    BY <1>6, Nothing, Zenon
  <2> QED
    BY <1>3, <2>1 DEF StartAccepted
<1> QED
  BY <1>11, <1>12, <1>13, <1>14, <1>15, <1>16, <1>17, <1>18 DEF SetupInv

LEMMA SetupKept == SetupInv /\ [SetupNext]_setupAllVars => SetupInv'
BY SetupTyped, IdleKept, HooksKept, SectionKept, MadeKept, AskedKept, BuildKept, TicketKept, ReadKept,
   ConfigKept, StartKept DEF SetupInv, BoardsMade

LEMMA SetupAlways == SetupSpec => []SetupInv
BY SetupStarts, SetupKept, PTL DEF SetupSpec

(* runSetup can be run again wherever it broke off: ensureWebhook finds the
   webhook it made before, planWorkflow the section, so that a board never has
   two webhooks of the daemon's and WORKFLOW.md never two sections. *)
THEOREM SetupLeavesOne == SetupSpec => []SetupRepeatable
<1>1. SetupInv => SetupRepeatable
  <2> SUFFICES ASSUME SetupInv PROVE SetupRepeatable
    OBVIOUS
  <2>1. ASSUME NEW b \in Board PROVE Cardinality(Listed(b)) <= 1
    <3>1. \A i, j \in Listed(b) : i = j
      BY DEF SetupInv, HooksOnce
    <3>2. CASE Listed(b) = {}
      BY <3>2, FS_EmptySet
    <3>3. CASE Listed(b) # {}
      <4>1. PICK i \in Listed(b) : TRUE
        BY <3>3
      <4>2. Listed(b) = {i}
        BY <3>1, <4>1
      <4>3. Cardinality({i}) = 1
        BY FS_Singleton
      <4> QED
        BY <4>2, <4>3
    <3> QED
      BY <3>2, <3>3
  <2> QED
    BY <2>1 DEF SetupInv, SectionOnce, SetupRepeatable
<1> QED
  BY <1>1, SetupAlways, PTL

(* A board with a starter's ticket has a route. *)
LEMMA TicketRoutes ==
    ASSUME NEW b \in Board, HasTicket(b)
    PROVE  RoutesOf(GoldenTickets([d \in {b} |-> board[b]])) # {}
<1> DEFINE t == StarterTag["instructions"]
           f == [d \in {b} |-> board[b]]
<1>1. PICK i \in DOMAIN board[b].cards : board[b].cards[i].golden /\ t \in board[b].cards[i].tags
  BY DEF HasTicket
<1>2. t = Tag("instructions", Default) /\ t.family # "completion"
  BY DEF StarterTag, Tag
<1> HIDE DEF t
<1> DEFINE ticket == TicketOf(b, board[b], i)
<1>3. Resolve(b, board[b], t) = t
  BY <1>2 DEF Resolve
<1>4. t \in ticket.tags
  <2>1. ticket.tags = {Resolve(b, board[b], u) : u \in board[b].cards[i].tags}
    BY DEF TicketOf
  <2> QED
    BY <1>1, <1>3, <2>1
<1>5. ticket \in GoldenTickets(f)
  <2>1. DOMAIN f = {b} /\ f[b] = board[b]
    OBVIOUS
  <2> HIDE DEF f, ticket
  <2>2. i \in {j \in DOMAIN f[b].cards : f[b].cards[j].golden} /\ ticket = TicketOf(b, f[b], i)
    BY <1>1, <2>1 DEF ticket
  <2> QED
    BY <2>1, <2>2 DEF GoldenTickets
<1> HIDE DEF ticket
<1>6. ticket \in {u \in GoldenTickets(f) : Instructs(u)}
  BY <1>2, <1>4, <1>5 DEF Instructs
<1> QED
  BY <1>6 DEF RoutesOf

(* The config writeOperatorConfig leaves behind is true when it is written:
   the starter board has its route, every board asked for has the webhook the
   config names, and that webhook is active, subscribed and there, unless
   people changed something since setup began. *)
THEOREM ConfigWrittenTrue == SetupSpec => ConfigHolds
<1> DEFINE Holds ==
        /\ ask.starter => \A b \in config'.boards :
              RoutesOf(GoldenTickets([d \in {b} |-> board[b]])) # {}
        /\ ask.manage => DOMAIN config'.hooks = config'.boards
        /\ \A b \in DOMAIN config'.hooks :
              hooks[b][config'.hooks[b]] = [active |-> TRUE, wanted |-> TRUE, gone |-> FALSE]
<1>1. ASSUME SetupInv, [SetupNext]_setupAllVars, config' # config, ~acted.setup
      PROVE  Holds
  <2>1. WriteConfig /\ config' = [boards |-> ask.boards, hooks |-> managed, written |-> TRUE]
    BY <1>1, Configured
  <2>2. config'.boards = ask.boards /\ config'.hooks = managed
    BY <2>1
  <2>3. pc = "hooks" /\ Unmanaged = {}
    BY <2>1 DEF WriteConfig
  <2>4. ask.boards \subseteq Board
    BY <1>1 DEF SetupInv, SetupTypes
  <2>5. /\ DOMAIN managed \subseteq ask.boards
        /\ \A b \in DOMAIN managed : hooks[b][managed[b]] = Sound
    BY <1>1 DEF SetupInv, HooksOnce
  <2>6. ask.starter => \A b \in ask.boards : HasTicket(b)
    BY <1>1, <2>3 DEF SetupInv, BoardsMade, TicketBuilt, AtHooks
  <2>7. ask.starter => \A b \in config'.boards : RoutesOf(GoldenTickets([d \in {b} |-> board[b]])) # {}
    BY <2>2, <2>4, <2>6, TicketRoutes
  <2>8. ask.manage => DOMAIN config'.hooks = config'.boards
    BY <2>2, <2>3, <2>5 DEF Unmanaged
  <2>9. \A b \in DOMAIN config'.hooks : hooks[b][config'.hooks[b]] = Sound
    BY <2>2, <2>5
  <2> QED
    BY <2>7, <2>8, <2>9 DEF Sound
<1>2. SetupInv /\ [SetupNext]_setupAllVars => (config' # config /\ ~acted.setup => Holds)
  BY <1>1
<1> QED
  BY <1>2, SetupAlways, PTL DEF SetupSpec, ConfigHolds

(* What setup accepted, validateStartup accepts: a daemon that refuses to start
   with a config setup wrote has failed to read something, or people acted
   since that setup began. *)
THEOREM AcceptedNotRefused == SetupSpec => AcceptedStarts
<1>1. ASSUME SetupInv, [SetupNext]_setupAllVars, service' = "refused", service # "refused"
      PROVE  failed \/ acted.start
  <2>1. StartDecides
    <3>1. CASE UNCHANGED SetupRest
      BY <1>1, <3>1 DEF SetupRest
    <3>2. CASE Starts
      BY <1>1, <3>2 DEF Starts, StartBegins, StartReadsBoard, StartCallFails, DaemonEnds
    <3> QED
      BY <1>1, <3>1, <3>2, SetupSides, SetupSteps, PersonSteps
  <2>2. service = "validating" /\ known.missing = {} /\ (failed \/ ~Acceptable(known))
    BY <1>1, <2>1 DEF StartDecides
  <2>3. SUFFICES ASSUME ~failed, ~acted.start PROVE FALSE
    OBVIOUS
  <2>4. /\ known.boards = [b \in DOMAIN known.boards |-> known.boards[b]]
        /\ Acceptance(Starting, known.titles)
        /\ \A b \in DOMAIN known.boards : known.boards[b] = board[b]
    BY <1>1, <2>2, <2>3 DEF SetupInv, StartAccepted
  <2>5. Starting = DOMAIN known.boards
    BY <2>2 DEF Starting
  <2>6. known.boards = [b \in Starting |-> board[b]]
    BY <2>4, <2>5
  <2> DEFINE q == [boards |-> [b \in Starting |-> board[b]], titles |-> known.titles, missing |-> {}]
  <2>7. Acceptable(q)
    BY <2>4 DEF Acceptance
  <2>8. known.boards = q.boards /\ q.titles \subseteq known.titles
    BY <2>6
  <2> HIDE DEF q
  <2>9. Acceptable(known)
    BY <2>7, <2>8, AcceptsMore
  <2> QED
    BY <2>2, <2>3, <2>9
<1>2. SetupInv /\ [SetupNext]_setupAllVars =>
          (service' = "refused" /\ service # "refused" => failed \/ acted.start)
  BY <1>1
<1> QED
  BY <1>2, SetupAlways, PTL DEF SetupSpec, AcceptedStarts

=============================================================================
