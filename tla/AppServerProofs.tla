-------------------------- MODULE AppServerProofs ---------------------------
(***************************************************************************)
(* The session with the app server keeps the runner's contract, for any    *)
(* number of turns, unasked lines and unread ones: no wake-up is lost, and *)
(* what is reported of turns and of the process is true.                   *)
(***************************************************************************)
EXTENDS AppServer, SequenceTheorems, WellFoundedInduction, TLAPS

LEMMA Constants == MaxTurns \in Nat \ {0} /\ MaxLines \in Nat /\ MaxPipe \in Nat
BY AppServerAssumption DEF AppServerAssumption

-----------------------------------------------------------------------------
(* How far the run is says what it has done: no turn beyond the current one
   was begun or reported, every earlier one was reported completed, and from
   turn/start to the end of its stream the current one has no report. *)
Early == {"off", "initialize", "thread", "ready", "turn", "begun"}

Turns ==
    /\ turn \in 0..MaxTurns
    /\ pc["run"] \in {"off", "initialize", "thread"} => turn = 0
    /\ pc["run"] = "ready" => turn < MaxTurns
    /\ pc["run"] \in {"turn", "begun", "stream"} => turn \in Turn /\ result[turn] = "none"
    /\ pc["run"] = "ready" /\ turn \in Turn => result[turn] = "completed"
    /\ \A t \in Turn : t < turn => result[t] = "completed"
    /\ \A t \in Turn : t > turn => agent[t] = "none" /\ result[t] = "none"

(* turn/start is sent again only when its last answer was read: an answer that
   is still in the pipe is the only one, and that of the current request. *)
TurnAnswer(i) == out[i].kind = "answer" /\ out[i].to = "turn"
NoTurnAnswer  == \A i \in DOMAIN out : ~TurnAnswer(i)

Begins ==
    /\ \A i, j \in DOMAIN out : TurnAnswer(i) /\ TurnAnswer(j) => i = j
    /\ pc["run"] \in (Early \ {"turn"}) \cup {"stream"} => NoTurnAnswer
    /\ pc["run"] = "turn" /\ req["turn"] = "ok" => NoTurnAnswer
    /\ "turn" \in asked =>
          pc["run"] = "turn" /\ req["turn"] = "pending" /\ agent[turn] = "none" /\ NoTurnAnswer

(* A line that reports a completed turn tells the truth. *)
TrueLine == {l \in Line : l \in Note /\ l.what = "completed" => agent[l.of] = "completed"}
TrueNote == {n \in Note : n.what = "completed" => agent[n.of] = "completed"}

Lines ==
    /\ out \in Seq(TrueLine)
    /\ notes \in Seq(TrueNote)

(* What a call of stream() has to say, and whom it says it to. *)
Streams ==
    /\ pc["run"] \in Early => strm = "idle"
    /\ strm # "idle" => purpose = "run"
    /\ pc["run"] \in {"thread", "ready", "turn", "begun", "stream", "result"} => purpose = "run"
    /\ strm = "done" => pc["run"] = "stream" /\ sres # "none"
    /\ sres # "none" => strm = "done"
    /\ sres = "completed" => agent[turn] = "completed" /\ ~exited
    /\ strm = "interrupt_timeout" => failure # "none"

(* The exit of the app server is handled once, after it died, and from then on
   every stream that may still read knows. *)
Exits ==
    /\ exited => child = "dead"
    /\ pc["run"] = "off" => child = "none"
    /\ exited /\ purpose = "run"
         /\ (strm \in {"woken", "reading", "wait"} \/ pc["run"] \in Early) => failure = "runner_error"

Reports ==
    /\ \A a \in Actor : report[a] # "none" => pc[a] = "over"
    /\ NoOrphan

(* TypeOK but for the two sequences, whose types Lines has. *)
Types ==
    /\ child \in {"none", "unborn", "up", "dead"}
    /\ agent \in [Turn -> Work] /\ asked \subseteq Request
    /\ lines \in 0..MaxLines
    /\ ended \in BOOLEAN /\ exited \in BOOLEAN
    /\ req \in [Request -> {"none", "pending", "ok", "rejected"}]
    /\ open \in BOOLEAN /\ input \in BOOLEAN
    /\ failure \in {"none", "timed_out", "runner_error"}
    /\ strm \in Strm /\ sres \in Outcome
    /\ purpose \in {"run", "validate"}
    /\ pc \in [Actor -> RunPC \cup StopPC]
    /\ turn \in 0..MaxTurns /\ cancelled \subseteq Turn /\ result \in [Turn -> Outcome]
    /\ report \in [Actor -> {"none", "stopped", "terminated", "failed"}]

IInv == Types /\ Turns /\ Begins /\ Lines /\ Streams /\ Exits /\ Reports /\ NoLostWakeup

-----------------------------------------------------------------------------
(* Types. *)

Reqs == [Request -> {"none", "pending", "ok", "rejected"}]

LEMMA RequestNames ==
    /\ {"initialize", "thread", "turn", "interrupt", "cancel"} \subseteq Request
    /\ \A a \in Actor : StopRequest(a) \in Request
BY DEF Request, Actor, StopRequest

LEMMA SendTypes ==
    ASSUME NEW r \in Request, NEW q \in Reqs, asked \subseteq Request, Send(r, q)
    PROVE  req' \in Reqs /\ asked' \subseteq Request
BY DEF Send, Reqs

LEMMA SendIfOpenTypes ==
    ASSUME NEW r \in Request, Types, SendIfOpen(r)
    PROVE  req' \in Reqs /\ asked' \subseteq Request
<1>1. CASE open
  BY <1>1, SendTypes DEF SendIfOpen, Types, Reqs
<1>2. CASE ~open
  BY <1>2 DEF SendIfOpen, Types, Reqs
<1> QED
  BY <1>1, <1>2

LEMMA EndSessionTypes ==
    ASSUME NEW a \in Actor, NEW q \in Reqs, Types, EndSession(a, q)
    PROVE  /\ req' \in Reqs /\ asked' \subseteq Request
           /\ pc' \in [Actor -> RunPC \cup StopPC]
           /\ report' \in [Actor -> {"none", "stopped", "terminated", "failed"}]
<1>1. CASE open
  <2>1. req' \in Reqs /\ asked' \subseteq Request
    BY <1>1, SendTypes, RequestNames DEF EndSession, Types
  <2> QED
    BY <1>1, <2>1 DEF EndSession, Types, StopPC
<1>2. CASE ~open
  BY <1>2 DEF EndSession, Types, StopPC
<1> QED
  BY <1>1, <1>2

LEMMA TypeStep ==
    ASSUME IInv, [Next]_vars
    PROVE  Types'
<1> USE DEF Work, Final
<1>0. Types
  BY DEF IInv
<1> USE <1>0
<1>1. ASSUME NEW r \in Request, Answer(r) PROVE Types'
  BY <1>1 DEF Types, Answer, ctxVars, strmVars, runVars
<1>2. ASSUME NEW t \in Turn, Finish(t) PROVE Types'
  BY <1>2 DEF Types, Finish, ctxVars, strmVars, runVars
<1>3. CASE Speak \/ Die
  BY <1>3, Constants DEF Types, Speak, Die, ctxVars, strmVars, runVars
<1>4. CASE Read
  <2>1. /\ req' \in Reqs /\ asked' \subseteq Request
        /\ input' \in BOOLEAN /\ failure' \in {"none", "timed_out", "runner_error"}
        /\ strm' \in Strm
    <3> DEFINE line == Head(out)
    <3>1. CASE HandleAnswer(line)
      BY <3>1 DEF Types, HandleAnswer, Reqs
    <3>2. CASE HandleNote(line) \/ HandleAsk \/ HandleGarbage
      BY <3>2 DEF Types, HandleNote, HandleAsk, HandleGarbage, Wake, RejectAll, Heard, Reqs, Strm
    <3> QED
      BY <1>4, <3>1, <3>2 DEF Read, HandleLine
  <2> QED
    BY <1>4, <2>1 DEF Types, Read, runVars, Reqs
<1>5. CASE HandleExit \/ HandleSpawnError
  <2>1. CASE HandleExit
    BY <2>1 DEF Types, HandleExit, Wake, RejectAll, Heard, runVars, Strm
  <2>2. CASE HandleSpawnError
    BY <2>2 DEF Types, HandleSpawnError, Wake, RejectAll, Heard, runVars, Strm
  <2> QED
    BY <1>5, <2>1, <2>2
<1>6. CASE StreamTimesOut
  BY <1>6 DEF Types, StreamTimesOut, Wake, childVars, runVars, Strm
<1>7. ASSUME NEW r \in Request, RequestTimesOut(r) PROVE Types'
  BY <1>7 DEF Types, RequestTimesOut, ctxVars, strmVars, runVars
<1>8. ASSUME NEW a \in Actor, EndStep(a) PROVE Types'
  <2>1. StopRequest(a) \in Request
    BY <1>8 DEF StopRequest, Request
  <2>2. CASE StopAnswered(a)
    BY <2>1, <2>2 DEF Types, StopAnswered, Ends, Awaited, childVars, strmVars, runVars, StopPC, RunPC
  <2>3. CASE StopRefused(a)
    BY <2>1, <2>3 DEF Types, StopRefused, Terminate, Ends, Awaited, childVars, strmVars, runVars, StopPC, RunPC
  <2>4. CASE StopTimesOut(a)
    BY <2>4 DEF Types, StopTimesOut, Terminate, Ends, childVars, strmVars, runVars, StopPC, RunPC
  <2>5. CASE TermExits(a) \/ TermTimesOut(a) \/ KillTimesOut(a)
    <3>1. CASE TermExits(a)
      BY <3>1 DEF Types, TermExits, Ends, childVars, ctxVars, strmVars, runVars, StopPC, RunPC
    <3>2. CASE TermTimesOut(a)
      BY <3>2 DEF Types, TermTimesOut, Ends, childVars, ctxVars, strmVars, runVars, StopPC, RunPC
    <3>3. CASE KillTimesOut(a)
      BY <3>3 DEF Types, KillTimesOut, Ends, childVars, ctxVars, strmVars, runVars, StopPC, RunPC
    <3> QED
      BY <2>5, <3>1, <3>2, <3>3
  <2> QED
    BY <1>8, <2>2, <2>3, <2>4, <2>5 DEF EndStep
<1>9. CASE StreamStep
  <2>1. CASE StreamReads
    <3>1. /\ strm' \in Strm /\ sres' \in Outcome /\ input' \in BOOLEAN
          /\ failure' \in {"none", "timed_out", "runner_error"}
      BY <2>1 DEF Types, StreamReads, Returns, Unheard, Strm, Outcome
    <3> QED
      BY <2>1, <3>1 DEF Types, StreamReads, childVars, runVars
  <2>2. CASE StreamInterrupts
    <3>1. req' \in Reqs /\ asked' \subseteq Request
      BY <2>2, SendIfOpenTypes, RequestNames DEF StreamInterrupts
    <3> QED
      BY <2>2, <3>1 DEF Types, StreamInterrupts, ctxVars, runVars, Strm, Reqs
  <2>3. CASE StreamInterrupted \/ StreamFails
    <3>1. CASE StreamInterrupted
      BY <3>1 DEF Types, StreamInterrupted, Returns, Unheard, Awaited, childVars, runVars, Strm, Outcome
    <3>2. CASE StreamFails
      BY <3>2 DEF Types, StreamFails, Returns, Unheard, childVars, runVars, Strm, Outcome
    <3> QED
      BY <2>3, <3>1, <3>2
  <2>4. CASE StreamWaits
    BY <2>4 DEF Types, StreamWaits, childVars, ctxVars, runVars, Strm
  <2> QED
    BY <1>9, <2>1, <2>2, <2>3, <2>4 DEF StreamStep
<1>10. CASE RunStep
  <2>1. CASE Launch
    BY <2>1 DEF Types, Launch, ctxVars, strmVars, runVars, RunPC, Request
  <2>2. CASE Initialized \/ Threaded
    <3>1. Awaited("initialize") \in Reqs /\ Awaited("thread") \in Reqs
      BY DEF Types, Awaited, Reqs
    <3>2. req' \in Reqs /\ asked' \subseteq Request
      BY <2>2, <3>1, SendTypes, RequestNames DEF Types, Initialized, Threaded, Abort
    <3>3. CASE Initialized
      BY <3>2, <3>3 DEF Types, Initialized, Abort, strmVars, runVars, StopPC, RunPC, Reqs
    <3>4. CASE Threaded
      BY <3>2, <3>4 DEF Types, Threaded, Abort, strmVars, runVars, StopPC, RunPC, Reqs
    <3> QED
      BY <2>2, <3>3, <3>4
  <2>3. CASE AbortEnds \/ TurnStarted
    BY <2>3 DEF Types, AbortEnds, TurnStarted, Awaited, childVars, ctxVars, strmVars, runVars, StopPC, RunPC
  <2>4. CASE StartTurn
    <3>1. req' \in Reqs /\ asked' \subseteq Request
      BY <2>4, SendTypes, RequestNames DEF Types, StartTurn, Reqs
    <3>2. turn' \in 0..MaxTurns
      BY <2>4, Constants DEF Types, IInv, Turns, StartTurn
    <3> QED
      BY <2>4, <3>1, <3>2 DEF Types, StartTurn, ctxVars, strmVars, RunPC, Reqs
  <2>5. CASE Stream
    BY <2>5 DEF Types, Stream, childVars, ctxVars, runVars, Strm, Outcome, RunPC
  <2>6. CASE StreamReturns
    BY <2>6 DEF Types, StreamReturns, Forgotten, GoesOn, childVars, ctxVars, strmVars, Strm, Outcome, RunPC
  <2>7. CASE Finalize
    <3>1. EndSession("run", req)
      BY <2>7 DEF Finalize
    <3> QED
      BY <2>7, <3>1, EndSessionTypes DEF Types, Finalize, Unheard, strmVars, runVars, Reqs, Actor
  <2>8. CASE CancelReturns
    <3>1. Awaited("cancel") \in Reqs
      BY DEF Types, Awaited, Reqs
    <3> QED
      BY <2>8, <3>1, EndSessionTypes DEF Types, CancelReturns, ctxVars, strmVars, runVars, Reqs, Actor
  <2> QED
    BY <1>10, <2>1, <2>2, <2>3, <2>4, <2>5, <2>6, <2>7, <2>8 DEF RunStep
<1>11. CASE Cancel
  <2>1. KnownTurn = 0 \/ KnownTurn \in Turn
    BY <1>11, Constants DEF Types, IInv, Turns, Cancel, KnownTurn, Turn
  <2>2. CASE KnownTurn = 0
    <3>1. EndSession("can", req) /\ cancelled' = cancelled
      BY <1>11, <2>2 DEF Cancel
    <3> QED
      BY <1>11, <3>1, EndSessionTypes DEF Types, Cancel, ctxVars, strmVars, Reqs, Actor
  <2>3. CASE KnownTurn # 0
    <3>1. req' \in Reqs /\ asked' \subseteq Request
      BY <1>11, <2>3, SendIfOpenTypes, RequestNames DEF Cancel
    <3> QED
      BY <1>11, <2>1, <2>3, <3>1 DEF Types, Cancel, ctxVars, strmVars, RunPC, Reqs
  <2> QED
    BY <2>2, <2>3
<1>12. CASE UNCHANGED vars
  BY <1>12 DEF Types, vars, childVars, ctxVars, strmVars, runVars
<1> QED
  BY <1>1, <1>2, <1>3, <1>4, <1>5, <1>6, <1>7, <1>8, <1>9, <1>10, <1>11, <1>12
     DEF Next, AgentStep, DaemonStep, Over

-----------------------------------------------------------------------------
(* Lines and notifications. *)

LEMMA WithoutType ==
    ASSUME NEW S, notes \in Seq(S), NEW i \in DOMAIN notes
    PROVE  Without(i) \in Seq(S)
<1>1. SubSeq(notes, 1, i - 1) \in Seq(S)
  BY SubSeqProperties
<1>2. SubSeq(notes, i + 1, Len(notes)) \in Seq(S)
  BY SubSeqProperties
<1> QED
  BY <1>1, <1>2, ConcatProperties DEF Without

(* FirstMatching is what its name says: the order of the notifications has a
   first one that matches. *)
LEMMA FirstMatches ==
    ASSUME NEW S, notes \in Seq(S), HasMatching
    PROVE  FirstMatching \in DOMAIN notes /\ Matches(notes[FirstMatching])
<1> DEFINE M == {i \in DOMAIN notes : Matches(notes[i])}
<1>1. M # {} /\ M \subseteq Nat
  BY DEF HasMatching
<1>2. PICK i \in M : \A j \in M : <<j, i>> \notin OpToRel(<, Nat)
  BY <1>1, NatLessThanWellFounded, WFMin
<1>3. \A j \in M : ~(j < i)
  BY <1>1, <1>2, Zenon DEF OpToRel
<1>4. \A j \in M : i <= j
  BY <1>1, <1>3
<1> QED
  BY <1>4 DEF FirstMatching

LEMMA TrueLines ==
    /\ TrueNote \subseteq TrueLine
    /\ \A l \in TrueLine : l.kind = "note" => l \in TrueNote
BY DEF TrueNote, TrueLine, Line, Note

(* What is true of a turn stays true when the agent goes on with its work: no
   step takes a completion back. *)
WorkKept == \A t \in Turn : agent[t] = "completed" => agent'[t] = "completed"

LEMMA TruthKept ==
    ASSUME WorkKept
    PROVE  TrueLine \subseteq TrueLine' /\ TrueNote \subseteq TrueNote'
BY DEF WorkKept, TrueLine, TrueNote, Note

LEMMA Written ==
    ASSUME out \in Seq(TrueLine), WorkKept, NEW l, l \in TrueLine', Write(l)
    PROVE  out' \in Seq(TrueLine')
BY TruthKept, SeqMonotonic DEF Write

LEMMA LinesUnchanged ==
    ASSUME Lines, WorkKept, UNCHANGED out, UNCHANGED notes \/ notes' = <<>>
    PROVE  Lines'
BY TruthKept, SeqMonotonic, EmptySeq DEF Lines

LEMMA AgentRests ==
    ASSUME UNCHANGED agent
    PROVE  WorkKept
BY DEF WorkKept

LEMMA LinesStep ==
    ASSUME IInv, [Next]_vars
    PROVE  Lines'
<1>0. Types /\ Turns /\ Begins /\ Lines
  BY DEF IInv
<1>1. ASSUME NEW r \in Request, Answer(r) PROVE Lines'
  <2> PICK ok \in BOOLEAN :
        /\ Write([kind |-> "answer", to |-> r, ok |-> ok])
        /\ agent' = IF r = "turn" /\ ok THEN [agent EXCEPT ![turn] = "working"] ELSE agent
    BY <1>1 DEF Answer
  <2>1. WorkKept
    BY <1>0, <1>1 DEF WorkKept, Types, Turns, Begins, Answer
  <2>2. [kind |-> "answer", to |-> r, ok |-> ok] \in TrueLine'
    BY DEF TrueLine, Line, Note
  <2> QED
    BY <1>0, <1>1, <2>1, <2>2, Written, TruthKept, SeqMonotonic DEF Lines, Answer, ctxVars
<1>2. ASSUME NEW t \in Turn, Finish(t) PROVE Lines'
  <2> PICK w \in Final : agent' = [agent EXCEPT ![t] = w] /\ Write([kind |-> "note", what |-> w, of |-> t])
    BY <1>2 DEF Finish
  <2>1. WorkKept
    BY <1>0, <1>2 DEF WorkKept, Types, Finish
  <2>2. [kind |-> "note", what |-> w, of |-> t] \in TrueLine'
    BY <1>0 DEF TrueLine, Line, Note, Types
  <2> QED
    BY <1>0, <1>2, <2>1, <2>2, Written, TruthKept, SeqMonotonic DEF Lines, Finish, ctxVars
<1>3. CASE Speak
  <2>1. WorkKept
    BY <1>3, AgentRests DEF Speak
  <2>2. ASSUME NEW t \in Turn, NEW w \in {"delta", "failed"}
        PROVE  [kind |-> "note", what |-> w, of |-> t] \in TrueLine'
    BY DEF TrueLine, Line, Note, Final
  <2>3. ASSUME NEW k \in {"ask", "garbage"} PROVE [kind |-> k] \in TrueLine'
    BY DEF TrueLine, Line, Note
  <2> QED
    BY <1>0, <1>3, <2>1, <2>2, <2>3, Written, TruthKept, SeqMonotonic DEF Lines, Speak, ctxVars
<1>4. CASE Read
  <2>1. WorkKept
    BY <1>4, AgentRests DEF Read
  <2>2. Head(out) \in TrueLine /\ Tail(out) \in Seq(TrueLine)
    BY <1>0, <1>4, HeadTailProperties DEF Lines, Read
  <2>3. notes' \in Seq(TrueNote)
    <3>1. CASE Head(out).kind = "note"
      <4>1. Head(out) \in TrueNote
        BY <2>2, <3>1, TrueLines
      <4>2. notes' = Append(notes, Head(out)) \/ notes' = notes
        BY <1>4, <3>1 DEF Read, HandleLine, HandleNote
      <4> QED
        BY <1>0, <4>1, <4>2, AppendProperties DEF Lines
    <3>2. CASE Head(out).kind # "note"
      BY <1>0, <1>4, <3>2 DEF Lines, Read, HandleLine, HandleAnswer, HandleAsk, HandleGarbage
    <3> QED
      BY <3>1, <3>2
  <2> QED
    BY <1>4, <2>1, <2>2, <2>3, TruthKept, SeqMonotonic DEF Lines, Read
<1>5. CASE StreamReads
  <2>1. WorkKept
    BY <1>5, AgentRests DEF StreamReads, childVars
  <2>2. Without(FirstMatching) \in Seq(TrueNote)
    BY <1>0, <1>5, FirstMatches, WithoutType DEF Lines, StreamReads
  <2>3. notes' \in Seq(TrueNote)
    BY <1>5, <2>2, EmptySeq DEF StreamReads, Returns, Unheard
  <2> QED
    BY <1>0, <1>5, <2>1, <2>3, TruthKept, SeqMonotonic DEF Lines, StreamReads, childVars
<1>6. CASE StreamInterrupted \/ StreamFails \/ Finalize
  BY <1>0, <1>6, AgentRests, LinesUnchanged
     DEF StreamInterrupted, StreamFails, Returns, Finalize, Unheard, childVars
<1>7. CASE StreamInterrupts \/ StreamWaits \/ StreamTimesOut \/ HandleExit \/ HandleSpawnError \/ Die
  BY <1>0, <1>7, AgentRests, LinesUnchanged
     DEF StreamInterrupts, StreamWaits, StreamTimesOut, HandleExit, HandleSpawnError, Die, childVars, ctxVars
<1>8. ASSUME NEW r \in Request, RequestTimesOut(r) PROVE Lines'
  BY <1>0, <1>8, AgentRests, LinesUnchanged DEF RequestTimesOut, ctxVars
<1>9. ASSUME NEW a \in Actor, EndStep(a) PROVE Lines'
  BY <1>0, <1>9, AgentRests, LinesUnchanged
     DEF EndStep, StopAnswered, StopRefused, StopTimesOut, TermExits, TermTimesOut, KillTimesOut, childVars, ctxVars
<1>10. CASE Launch \/ Initialized \/ Threaded \/ AbortEnds \/ StartTurn \/ TurnStarted
  BY <1>0, <1>10, AgentRests, LinesUnchanged
     DEF Launch, Initialized, Threaded, AbortEnds, StartTurn, TurnStarted, childVars, ctxVars
<1>11. CASE Stream \/ StreamReturns \/ CancelReturns \/ Cancel \/ UNCHANGED vars
  BY <1>0, <1>11, AgentRests, LinesUnchanged
     DEF Stream, StreamReturns, CancelReturns, Cancel, vars, childVars, ctxVars
<1> QED
  BY <1>1, <1>2, <1>3, <1>4, <1>5, <1>6, <1>7, <1>8, <1>9, <1>10, <1>11
     DEF Next, AgentStep, DaemonStep, StreamStep, RunStep, Over

-----------------------------------------------------------------------------
(* Turns. *)

\* Nothing that the run's progress is made of.
RunRests == UNCHANGED <<agent, turn, result>> /\ pc'["run"] = pc["run"]

LEMMA TurnsRest ==
    ASSUME Turns, RunRests
    PROVE  Turns'
BY DEF Turns, RunRests

\* The run has come to an end of its turns, or gone nowhere.
LEMMA TurnsOver ==
    ASSUME Turns, UNCHANGED <<agent, turn, result>>,
           pc'["run"] \in StopPC \cup {"result", "aborting"}
    PROVE  Turns'
BY DEF Turns, StopPC

LEMMA TurnsStep ==
    ASSUME IInv, [Next]_vars
    PROVE  Turns'
<1>0. Types /\ Turns /\ Begins /\ Streams
  BY DEF IInv
<1>1. ASSUME NEW r \in Request, Answer(r) PROVE Turns'
  BY <1>0, <1>1 DEF Types, Turns, Begins, Answer, runVars
<1>2. ASSUME NEW t \in Turn, Finish(t) PROVE Turns'
  BY <1>0, <1>2 DEF Types, Turns, Finish, runVars
<1>3. CASE Speak \/ Die \/ Read \/ HandleExit \/ HandleSpawnError \/ StreamTimesOut
  BY <1>0, <1>3, TurnsRest
     DEF RunRests, Speak, Die, Read, HandleExit, HandleSpawnError, StreamTimesOut, childVars, runVars
<1>4. ASSUME NEW r \in Request, RequestTimesOut(r) PROVE Turns'
  BY <1>0, <1>4, TurnsRest DEF RunRests, RequestTimesOut, runVars
<1>5. ASSUME NEW a \in Actor, EndStep(a) PROVE Turns'
  <2>1. UNCHANGED <<agent, turn, result>>
    BY <1>5 DEF EndStep, StopAnswered, StopRefused, StopTimesOut, TermExits, TermTimesOut, KillTimesOut,
                childVars, runVars
  <2>2. pc' = pc \/ \E w \in StopPC : pc' = [pc EXCEPT ![a] = w]
    BY <1>5 DEF EndStep, StopAnswered, StopRefused, StopTimesOut, TermExits, TermTimesOut, KillTimesOut,
                Terminate, Ends, StopPC
  <2>3. pc'["run"] = pc["run"] \/ pc'["run"] \in StopPC
    BY <1>0, <2>2 DEF Actor, Types
  <2> QED
    BY <1>0, <2>1, <2>3, TurnsRest, TurnsOver DEF RunRests
<1>6. CASE StreamStep
  BY <1>0, <1>6, TurnsRest
     DEF RunRests, StreamStep, StreamReads, StreamInterrupts, StreamInterrupted, StreamFails, StreamWaits,
         childVars, runVars
<1>7. CASE Launch \/ Initialized \/ Threaded \/ AbortEnds
  BY <1>0, <1>7, Constants DEF Types, Turns, Launch, Initialized, Threaded, AbortEnds, Abort, childVars, runVars, Turn
<1>8. CASE StartTurn
  <2>1. CASE open
    BY <1>0, <1>8, <2>1, Constants DEF Actor, Types, Turns, StartTurn, Turn
  <2>2. CASE ~open
    BY <1>0, <1>8, <2>2, TurnsOver DEF Actor, Types, StartTurn
  <2> QED
    BY <2>1, <2>2
<1>9. CASE TurnStarted \/ Stream
  BY <1>0, <1>9 DEF Types, Turns, TurnStarted, Stream, childVars, runVars
<1>10. CASE StreamReturns
  <2>1. turn \in Turn /\ result[turn] = "none"
    BY <1>0, <1>10 DEF Turns, StreamReturns
  <2>2. PICK o \in Outcome : result' = [result EXCEPT ![turn] = o]
    BY <1>0, <1>10 DEF Types, StreamReturns, Outcome
  <2>3. UNCHANGED <<agent, turn>>
    BY <1>10 DEF StreamReturns, childVars
  <2>4. \/ pc' = [pc EXCEPT !["run"] = "result"]
        \/ result'[turn] = "completed" /\ turn < MaxTurns /\ pc' = [pc EXCEPT !["run"] = "ready"]
    BY <1>10 DEF StreamReturns, GoesOn
  <2> QED
    BY <1>0, <2>1, <2>2, <2>3, <2>4, Constants DEF Actor, Types, Turns, Turn, Outcome
<1>11. CASE Finalize
  <2>1. pc'["run"] \in StopPC
    BY <1>0, <1>11 DEF Types, Finalize, EndSession, StopPC, Actor
  <2> QED
    BY <1>0, <1>11, <2>1, TurnsOver DEF Finalize, runVars
<1>12. CASE CancelReturns \/ Cancel
  <2>1. pc'["run"] = pc["run"]
    BY <1>0, <1>12 DEF Actor, Types, CancelReturns, Cancel, EndSession
  <2> QED
    BY <1>0, <1>12, <2>1, TurnsRest DEF RunRests, CancelReturns, Cancel, runVars
<1>13. CASE UNCHANGED vars
  BY <1>0, <1>13, TurnsRest DEF RunRests, vars, childVars, runVars
<1> QED
  BY <1>1, <1>2, <1>3, <1>4, <1>5, <1>6, <1>7, <1>8, <1>9, <1>10, <1>11, <1>12, <1>13
     DEF Next, AgentStep, DaemonStep, RunStep, Over

-----------------------------------------------------------------------------
(* Streams. *)

\* Nothing that is said of a call of stream().
StreamRests == UNCHANGED <<agent, strm, sres, failure, exited, purpose, turn>> /\ pc'["run"] = pc["run"]

LEMMA StreamsRest ==
    ASSUME Streams, StreamRests
    PROVE  Streams'
BY DEF Streams, StreamRests

\* A stream that was woken is still at work.
LEMMA StreamsWoken ==
    ASSUME Streams, Wake, UNCHANGED <<agent, sres, exited, purpose, turn>>, pc'["run"] = pc["run"],
           failure' = failure \/ failure' = "runner_error" \/ failure' = "timed_out"
    PROVE  Streams'
BY DEF Streams, Wake

LEMMA ReadNote ==
    ASSUME IInv, StreamReads
    PROVE  LET n == notes[FirstMatching] IN n \in TrueNote /\ n.of = turn
BY FirstMatches, LenProperties DEF IInv, Lines, StreamReads, Matches

LEMMA StreamsStep ==
    ASSUME IInv, [Next]_vars
    PROVE  Streams'
<1>0. Types /\ Turns /\ Begins /\ Lines /\ Streams /\ Exits
  BY DEF IInv
<1>1. ASSUME NEW r \in Request, Answer(r) PROVE Streams'
  <2>1. sres # "completed" \/ UNCHANGED agent
    BY <1>0, <1>1 DEF Streams, Begins, Answer, Early
  <2> QED
    BY <1>0, <1>1, <2>1 DEF Streams, Answer, ctxVars, strmVars, runVars
<1>2. ASSUME NEW t \in Turn, Finish(t) PROVE Streams'
  BY <1>0, <1>2 DEF Types, Streams, Finish, ctxVars, strmVars, runVars
<1>3. CASE Speak \/ Die
  BY <1>0, <1>3, StreamsRest DEF StreamRests, Speak, Die, ctxVars, strmVars, runVars
<1>4. CASE Read
  <2>1. CASE Head(out).kind = "answer"
    BY <1>0, <1>4, <2>1, StreamsRest DEF StreamRests, Read, HandleLine, HandleAnswer, runVars
  <2>2. CASE Head(out).kind # "answer"
    <3>1. Wake /\ (failure' = failure \/ failure' = "runner_error")
      BY <1>4, <2>2 DEF Read, HandleLine, HandleNote, HandleAsk, HandleGarbage
    <3> QED
      BY <1>0, <1>4, <3>1, StreamsWoken DEF Read, runVars
  <2> QED
    BY <2>1, <2>2
<1>5. CASE HandleExit
  <2>1. sres # "completed"
    BY <1>0, <1>5 DEF Streams, HandleExit, Quiet, Free
  <2> QED
    BY <1>0, <1>5, <2>1 DEF Streams, HandleExit, Wake, runVars
<1>6. CASE HandleSpawnError \/ StreamTimesOut
  BY <1>0, <1>6, StreamsWoken DEF HandleSpawnError, StreamTimesOut, childVars, runVars
<1>7. ASSUME NEW r \in Request, RequestTimesOut(r) PROVE Streams'
  BY <1>0, <1>7, StreamsRest DEF StreamRests, RequestTimesOut, ctxVars, strmVars, runVars
<1>8. ASSUME NEW a \in Actor, EndStep(a) PROVE Streams'
  <2>1. UNCHANGED <<agent, strm, sres, failure, exited, purpose, turn>>
    BY <1>8 DEF EndStep, StopAnswered, StopRefused, StopTimesOut, TermExits, TermTimesOut, KillTimesOut,
                childVars, ctxVars, strmVars, runVars
  <2>2. pc[a] \in StopPC /\ (pc' = pc \/ \E w \in StopPC : pc' = [pc EXCEPT ![a] = w])
    BY <1>8 DEF EndStep, StopAnswered, StopRefused, StopTimesOut, TermExits, TermTimesOut, KillTimesOut,
                Terminate, Ends, StopPC
  <2>3. pc'["run"] = pc["run"] \/ (pc["run"] \in StopPC /\ pc'["run"] \in StopPC)
    <3>1. CASE a = "run"
      BY <1>0, <2>2, <3>1 DEF Actor, Types
    <3>2. CASE a # "run"
      BY <1>0, <2>2, <3>2 DEF Actor, Types
    <3> QED
      BY <3>1, <3>2
  <2> QED
    BY <1>0, <2>1, <2>3 DEF Streams, StopPC, Early
<1>9. CASE StreamReads
  <2>1. pc["run"] \notin Early /\ purpose = "run" /\ ~exited
    BY <1>0, <1>9 DEF Streams, Exits, StreamReads, MayRead
  <2>2. notes[FirstMatching].what = "completed" => agent[turn] = "completed"
    BY <1>9, ReadNote DEF TrueNote
  <2> QED
    BY <1>0, <1>9, <2>1, <2>2 DEF Streams, StreamReads, Returns, Unheard, Final, childVars, runVars
<1>10. CASE StreamInterrupts
  BY <1>0, <1>10 DEF Streams, StreamInterrupts, ctxVars, runVars
<1>11. CASE StreamInterrupted \/ StreamFails
  BY <1>0, <1>11 DEF Types, Streams, StreamInterrupted, StreamFails, Returns, Unheard, childVars, runVars
<1>12. CASE StreamWaits
  BY <1>0, <1>12 DEF Streams, StreamWaits, childVars, ctxVars, runVars
<1>13. CASE Launch \/ Initialized \/ Threaded \/ AbortEnds
  BY <1>0, <1>13 DEF Types, Streams, Launch, Initialized, Threaded, AbortEnds, Abort,
       childVars, ctxVars, strmVars, runVars, Early
<1>14. CASE StartTurn \/ TurnStarted
  BY <1>0, <1>14 DEF Types, Streams, StartTurn, TurnStarted, childVars, ctxVars, strmVars, runVars, Early
<1>15. CASE Stream
  BY <1>0, <1>15 DEF Actor, Types, Streams, Stream, childVars, ctxVars, runVars, Early
<1>16. CASE StreamReturns
  <2>1. turn \in Turn /\ purpose = "run"
    BY <1>0, <1>16 DEF Turns, Streams, StreamReturns
  <2>2. CASE strm = "done"
    BY <1>0, <1>16, <2>1, <2>2 DEF Types, Streams, StreamReturns, Forgotten, GoesOn, childVars, ctxVars, Early
  <2>3. CASE strm # "done"
    <3>1. result'[turn] = "cancelled"
      BY <1>0, <1>16, <2>1, <2>3 DEF Types, StreamReturns
    <3>2. pc' = [pc EXCEPT !["run"] = "result"]
      BY <1>16, <3>1 DEF StreamReturns, GoesOn
    <3> QED
      BY <1>0, <1>16, <2>1, <2>3, <3>2 DEF Types, Streams, StreamReturns, childVars, ctxVars, strmVars, Early
  <2> QED
    BY <2>2, <2>3
<1>17. CASE Finalize
  <2>1. pc'["run"] \in StopPC
    BY <1>0, <1>17 DEF Types, Finalize, EndSession, StopPC, Actor
  <2> QED
    BY <1>0, <1>17, <2>1 DEF Streams, Finalize, Unheard, strmVars, runVars, StopPC, Early
<1>18. CASE CancelReturns \/ Cancel
  <2>1. pc'["run"] = pc["run"]
    BY <1>0, <1>18 DEF Actor, Types, CancelReturns, Cancel, EndSession
  <2> QED
    BY <1>0, <1>18, <2>1, StreamsRest DEF StreamRests, CancelReturns, Cancel, ctxVars, strmVars, runVars
<1>19. CASE UNCHANGED vars
  BY <1>0, <1>19, StreamsRest DEF StreamRests, vars, childVars, ctxVars, strmVars, runVars
<1> QED
  BY <1>1, <1>2, <1>3, <1>4, <1>5, <1>6, <1>7, <1>8, <1>9, <1>10, <1>11, <1>12, <1>13, <1>14, <1>15,
     <1>16, <1>17, <1>18, <1>19 DEF Next, AgentStep, DaemonStep, StreamStep, RunStep, Over

-----------------------------------------------------------------------------
(* Begins. *)

LEMMA TurnWritten ==
    ASSUME out \in Seq(Line), NEW l \in Line, Write(l)
    PROVE  /\ \A i \in DOMAIN out' : \/ i \in DOMAIN out /\ (TurnAnswer(i)' <=> TurnAnswer(i))
                                     \/ i = Len(out) + 1 /\ i \notin DOMAIN out /\ out'[i] = l
BY AppendProperties, LenProperties DEF Write, TurnAnswer

LEMMA TurnRead ==
    ASSUME out \in Seq(Line), out # <<>>, out' = Tail(out)
    PROVE  /\ 1 \in DOMAIN out /\ Head(out) = out[1]
           /\ \A i \in DOMAIN out' : i + 1 \in DOMAIN out /\ i + 1 # 1 /\ (TurnAnswer(i)' <=> TurnAnswer(i + 1))
<1>1. Len(Tail(out)) = Len(out) - 1 /\ \A i \in 1..Len(Tail(out)) : Tail(out)[i] = out[i + 1]
  BY HeadTailProperties
<1>2. DOMAIN Tail(out) = 1..Len(Tail(out)) /\ DOMAIN out = 1..Len(out) /\ Len(out) \in Nat \ {0}
  BY HeadTailProperties, LenProperties, EmptySeq
<1> QED
  BY <1>1, <1>2 DEF TurnAnswer

\* turn/start is neither sent nor answered.
BeginRests ==
    /\ UNCHANGED <<out, agent, turn>> /\ pc'["run"] = pc["run"]
    /\ req'["turn"] = "ok" => req["turn"] = "ok"
    /\ "turn" \in asked' => "turn" \in asked /\ req'["turn"] = req["turn"]

LEMMA BeginsRest ==
    ASSUME Begins, BeginRests
    PROVE  Begins'
BY DEF Begins, BeginRests, TurnAnswer, NoTurnAnswer

\* The last answer was read, and turn/start is not sent.
LEMMA BeginsQuiet ==
    ASSUME NoTurnAnswer, UNCHANGED out, "turn" \notin asked'
    PROVE  Begins'
BY DEF Begins, TurnAnswer, NoTurnAnswer

\* The run is past its turns.
LEMMA BeginsOver ==
    ASSUME Begins, UNCHANGED out, "turn" \notin asked', pc'["run"] \in StopPC \cup {"result", "aborting"}
    PROVE  Begins'
BY DEF Begins, TurnAnswer, NoTurnAnswer, StopPC, Early

LEMMA SendRests ==
    ASSUME NEW r \in Request, r # "turn", NEW q \in Reqs, Send(r, q)
    PROVE  /\ req'["turn"] = q["turn"]
           /\ "turn" \in asked' => "turn" \in asked
BY DEF Send, Reqs, Request

LEMMA SendIfOpenRests ==
    ASSUME NEW r \in Request, r # "turn", Types, SendIfOpen(r)
    PROVE  /\ req'["turn"] = req["turn"]
           /\ "turn" \in asked' => "turn" \in asked
<1>1. CASE open
  BY <1>1, SendRests DEF SendIfOpen, Types, Reqs
<1>2. CASE ~open
  BY <1>2 DEF SendIfOpen, Types, Request
<1> QED
  BY <1>1, <1>2

LEMMA EndSessionRests ==
    ASSUME NEW a \in Actor, NEW q \in Reqs, EndSession(a, q)
    PROVE  /\ req'["turn"] = q["turn"]
           /\ "turn" \in asked' => "turn" \in asked
<1>1. StopRequest(a) \in Request /\ StopRequest(a) # "turn"
  BY DEF StopRequest, Request
<1> QED
  BY <1>1, SendRests DEF EndSession

LEMMA BeginsStep ==
    ASSUME IInv, [Next]_vars
    PROVE  Begins'
<1>0. Types /\ Turns /\ Begins /\ Streams /\ Exits
  BY DEF IInv
<1>a. out \in Seq(Line)
  BY SeqMonotonic DEF IInv, Lines, TrueLine
<1>b. "turn" \in Request
  BY DEF Request
<1>1. ASSUME NEW r \in Request, Answer(r) PROVE Begins'
  <2> PICK ok \in BOOLEAN :
        /\ Write([kind |-> "answer", to |-> r, ok |-> ok])
        /\ agent' = IF r = "turn" /\ ok THEN [agent EXCEPT ![turn] = "working"] ELSE agent
    BY <1>1 DEF Answer
  <2> DEFINE l == [kind |-> "answer", to |-> r, ok |-> ok]
  <2>1. l \in Line
    BY DEF Line
  <2>2. \A i \in DOMAIN out' : \/ i \in DOMAIN out /\ (TurnAnswer(i)' <=> TurnAnswer(i))
                               \/ i = Len(out) + 1 /\ i \notin DOMAIN out /\ out'[i] = l
    BY <1>a, <2>1, TurnWritten
  <2>3. CASE r = "turn"
    <3>1. NoTurnAnswer /\ pc["run"] = "turn" /\ req["turn"] = "pending"
      BY <1>0, <1>1, <2>3 DEF Begins, Answer
    <3>2. "turn" \notin asked' /\ UNCHANGED <<pc, req>>
      BY <1>1, <2>3 DEF Answer
    <3>3. \A i, j \in DOMAIN out' : TurnAnswer(i)' /\ TurnAnswer(j)' => i = j
      BY <2>2, <3>1 DEF NoTurnAnswer
    <3> QED
      BY <3>1, <3>2, <3>3 DEF Begins, Early
  <2>4. CASE r # "turn"
    <3>1. UNCHANGED <<agent, pc, req, turn>> /\ ("turn" \in asked' => "turn" \in asked)
      BY <1>1, <2>4 DEF Answer, runVars
    <3>2. \A i \in DOMAIN out' : TurnAnswer(i)' => i \in DOMAIN out /\ TurnAnswer(i)
      BY <2>2, <2>4 DEF TurnAnswer
    <3> QED
      BY <1>0, <3>1, <3>2 DEF Begins, NoTurnAnswer
  <2> QED
    BY <2>3, <2>4
<1>2. ASSUME NEW l \in Line, l.kind # "answer", Write(l),
             UNCHANGED <<asked, pc, req, turn>>, \A t \in Turn : agent[t] = "none" => agent'[t] = "none"
      PROVE  Begins'
  <2>1. \A i \in DOMAIN out' : TurnAnswer(i)' => i \in DOMAIN out /\ TurnAnswer(i)
    BY <1>a, <1>2, TurnWritten DEF TurnAnswer
  <2>2. "turn" \in asked => turn \in Turn
    BY <1>0 DEF Begins, Turns
  <2> QED
    BY <1>0, <1>2, <2>1, <2>2 DEF Begins, NoTurnAnswer
<1>3. ASSUME NEW t \in Turn, Finish(t) PROVE Begins'
  <2> PICK w \in Final : agent' = [agent EXCEPT ![t] = w] /\ Write([kind |-> "note", what |-> w, of |-> t])
    BY <1>3 DEF Finish
  <2>1. [kind |-> "note", what |-> w, of |-> t] \in Line
    BY DEF Line, Note
  <2>2. \A u \in Turn : agent[u] = "none" => agent'[u] = "none"
    BY <1>0, <1>3 DEF Types, Finish
  <2> QED
    BY <1>2, <1>3, <2>1, <2>2 DEF Finish, runVars
<1>4. CASE Speak
  <2>1. ASSUME NEW t \in Turn, NEW w \in {"delta", "failed"}
        PROVE  [kind |-> "note", what |-> w, of |-> t] \in Line
    BY DEF Line, Note, Final
  <2>2. ASSUME NEW k \in {"ask", "garbage"} PROVE [kind |-> k] \in Line
    BY DEF Line
  <2>3. UNCHANGED <<asked, pc, req, turn, agent>>
    BY <1>4 DEF Speak, runVars
  <2>4. ASSUME NEW t \in Turn, NEW w \in {"delta", "failed"}, Write([kind |-> "note", what |-> w, of |-> t])
        PROVE  Begins'
    BY <1>2, <2>1, <2>3, <2>4
  <2>5. ASSUME NEW k \in {"ask", "garbage"}, Write([kind |-> k]) PROVE Begins'
    BY <1>2, <2>2, <2>3, <2>5
  <2> QED
    BY <1>4, <2>4, <2>5 DEF Speak
<1>5. CASE Read
  <2>1. out # <<>> /\ out' = Tail(out) /\ UNCHANGED <<agent, pc, turn>>
    BY <1>5 DEF Read, runVars
  <2>2. 1 \in DOMAIN out /\ Head(out) = out[1]
    BY <1>a, <2>1, TurnRead
  <2>3. \A i \in DOMAIN out' : i + 1 \in DOMAIN out /\ i + 1 # 1 /\ (TurnAnswer(i)' <=> TurnAnswer(i + 1))
    BY <1>a, <2>1, TurnRead
  <2>4. \A i \in DOMAIN out' : i \in Nat
    BY <1>a, <2>1, HeadTailProperties, LenProperties
  <2>5. \A i, j \in DOMAIN out' : TurnAnswer(i)' /\ TurnAnswer(j)' => i = j
    BY <1>0, <2>3, <2>4 DEF Begins
  <2>6. (NoTurnAnswer \/ TurnAnswer(1)) => NoTurnAnswer'
    BY <1>0, <2>2, <2>3 DEF Begins, NoTurnAnswer
  <2>7. req'["turn"] = "ok" => req["turn"] = "ok" \/ TurnAnswer(1)
    BY <1>0, <1>5, <1>b, <2>2 DEF Types, Read, HandleLine, HandleAnswer, HandleNote, HandleAsk, HandleGarbage,
                                  RejectAll, TurnAnswer
  <2>8. "turn" \in asked' => "turn" \in asked /\ (req'["turn"] = req["turn"] \/ TurnAnswer(1))
    BY <1>0, <1>5, <1>b, <2>2 DEF Types, Read, HandleLine, HandleAnswer, HandleNote, HandleAsk, HandleGarbage,
                                  RejectAll, TurnAnswer
  <2>9. "turn" \in asked' => req'["turn"] = "pending" /\ NoTurnAnswer'
    BY <1>0, <2>2, <2>6, <2>8 DEF Begins, NoTurnAnswer
  <2> QED
    BY <1>0, <2>1, <2>5, <2>6, <2>7, <2>8, <2>9 DEF Begins
<1>6. CASE HandleExit \/ HandleSpawnError
  BY <1>0, <1>6, <1>b, BeginsRest DEF Types, BeginRests, HandleExit, HandleSpawnError, RejectAll, runVars
<1>7. CASE StreamTimesOut \/ Die
  BY <1>0, <1>7, BeginsRest DEF BeginRests, StreamTimesOut, Die, childVars, runVars
<1>8. ASSUME NEW r \in Request, RequestTimesOut(r) PROVE Begins'
  BY <1>0, <1>8, <1>b, BeginsRest DEF Types, BeginRests, RequestTimesOut, runVars
<1>9. ASSUME NEW a \in Actor, EndStep(a) PROVE Begins'
  <2>1. UNCHANGED <<out, asked, agent, turn>> /\ StopRequest(a) # "turn"
    BY <1>9 DEF EndStep, StopAnswered, StopRefused, StopTimesOut, TermExits, TermTimesOut, KillTimesOut,
                childVars, runVars, StopRequest
  <2>2. req'["turn"] = req["turn"]
    BY <1>0, <1>9, <1>b, <2>1
       DEF Types, EndStep, StopAnswered, StopRefused, StopTimesOut, TermExits, TermTimesOut, KillTimesOut, Awaited
  <2>3. pc[a] \in StopPC /\ (pc' = pc \/ \E w \in StopPC : pc' = [pc EXCEPT ![a] = w])
    BY <1>9 DEF EndStep, StopAnswered, StopRefused, StopTimesOut, TermExits, TermTimesOut, KillTimesOut,
                Terminate, Ends, StopPC
  <2>4. pc'["run"] = pc["run"] \/ (pc["run"] \in StopPC /\ pc'["run"] \in StopPC)
    <3>1. CASE a = "run"
      BY <1>0, <2>3, <3>1 DEF Actor, Types
    <3>2. CASE a # "run"
      BY <1>0, <2>3, <3>2 DEF Actor, Types
    <3> QED
      BY <3>1, <3>2
  <2>5. CASE pc'["run"] = pc["run"]
    BY <1>0, <2>1, <2>2, <2>5, BeginsRest DEF BeginRests
  <2>6. CASE pc["run"] \in StopPC /\ pc'["run"] \in StopPC
    <3>1. "turn" \notin asked
      BY <1>0, <2>6 DEF Begins, StopPC
    <3> QED
      BY <1>0, <2>1, <2>6, <3>1, BeginsOver
  <2> QED
    BY <2>4, <2>5, <2>6
<1>10. CASE StreamReads \/ StreamFails \/ StreamWaits
  BY <1>0, <1>10, BeginsRest DEF BeginRests, StreamReads, StreamFails, StreamWaits, childVars, runVars
<1>11. CASE StreamInterrupts
  <2>1. "interrupt" \in Request
    BY DEF Request
  <2> QED
    BY <1>0, <1>11, <2>1, BeginsRest, SendIfOpenRests DEF BeginRests, StreamInterrupts, runVars
<1>12. CASE StreamInterrupted
  BY <1>0, <1>12, <1>b, BeginsRest DEF Types, BeginRests, StreamInterrupted, Awaited, childVars, runVars
<1>13. CASE Launch
  BY <1>0, <1>13, BeginsQuiet DEF Begins, Launch, Early
<1>14. CASE Initialized
  <2>1. NoTurnAnswer /\ "turn" \notin asked /\ UNCHANGED out
    BY <1>0, <1>14 DEF Begins, Initialized, Early
  <2>2. Awaited("initialize") \in Reqs /\ "thread" \in Request
    BY <1>0 DEF Types, Awaited, Reqs, Request
  <2>3. "turn" \notin asked'
    BY <1>14, <2>1, <2>2, SendRests DEF Initialized, Abort
  <2> QED
    BY <2>1, <2>3, BeginsQuiet
<1>15. CASE Threaded \/ Stream \/ StreamReturns
  <2>1. NoTurnAnswer /\ "turn" \notin asked
    BY <1>0, <1>15 DEF Begins, Threaded, Stream, StreamReturns, Early
  <2>2. UNCHANGED <<out, asked>>
    BY <1>15 DEF Threaded, Abort, Stream, StreamReturns, childVars
  <2> QED
    BY <2>1, <2>2, BeginsQuiet
<1>16. CASE AbortEnds
  BY <1>0, <1>16, BeginsOver DEF Types, Begins, AbortEnds, childVars, Actor, StopPC
<1>17. CASE StartTurn
  <2>1. NoTurnAnswer /\ "turn" \notin asked /\ UNCHANGED out
    BY <1>0, <1>17 DEF Begins, StartTurn, Early
  <2>2. CASE open
    <3>1. pc'["run"] = "turn" /\ turn' \in Turn /\ agent'[turn'] = "none"
      BY <1>0, <1>17, <2>2, Constants DEF Types, Turns, StartTurn, Actor, Turn
    <3>2. "turn" \in asked' => req'["turn"] = "pending"
      BY <1>0, <1>17, <1>b, <2>1, <2>2 DEF Types, Exits, StartTurn, Send
    <3>3. exited => "turn" \notin asked'
      BY <1>0, <1>17, <2>1, <2>2 DEF Exits, StartTurn, Send
    <3>4. NoTurnAnswer'
      BY <2>1 DEF NoTurnAnswer, TurnAnswer
    <3> QED
      BY <3>1, <3>2, <3>4 DEF Begins, NoTurnAnswer
  <2>3. CASE ~open
    BY <1>17, <2>1, <2>3, BeginsQuiet DEF StartTurn
  <2> QED
    BY <2>2, <2>3
<1>18. CASE TurnStarted
  <2>1. "turn" \notin asked /\ UNCHANGED <<out, asked>>
    BY <1>0, <1>18 DEF Begins, TurnStarted, Settled, childVars
  <2>2. CASE req["turn"] = "ok"
    BY <1>0, <1>18, <2>1, <2>2, BeginsQuiet DEF Begins, TurnStarted
  <2>3. CASE req["turn"] # "ok"
    <3>1. pc'["run"] = "result"
      BY <1>0, <1>18, <2>3 DEF Types, TurnStarted, Actor
    <3> QED
      BY <1>0, <2>1, <3>1, BeginsOver
  <2> QED
    BY <2>2, <2>3
<1>19. CASE Finalize
  <2>1. req \in Reqs /\ "run" \in Actor
    BY <1>0 DEF Types, Reqs, Actor
  <2>2. "turn" \notin asked'
    BY <1>0, <1>19, <2>1, EndSessionRests DEF Begins, Finalize
  <2>3. pc'["run"] \in StopPC
    BY <1>0, <1>19 DEF Types, Finalize, EndSession, StopPC, Actor
  <2> QED
    BY <1>0, <1>19, <2>2, <2>3, BeginsOver DEF Finalize
<1>20. CASE CancelReturns
  <2>1. Awaited("cancel") \in Reqs /\ Awaited("cancel")["turn"] = req["turn"] /\ "can" \in Actor
    BY <1>0 DEF Types, Awaited, Reqs, Actor, Request
  <2>2. pc'["run"] = pc["run"]
    BY <1>0, <1>20 DEF Types, CancelReturns, EndSession, Actor
  <2> QED
    BY <1>0, <1>20, <2>1, <2>2, BeginsRest, EndSessionRests DEF BeginRests, CancelReturns, runVars
<1>21. CASE Cancel
  <2>1. req \in Reqs /\ "can" \in Actor /\ "cancel" \in Request
    BY <1>0 DEF Types, Reqs, Actor, Request
  <2>2. pc'["run"] = pc["run"]
    BY <1>0, <1>21 DEF Types, Cancel, EndSession, Actor
  <2>3. req'["turn"] = req["turn"] /\ ("turn" \in asked' => "turn" \in asked)
    BY <1>0, <1>21, <2>1, EndSessionRests, SendIfOpenRests DEF Cancel
  <2> QED
    BY <1>0, <1>21, <2>2, <2>3, BeginsRest DEF BeginRests, Cancel
<1>22. CASE UNCHANGED vars
  BY <1>0, <1>22, BeginsRest DEF BeginRests, vars, childVars, runVars
<1> QED
  BY <1>1, <1>3, <1>4, <1>5, <1>6, <1>7, <1>8, <1>9, <1>10, <1>11, <1>12, <1>13, <1>14, <1>15, <1>16,
     <1>17, <1>18, <1>19, <1>20, <1>21, <1>22 DEF Next, AgentStep, DaemonStep, StreamStep, RunStep, Over

-----------------------------------------------------------------------------
(* Exits. *)

Listening == strm \in {"woken", "reading", "wait"} \/ pc["run"] \in Early

LEMMA ExitsRest ==
    ASSUME Exits, UNCHANGED <<child, exited, purpose, failure>>, Listening' => Listening,
           pc'["run"] = "off" => pc["run"] = "off"
    PROVE  Exits'
BY DEF Exits, Listening

LEMMA ExitsStep ==
    ASSUME IInv, [Next]_vars
    PROVE  Exits'
<1>0. Types /\ Streams /\ Exits /\ NoLostWakeup
  BY DEF IInv
<1>1. ASSUME NEW r \in Request, Answer(r) PROVE Exits'
  BY <1>0, <1>1, ExitsRest DEF Listening, Answer, ctxVars, strmVars, runVars
<1>2. ASSUME NEW t \in Turn, Finish(t) PROVE Exits'
  BY <1>0, <1>2, ExitsRest DEF Listening, Finish, ctxVars, strmVars, runVars
<1>3. CASE Speak
  BY <1>0, <1>3, ExitsRest DEF Listening, Speak, ctxVars, strmVars, runVars
<1>4. CASE Die
  BY <1>0, <1>4 DEF Exits, Die, ctxVars, strmVars, runVars
<1>5. CASE Read
  <2>1. failure' = failure \/ failure' = "runner_error"
    BY <1>5 DEF Read, HandleLine, HandleAnswer, HandleNote, HandleAsk, HandleGarbage
  <2>2. Listening' => Listening
    BY <1>5 DEF Listening, Read, HandleLine, HandleAnswer, HandleNote, HandleAsk, HandleGarbage, Wake
  <2> QED
    BY <1>0, <1>5, <2>1, <2>2 DEF Exits, Listening, Read, runVars
<1>6. CASE HandleExit
  BY <1>0, <1>6 DEF Streams, Exits, HandleExit, Heard, Wake, runVars, Early
<1>7. CASE HandleSpawnError
  BY <1>0, <1>7 DEF Exits, HandleSpawnError
<1>8. CASE StreamTimesOut
  BY <1>0, <1>8 DEF Streams, Exits, NoLostWakeup, StreamTimesOut, Wake, childVars, runVars
<1>9. ASSUME NEW r \in Request, RequestTimesOut(r) PROVE Exits'
  BY <1>0, <1>9, ExitsRest DEF Listening, RequestTimesOut, ctxVars, strmVars, runVars
<1>10. ASSUME NEW a \in Actor, EndStep(a) PROVE Exits'
  <2>1. UNCHANGED <<child, exited, purpose, failure, strm>>
    BY <1>10 DEF EndStep, StopAnswered, StopRefused, StopTimesOut, TermExits, TermTimesOut, KillTimesOut,
                 childVars, ctxVars, strmVars, runVars
  <2>2. pc' = pc \/ \E w \in StopPC : pc' = [pc EXCEPT ![a] = w]
    BY <1>10 DEF EndStep, StopAnswered, StopRefused, StopTimesOut, TermExits, TermTimesOut, KillTimesOut,
                 Terminate, Ends, StopPC
  <2>3. pc'["run"] = pc["run"] \/ pc'["run"] \in StopPC
    BY <1>0, <2>2 DEF Types, Actor
  <2> QED
    BY <1>0, <2>1, <2>3, ExitsRest DEF Listening, StopPC, Early
<1>11. CASE StreamReads \/ StreamInterrupted \/ StreamFails
  <2>1. strm # "idle" => pc["run"] \notin Early
    BY <1>0 DEF Streams
  <2>2. UNCHANGED <<child, exited, purpose, pc>>
    BY <1>11 DEF StreamReads, StreamInterrupted, StreamFails, childVars, runVars
  <2>3. strm # "idle" /\ pc["run"] \notin Early
    BY <1>11, <2>1 DEF StreamReads, StreamInterrupted, StreamFails
  <2>4. strm' \in {"done", "idle"} \/ (UNCHANGED failure /\ Listening)
    BY <1>11 DEF StreamReads, StreamInterrupted, StreamFails, Returns, Listening
  <2> QED
    BY <1>0, <2>2, <2>3, <2>4 DEF Exits, Listening, Early
<1>12. CASE StreamInterrupts \/ StreamWaits
  BY <1>0, <1>12, ExitsRest DEF Listening, StreamInterrupts, StreamWaits, childVars, ctxVars, runVars
<1>13. CASE Launch
  BY <1>0, <1>13 DEF Types, Exits, Launch, Actor
<1>14. CASE Initialized \/ Threaded \/ AbortEnds \/ StartTurn \/ TurnStarted
  <2>1. UNCHANGED <<child, exited, purpose, failure, strm>>
    BY <1>14 DEF Initialized, Threaded, AbortEnds, StartTurn, TurnStarted, childVars, ctxVars, strmVars, runVars
  <2>2. pc["run"] \in Early \/ pc["run"] = "aborting"
    BY <1>14 DEF Initialized, Threaded, AbortEnds, StartTurn, TurnStarted, Early
  <2>3. pc'["run"] # "off" /\ (pc["run"] = "aborting" => pc'["run"] = "over")
    BY <1>0, <1>14 DEF Types, Initialized, Threaded, AbortEnds, StartTurn, TurnStarted, Abort, Actor
  <2> QED
    BY <1>0, <2>1, <2>2, <2>3, ExitsRest DEF Listening, Early
<1>15. CASE Stream
  BY <1>0, <1>15, ExitsRest DEF Types, Listening, Stream, childVars, ctxVars, runVars, Early, Actor
<1>16. CASE StreamReturns
  <2>1. UNCHANGED <<child, exited, purpose, failure>> /\ strm' \in {strm, "idle"}
    BY <1>16 DEF StreamReturns, Forgotten, childVars, ctxVars, strmVars
  <2>2. CASE pc' = [pc EXCEPT !["run"] = "result"]
    BY <1>0, <2>1, <2>2, ExitsRest DEF Types, Listening, Early, Actor
  <2>3. CASE result'[turn] = "completed"
    <3>1. ~exited /\ pc'["run"] # "off"
      BY <1>0, <1>16, <2>3 DEF Types, Streams, StreamReturns, GoesOn, IInv, Turns, Actor
    <3> QED
      BY <1>0, <2>1, <3>1 DEF Exits
  <2> QED
    BY <1>16, <2>2, <2>3 DEF StreamReturns, GoesOn
<1>17. CASE Finalize
  <2>1. pc'["run"] \in StopPC
    BY <1>0, <1>17 DEF Types, Finalize, EndSession, StopPC, Actor
  <2>2. strm = "idle" \/ UNCHANGED failure
    BY <1>17 DEF Finalize
  <2> QED
    BY <1>0, <1>17, <2>1, <2>2 DEF Exits, Finalize, strmVars, runVars, StopPC, Early
<1>18. CASE CancelReturns \/ Cancel
  <2>1. pc'["run"] = pc["run"]
    BY <1>0, <1>18 DEF Types, CancelReturns, Cancel, EndSession, Actor
  <2> QED
    BY <1>0, <1>18, <2>1, ExitsRest DEF Listening, CancelReturns, Cancel, ctxVars, strmVars, runVars
<1>19. CASE UNCHANGED vars
  BY <1>0, <1>19, ExitsRest DEF Listening, vars, childVars, ctxVars, strmVars, runVars
<1> QED
  BY <1>1, <1>2, <1>3, <1>4, <1>5, <1>6, <1>7, <1>8, <1>9, <1>10, <1>11, <1>12, <1>13, <1>14, <1>15,
     <1>16, <1>17, <1>18, <1>19 DEF Next, AgentStep, DaemonStep, StreamStep, RunStep, Over

-----------------------------------------------------------------------------
(* Reports. *)

\* What a step may do to an actor's report: nothing, or give it while the session ends.
Reported(a, how) == report' = [report EXCEPT ![a] = how] /\ pc' = [pc EXCEPT ![a] = "over"]

LEMMA ReportsRest ==
    ASSUME Types, Reports, child = "dead" => child' = "dead", UNCHANGED report,
           UNCHANGED pc \/ \E a \in Actor : pc[a] # "over" /\ \E w \in RunPC \cup StopPC : pc' = [pc EXCEPT ![a] = w]
    PROVE  Reports'
BY DEF Types, Reports, NoOrphan

LEMMA ReportsGiven ==
    ASSUME Types, Reports, UNCHANGED child, NEW a \in Actor, NEW how \in {"stopped", "terminated", "failed"},
           Reported(a, how), how # "failed" => child = "dead"
    PROVE  Reports'
BY DEF Types, Reports, NoOrphan, Reported

\* The end of a session gives a report only when the session was gone already.
LEMMA ReportsEnding ==
    ASSUME Types, Reports, UNCHANGED child, NEW a \in Actor, pc[a] # "over", NEW q, EndSession(a, q)
    PROVE  Reports'
<1>1. CASE open
  BY <1>1, ReportsRest DEF EndSession, StopPC
<1>2. CASE ~open
  BY <1>2, ReportsGiven DEF EndSession, Reported
<1> QED
  BY <1>1, <1>2

LEMMA TerminateReports ==
    ASSUME Types, Reports, Exits, UNCHANGED child, NEW a \in Actor, pc[a] # "over", Terminate(a)
    PROVE  Reports'
<1>1. CASE ~open
  BY <1>1, ReportsGiven DEF Terminate, Reported
<1>2. CASE open /\ exited
  BY <1>2, ReportsGiven DEF Terminate, Ends, Reported, Exits
<1>3. CASE open /\ ~exited
  BY <1>3, ReportsRest DEF Terminate, StopPC
<1> QED
  BY <1>1, <1>2, <1>3

LEMMA ReportsStep ==
    ASSUME IInv, [Next]_vars
    PROVE  Reports'
<1>0. Types /\ Exits /\ Reports
  BY DEF IInv
<1>1. ASSUME NEW r \in Request, Answer(r) \/ RequestTimesOut(r) PROVE Reports'
  BY <1>0, <1>1, ReportsRest DEF Answer, RequestTimesOut
<1>2. ASSUME NEW t \in Turn, Finish(t) PROVE Reports'
  BY <1>0, <1>2, ReportsRest DEF Finish
<1>3. CASE Speak \/ Die \/ Read \/ HandleExit \/ HandleSpawnError \/ StreamTimesOut
  BY <1>0, <1>3, ReportsRest DEF Speak, Die, Read, HandleExit, HandleSpawnError, StreamTimesOut, childVars
<1>4. ASSUME NEW a \in Actor, EndStep(a) PROVE Reports'
  <2>1. UNCHANGED child /\ pc[a] # "over"
    BY <1>4 DEF EndStep, StopAnswered, StopRefused, StopTimesOut, TermExits, TermTimesOut, KillTimesOut, childVars
  <2>2. CASE StopAnswered(a)
    <3>1. CASE exited
      BY <1>0, <2>1, <2>2, <3>1, ReportsGiven DEF StopAnswered, Ends, Reported, Exits
    <3>2. CASE ~exited
      BY <1>0, <2>1, <2>2, <3>2, ReportsRest DEF StopAnswered, StopPC
    <3> QED
      BY <3>1, <3>2
  <2>3. CASE StopRefused(a) \/ StopTimesOut(a)
    BY <1>0, <2>1, <2>3, TerminateReports DEF StopRefused, StopTimesOut
  <2>4. CASE TermExits(a)
    BY <1>0, <2>1, <2>4, ReportsGiven DEF TermExits, Ends, Reported, Exits
  <2>5. CASE TermTimesOut(a)
    BY <1>0, <2>1, <2>5, ReportsRest DEF TermTimesOut, StopPC
  <2>6. CASE KillTimesOut(a)
    BY <1>0, <2>1, <2>6, ReportsGiven DEF KillTimesOut, Ends, Reported
  <2> QED
    BY <1>4, <2>2, <2>3, <2>4, <2>5, <2>6 DEF EndStep
<1>5. CASE StreamStep
  BY <1>0, <1>5, ReportsRest
     DEF StreamStep, StreamReads, StreamInterrupts, StreamInterrupted, StreamFails, StreamWaits, childVars
<1>6. CASE Launch \/ Initialized \/ Threaded \/ AbortEnds \/ StartTurn \/ TurnStarted \/ Stream \/ StreamReturns
  <2>1. UNCHANGED report /\ pc["run"] # "over" /\ "run" \in Actor
    BY <1>6 DEF Launch, Initialized, Threaded, AbortEnds, StartTurn, TurnStarted, Stream, StreamReturns, Actor
  <2>2. \E w \in RunPC \cup StopPC : pc' = [pc EXCEPT !["run"] = w]
    BY <1>6 DEF Launch, Initialized, Threaded, Abort, AbortEnds, StartTurn, TurnStarted, Stream, StreamReturns,
                GoesOn, RunPC, StopPC
  <2>3. child = "dead" => child' = "dead"
    BY <1>0, <1>6 DEF Exits, Launch, Initialized, Threaded, AbortEnds, StartTurn, TurnStarted, Stream,
                      StreamReturns, childVars
  <2> QED
    BY <1>0, <2>1, <2>2, <2>3, ReportsRest
<1>7. CASE Finalize
  BY <1>0, <1>7, ReportsEnding DEF Finalize, Actor
<1>8. CASE CancelReturns
  BY <1>0, <1>8, ReportsEnding DEF CancelReturns, Actor
<1>9. CASE Cancel
  <2>1. UNCHANGED child /\ pc["can"] # "over" /\ "can" \in Actor
    BY <1>9 DEF Cancel, Actor
  <2>2. CASE KnownTurn = 0
    BY <1>0, <1>9, <2>1, <2>2, ReportsEnding DEF Cancel
  <2>3. CASE KnownTurn # 0
    BY <1>0, <1>9, <2>1, <2>3, ReportsRest DEF Cancel, RunPC
  <2> QED
    BY <2>2, <2>3
<1>10. CASE UNCHANGED vars
  BY <1>0, <1>10, ReportsRest DEF vars, childVars
<1> QED
  BY <1>1, <1>2, <1>3, <1>4, <1>5, <1>6, <1>7, <1>8, <1>9, <1>10
     DEF Next, AgentStep, DaemonStep, RunStep, Over

-----------------------------------------------------------------------------
(* Wake-ups. *)

LEMMA WakeupRest ==
    ASSUME NoLostWakeup, strm' = "wait" => strm = "wait" /\ UNCHANGED <<exited, input, failure, notes, turn>>
    PROVE  NoLostWakeup'
BY DEF NoLostWakeup, HasMatching, Matches

LEMMA WakeupStep ==
    ASSUME IInv, [Next]_vars
    PROVE  NoLostWakeup'
<1>0. Streams /\ Exits /\ NoLostWakeup
  BY DEF IInv
<1>1. ASSUME NEW r \in Request, Answer(r) \/ RequestTimesOut(r) PROVE NoLostWakeup'
  BY <1>0, <1>1, WakeupRest DEF Answer, RequestTimesOut, ctxVars, strmVars, runVars
<1>2. ASSUME NEW t \in Turn, Finish(t) PROVE NoLostWakeup'
  BY <1>0, <1>2, WakeupRest DEF Finish, ctxVars, strmVars, runVars
<1>3. CASE Speak \/ Die
  BY <1>0, <1>3, WakeupRest DEF Speak, Die, ctxVars, strmVars, runVars
<1>4. CASE Read
  BY <1>0, <1>4, WakeupRest DEF Read, HandleLine, HandleAnswer, HandleNote, HandleAsk, HandleGarbage, Wake, runVars
<1>5. CASE HandleExit \/ HandleSpawnError \/ StreamTimesOut
  BY <1>0, <1>5, WakeupRest DEF HandleExit, HandleSpawnError, StreamTimesOut, Wake
<1>6. ASSUME NEW a \in Actor, EndStep(a) PROVE NoLostWakeup'
  BY <1>0, <1>6, WakeupRest
     DEF EndStep, StopAnswered, StopRefused, StopTimesOut, TermExits, TermTimesOut, KillTimesOut,
         ctxVars, strmVars, runVars
<1>7. CASE StreamReads \/ StreamInterrupts \/ StreamInterrupted \/ StreamFails
  BY <1>0, <1>7, WakeupRest DEF StreamReads, StreamInterrupts, StreamInterrupted, StreamFails, Returns
<1>8. CASE StreamWaits
  <2>1. ~exited
    BY <1>0, <1>8 DEF Streams, Exits, StreamWaits
  <2> QED
    BY <1>8, <2>1 DEF NoLostWakeup, HasMatching, Matches, StreamWaits, ctxVars, runVars
<1>9. CASE Launch \/ Initialized \/ Threaded \/ AbortEnds \/ TurnStarted \/ Stream \/ StreamReturns
  BY <1>0, <1>9, WakeupRest
     DEF Launch, Initialized, Threaded, AbortEnds, TurnStarted, Stream, StreamReturns, Forgotten,
         ctxVars, strmVars, runVars
<1>10. CASE StartTurn
  BY <1>0, <1>10, WakeupRest DEF Streams, StartTurn, strmVars, Early
<1>11. CASE Finalize \/ CancelReturns \/ Cancel \/ UNCHANGED vars
  BY <1>0, <1>11, WakeupRest DEF Finalize, CancelReturns, Cancel, vars, ctxVars, strmVars, runVars
<1> QED
  BY <1>1, <1>2, <1>3, <1>4, <1>5, <1>6, <1>7, <1>8, <1>9, <1>10, <1>11
     DEF Next, AgentStep, DaemonStep, StreamStep, RunStep, Over

-----------------------------------------------------------------------------
LEMMA IInvInit ==
    ASSUME Init
    PROVE  IInv
<1>1. Types
  <2>1. agent \in [Turn -> Work] /\ result \in [Turn -> Outcome]
    BY DEF Init, Work, Outcome
  <2>2. pc \in [Actor -> RunPC \cup StopPC] /\ strm \in Strm /\ sres \in Outcome
    BY DEF Init, RunPC, Strm, Outcome
  <2>3. lines \in 0..MaxLines /\ turn \in 0..MaxTurns
    BY Constants DEF Init
  <2> QED
    BY <2>1, <2>2, <2>3 DEF Init, Types
<1>2. Turns /\ Streams /\ Exits
  BY Constants DEF Init, Turns, Streams, Exits, Actor, Early, Turn
<1>3. Lines
  BY EmptySeq DEF Init, Lines
<1>4. Begins
  BY DEF Init, Begins, TurnAnswer, NoTurnAnswer, Actor, Request
<1>5. Reports /\ NoLostWakeup
  BY DEF Init, Reports, NoOrphan, NoLostWakeup
<1> QED
  BY <1>1, <1>2, <1>3, <1>4, <1>5 DEF IInv

LEMMA IInvAlways == Spec => []IInv
<1>1. Init => IInv
  BY IInvInit
<1>2. IInv /\ [Next]_vars => IInv'
  BY TypeStep, TurnsStep, BeginsStep, LinesStep, StreamsStep, ExitsStep, ReportsStep, WakeupStep DEF IInv
<1> QED
  BY <1>1, <1>2, PTL DEF Spec

(* Every variable keeps its type: what the app server writes is parsed as  *)
(* answers, notifications, requests or garbage, and the stream queues      *)
(* notifications only.                                                     *)
THEOREM TypeCorrect == Spec => []TypeOK
<1>1. IInv => TypeOK
  <2> SUFFICES ASSUME IInv PROVE TypeOK
    OBVIOUS
  <2>1. out \in Seq(Line) /\ notes \in Seq(Note)
    BY SeqMonotonic DEF IInv, Lines, TrueLine, TrueNote
  <2> QED
    BY <2>1 DEF IInv, Types, TypeOK
<1> QED
  BY <1>1, IInvAlways, PTL

(* No wake-up is lost: whenever stream() waits, nothing has happened that  *)
(* would end the turn, so that every event that does ends the wait.        *)
THEOREM WakeupsAreNotLost == Spec => []NoLostWakeup
<1>1. IInv => NoLostWakeup
  BY DEF IInv
<1> QED
  BY <1>1, IInvAlways, PTL

(* No orphan: an actor that reports the session stopped or the process     *)
(* terminated has seen the app server's exit.                              *)
THEOREM NoOrphans == Spec => []NoOrphan
<1>1. IInv => NoOrphan
  BY DEF IInv, Reports
<1> QED
  BY <1>1, IInvAlways, PTL

-----------------------------------------------------------------------------
(* The contract of the runner, step by step. *)

LEMMA ContractInit ==
    ASSUME Init
    PROVE  Contract!Init
BY DEF Init, Contract!Init, Contract!Turn, Turn

\* A step that changes nothing of what the contract speaks of.
Unseen == UNCHANGED <<agent, result, cancelled, child, report>>

LEMMA UnseenStutters ==
    ASSUME Unseen
    PROVE  UNCHANGED Contract!vars
BY DEF Unseen, Contract!vars

LEMMA UnseenChild ==
    ASSUME UNCHANGED <<agent, result, cancelled, report>>, child # "dead", child' # "dead"
    PROVE  UNCHANGED Contract!vars
BY DEF Contract!vars

\* An actor reports how it ended the session.
LEMMA ContractReported ==
    ASSUME IInv, UNCHANGED <<agent, result, cancelled, child>>,
           NEW a \in Actor, pc[a] # "over", NEW how \in {"stopped", "terminated", "failed"},
           report' = [report EXCEPT ![a] = how], how # "failed" => child = "dead"
    PROVE  Contract!Next
<1>1. report[a] = "none"
  BY DEF IInv, Types, Reports
<1>2. Contract!EndSession(a)
  BY <1>1 DEF Contract!EndSession, Contract!Gone
<1> QED
  BY <1>2 DEF Contract!Next

LEMMA ContractEnding ==
    ASSUME IInv, UNCHANGED <<agent, result, cancelled, child>>,
           NEW a \in Actor, pc[a] # "over", NEW q, EndSession(a, q)
    PROVE  [Contract!Next]_Contract!vars
<1>1. CASE open
  BY <1>1, UnseenStutters DEF EndSession, Unseen
<1>2. CASE ~open
  BY <1>2, ContractReported DEF EndSession
<1> QED
  BY <1>1, <1>2

LEMMA ContractTerminates ==
    ASSUME IInv, UNCHANGED <<agent, result, cancelled, child>>, NEW a \in Actor, pc[a] # "over", Terminate(a)
    PROVE  [Contract!Next]_Contract!vars
<1>1. CASE ~open
  BY <1>1, ContractReported DEF Terminate
<1>2. CASE open /\ exited
  BY <1>2, ContractReported DEF Terminate, Ends, IInv, Exits
<1>3. CASE open /\ ~exited
  BY <1>3, UnseenStutters DEF Terminate, Unseen
<1> QED
  BY <1>1, <1>2, <1>3

\* A report of the current turn is the contract's: it is the first one, and a completion is
\* the agent's and was not cancelled.
LEMMA ContractStreamReturns ==
    ASSUME IInv, StreamReturns
    PROVE  Contract!Next
<1>0. Types /\ Turns /\ Streams
  BY DEF IInv
<1>1. turn \in Contract!Turn /\ result[turn] = "none"
  BY <1>0 DEF Turns, StreamReturns, Turn, Contract!Turn
<1>2. PICK o \in Outcome : result' = [result EXCEPT ![turn] = o]
                           /\ o # "none" /\ (o = "completed" => agent[turn] = "completed" /\ turn \notin cancelled)
  <2>1. CASE strm = "done"
    <3>1. sres \in Outcome \ {"none"} /\ (sres = "completed" => agent[turn] = "completed")
      BY <1>0, <2>1 DEF Types, Streams
    <3>2. CASE turn \in cancelled /\ sres = "completed"
      BY <2>1, <3>2 DEF StreamReturns, Outcome
    <3>3. CASE ~(turn \in cancelled /\ sres = "completed")
      BY <2>1, <3>1, <3>3 DEF StreamReturns
    <3> QED
      BY <3>2, <3>3
  <2>2. CASE strm # "done"
    BY <2>2 DEF StreamReturns, Outcome
  <2> QED
    BY <2>1, <2>2
<1>3. UNCHANGED <<agent, cancelled, child, report>>
  BY DEF StreamReturns, childVars
<1>4. Contract!Report(turn)
  <2>1. CASE o = "completed"
    BY <1>1, <1>2, <1>3, <2>1 DEF Contract!Report
  <2>2. CASE o # "completed"
    <3>1. o \in Contract!Failure
      BY <1>2, <2>2 DEF Outcome, Contract!Failure
    <3> QED
      BY <1>1, <1>2, <1>3, <3>1 DEF Contract!Report
  <2> QED
    BY <2>1, <2>2
<1> QED
  BY <1>1, <1>4 DEF Contract!Next

LEMMA ContractStep ==
    ASSUME IInv, [Next]_vars
    PROVE  [Contract!Next]_Contract!vars
<1>0. Types /\ Turns /\ Begins /\ Exits
  BY DEF IInv
<1>1. ASSUME NEW r \in Request, Answer(r) PROVE [Contract!Next]_Contract!vars
  <2> PICK ok \in BOOLEAN : agent' = IF r = "turn" /\ ok THEN [agent EXCEPT ![turn] = "working"] ELSE agent
    BY <1>1 DEF Answer
  <2>1. UNCHANGED <<result, cancelled, child, report>> /\ child # "dead"
    BY <1>1 DEF Answer, runVars
  <2>2. CASE r = "turn" /\ ok
    <3>1. turn \in Contract!Turn /\ agent[turn] = "none"
      BY <1>0, <1>1, <2>2 DEF Begins, Turns, Answer, Turn, Contract!Turn
    <3>2. \A u \in Contract!Turn : u < turn => result[u] = "completed"
      BY <1>0 DEF Turns, Turn, Contract!Turn
    <3>3. Contract!Begin(turn)
      BY <2>1, <2>2, <3>1, <3>2 DEF Contract!Begin
    <3> QED
      BY <3>1, <3>3 DEF Contract!Next
  <2>3. CASE ~(r = "turn" /\ ok)
    BY <2>1, <2>3, UnseenStutters DEF Unseen
  <2> QED
    BY <2>2, <2>3
<1>2. ASSUME NEW t \in Turn, Finish(t) PROVE [Contract!Next]_Contract!vars
  <2>1. Contract!Finish(t)
    BY <1>2 DEF Finish, Final, runVars, Contract!Finish
  <2> QED
    BY <2>1 DEF Contract!Next, Contract!Turn, Turn
<1>3. CASE Die
  <2>1. Contract!Die
    BY <1>3 DEF Die, runVars, Contract!Die
  <2> QED
    BY <2>1 DEF Contract!Next
<1>4. CASE Speak \/ Read \/ HandleExit \/ StreamTimesOut \/ StreamStep
  BY <1>4, UnseenStutters
     DEF Unseen, Speak, Read, HandleExit, StreamTimesOut, StreamStep, StreamReads, StreamInterrupts,
         StreamInterrupted, StreamFails, StreamWaits, childVars, runVars
<1>5. ASSUME NEW r \in Request, RequestTimesOut(r) PROVE [Contract!Next]_Contract!vars
  BY <1>5, UnseenStutters DEF Unseen, RequestTimesOut, runVars
<1>6. CASE HandleSpawnError
  BY <1>6, UnseenChild DEF HandleSpawnError, runVars
<1>7. ASSUME NEW a \in Actor, EndStep(a) PROVE [Contract!Next]_Contract!vars
  <2>1. UNCHANGED <<agent, result, cancelled, child>> /\ pc[a] # "over"
    BY <1>7 DEF EndStep, StopAnswered, StopRefused, StopTimesOut, TermExits, TermTimesOut, KillTimesOut,
                childVars, runVars
  <2>2. CASE StopAnswered(a)
    <3>1. CASE exited
      BY <1>0, <2>1, <2>2, <3>1, ContractReported DEF StopAnswered, Ends, Exits
    <3>2. CASE ~exited
      BY <2>1, <2>2, <3>2, UnseenStutters DEF StopAnswered, Unseen
    <3> QED
      BY <3>1, <3>2
  <2>3. CASE StopRefused(a) \/ StopTimesOut(a)
    BY <2>1, <2>3, ContractTerminates DEF StopRefused, StopTimesOut
  <2>4. CASE TermExits(a)
    BY <1>0, <2>1, <2>4, ContractReported DEF TermExits, Ends, Exits
  <2>5. CASE TermTimesOut(a)
    BY <2>1, <2>5, UnseenStutters DEF TermTimesOut, Unseen
  <2>6. CASE KillTimesOut(a)
    BY <2>1, <2>6, ContractReported DEF KillTimesOut, Ends
  <2> QED
    BY <1>7, <2>2, <2>3, <2>4, <2>5, <2>6 DEF EndStep
<1>8. CASE Launch
  <2>1. child # "dead" /\ child' # "dead"
    BY <1>0, <1>8 DEF Exits, Launch
  <2> QED
    BY <1>8, <2>1, UnseenChild DEF Launch, runVars
<1>9. CASE Initialized \/ Threaded \/ AbortEnds \/ StartTurn \/ TurnStarted \/ Stream
  BY <1>9, UnseenStutters
     DEF Unseen, Initialized, Threaded, AbortEnds, StartTurn, TurnStarted, Stream, childVars, runVars
<1>10. CASE StreamReturns
  BY <1>10, ContractStreamReturns
<1>11. CASE Finalize
  BY <1>11, ContractEnding DEF Finalize, runVars, Actor
<1>12. CASE CancelReturns
  BY <1>12, ContractEnding DEF CancelReturns, runVars, Actor
<1>13. CASE Cancel
  <2>1. UNCHANGED <<agent, result, child>> /\ pc["can"] # "over" /\ "can" \in Actor
    BY <1>13 DEF Cancel, Actor
  <2>2. CASE KnownTurn = 0
    BY <1>13, <2>1, <2>2, ContractEnding DEF Cancel
  <2>3. CASE KnownTurn # 0
    <3>1. KnownTurn \in Contract!Turn
      BY <1>0, <1>13, <2>3, Constants DEF Types, Turns, Cancel, KnownTurn, Turn, Contract!Turn
    <3>2. Contract!Cancel(KnownTurn)
      BY <1>13, <2>1, <2>3 DEF Cancel, Contract!Cancel
    <3> QED
      BY <3>1, <3>2 DEF Contract!Next
  <2> QED
    BY <2>2, <2>3
<1>14. CASE UNCHANGED vars
  BY <1>14, UnseenStutters DEF Unseen, vars, childVars, runVars
<1> QED
  BY <1>1, <1>2, <1>3, <1>4, <1>5, <1>6, <1>7, <1>8, <1>9, <1>10, <1>11, <1>12, <1>13, <1>14
     DEF Next, AgentStep, DaemonStep, RunStep, Over

(* The session implements the runner's contract: a turn is reported        *)
(* completed only if the agent completed it and nobody cancelled it, a     *)
(* report is final, the next turn begins only after its predecessor was    *)
(* reported completed, and whoever reports the process gone is right.      *)
THEOREM ContractKept == Spec => KeepsContract
<1>1. Init => Contract!Init
  BY ContractInit
<1>2. IInv /\ [Next]_vars => [Contract!Next]_Contract!vars
  BY ContractStep
<1> QED
  BY <1>1, <1>2, IInvAlways, PTL DEF Spec, KeepsContract, Contract!Spec
=============================================================================
