--------------------------- MODULE RunnerContract ---------------------------
(***************************************************************************)
(* What a runner promises the daemon about one session with a coding       *)
(* agent, whatever the protocol between them (SPEC.md, section 16).        *)
(*                                                                         *)
(* The agent works on one turn at a time.  A turn is reported completed    *)
(* only if the agent completed it and nobody cancelled it, a report is     *)
(* final, the next turn begins only when its predecessor was reported      *)
(* completed, and whoever reports the agent's process gone tells the truth.*)
(***************************************************************************)
EXTENDS Naturals

CONSTANTS MaxTurns, \* bound: turns in a session (agent.max_turns)
          Actor     \* who may end the session

Turn    == 1..MaxTurns
Work    == {"none", "working", "completed", "failed"}
Failure == {"failed", "timed_out", "input_required", "runner_error", "cancelled"}
Outcome == {"none", "completed"} \cup Failure
Gone    == {"stopped", "terminated"}

VARIABLES agent,     \* what the agent makes of each turn
          result,    \* what the runner reports of each turn
          cancelled, \* the turns somebody cancelled
          alive,     \* the agent's process may be at work
          report     \* how each actor's attempt to end the session went
vars == <<agent, result, cancelled, alive, report>>

Init ==
    /\ agent = [t \in Turn |-> "none"]
    /\ result = [t \in Turn |-> "none"]
    /\ cancelled = {}
    /\ alive = TRUE
    /\ report = [a \in Actor |-> "none"]

Begin(t) ==
    /\ alive /\ agent[t] = "none"
    /\ \A u \in Turn : u < t => result[u] = "completed"
    /\ agent' = [agent EXCEPT ![t] = "working"]
    /\ UNCHANGED <<result, cancelled, alive, report>>

Finish(t) ==
    /\ alive /\ agent[t] = "working"
    /\ \E w \in {"completed", "failed"} : agent' = [agent EXCEPT ![t] = w]
    /\ UNCHANGED <<result, cancelled, alive, report>>

Cancel(t) ==
    /\ cancelled' = cancelled \cup {t}
    /\ UNCHANGED <<agent, result, alive, report>>

Report(t) ==
    /\ result[t] = "none"
    /\ \/ agent[t] = "completed" /\ t \notin cancelled /\ result' = [result EXCEPT ![t] = "completed"]
       \/ \E f \in Failure : result' = [result EXCEPT ![t] = f]
    /\ UNCHANGED <<agent, cancelled, alive, report>>

Die ==
    /\ alive /\ alive' = FALSE
    /\ UNCHANGED <<agent, result, cancelled, report>>

EndSession(a) ==
    /\ report[a] = "none"
    /\ \/ ~alive /\ \E g \in Gone : report' = [report EXCEPT ![a] = g]
       \/ report' = [report EXCEPT ![a] = "failed"]
    /\ UNCHANGED <<agent, result, cancelled, alive>>

Next ==
    \/ Die
    \/ \E t \in Turn : Begin(t) \/ Finish(t) \/ Cancel(t) \/ Report(t)
    \/ \E a \in Actor : EndSession(a)

Spec == Init /\ [][Next]_vars
=============================================================================
