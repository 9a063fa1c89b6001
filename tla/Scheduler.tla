----------------------------- MODULE Scheduler ------------------------------
(***************************************************************************)
(* How one daemon decides when to reconcile: the reconciliation scheduler  *)
(* (src/scheduler.js), the webhook intake that wakes it (src/server.js)    *)
(* and the wiring between the two (src/daemon.js).                         *)
(*                                                                         *)
(* JavaScript runs one callback at a time, so an action is a callback and  *)
(* every promise reaction it sets off.  A promise that rejects with nobody *)
(* handling it ends the process, so the model follows who waits for each   *)
(* tick.  A tick's reason only names it in the snapshot and is left out;   *)
(* so is what a tick does.                                                 *)
(***************************************************************************)
EXTENDS Integers, Sequences

CONSTANTS Event,           \* webhook event ids
          Ignored,         \* the events classifyWebhookEvent ignores
          CacheSize,       \* maxSize of the recent event cache
          HintLimit,       \* limit of the hint queue
          MaxDeliveries    \* bound: webhook requests in a behaviour

ASSUME SchedulerAssumption ==
    /\ Ignored \subseteq Event
    /\ CacheSize \in Nat \ {0}
    /\ HintLimit \in Nat \ {0}
    /\ MaxDeliveries \in Nat

VARIABLES
    started,      \* the scheduler exists and start() was called
    stopped,      \* stop() was called
    running,      \* a tick is running, as far as the scheduler knows
    pending,      \* pendingReason is set
    timer,        \* a timeout is set
    ticks,        \* who waits for each call of runOnce that has not settled
    joiners,      \* who else waits for the tick that is running
    queue,        \* the webhook hints
    seen,         \* the recent webhook event cache, oldest first
    deliveries,   \* webhook requests so far
    handed,       \* history: the deliveries whose hint a tick was given
    alive         \* the process has not died

tickVars   == <<running, pending, timer, ticks, joiners>>
intakeVars == <<seen, deliveries>>
hintVars   == <<queue, handed>>
vars == <<started, stopped, tickVars, intakeVars, hintVars, alive>>

(***************************************************************************)
(* The callers of tickNow.  The timer's callback awaits the tick in a try  *)
(* block; a webhook's call is fire-and-forget.  Nobody waits for a tick    *)
(* that follows one that rejected.                                         *)
(***************************************************************************)
Caller == {"timer", "webhook"}
Waiter == Caller \cup {"nobody"}

Hint == [event : Event, delivery : Nat]   \* delivery: which webhook request

Deliveries(hints) == {hints[i].delivery : i \in DOMAIN hints}

Seen == {seen[i] : i \in DOMAIN seen}

Init ==
    /\ started = FALSE
    /\ stopped = FALSE
    /\ running = FALSE
    /\ pending = FALSE
    /\ timer = FALSE
    /\ ticks = <<>>
    /\ joiners = {}
    /\ queue = <<>>
    /\ seen = <<>>
    /\ deliveries = 0
    /\ handed = {}
    /\ alive = TRUE

-----------------------------------------------------------------------------
(***************************************************************************)
(* enqueue: beyond its limit the queue drops its oldest hint.              *)
(***************************************************************************)
Enqueue(hints, hint) ==
    LET longer == Append(hints, hint)
    IN  IF Len(longer) > HintLimit THEN Tail(longer) ELSE longer

(***************************************************************************)
(* runOnce up to its first await: it clears the timer and gives the tick   *)
(* the hints it drains from the queue.                                     *)
(***************************************************************************)
RunOnce(waiter, others, hints) ==
    /\ running' = TRUE
    /\ ticks' = Append(others, waiter)
    /\ joiners' = {}
    /\ handed' = handed \cup Deliveries(hints)

(* Slip: a tick is started although one is running. *)
TickNowOverlapping(caller, hints) ==
    \/ /\ stopped
       /\ UNCHANGED <<tickVars, handed>>
    \/ /\ ~stopped
       /\ RunOnce(caller, ticks, hints)
       /\ timer' = FALSE
       /\ UNCHANGED pending

(***************************************************************************)
(* tickNow: nothing once stopped; while a tick is running, one more is     *)
(* asked for; otherwise a tick starts.                                     *)
(***************************************************************************)
StartsTick == ~stopped /\ ~running

TickNow(caller, hints) ==
    \/ /\ stopped
       /\ UNCHANGED <<tickVars, handed>>
    \/ /\ ~stopped
       /\ running
       /\ pending' = TRUE
       /\ joiners' = joiners \cup {caller}
       /\ timer' = (timer /\ caller # "timer")
       /\ UNCHANGED <<running, ticks, handed>>
    \/ /\ StartsTick
       /\ RunOnce(caller, ticks, hints)
       /\ timer' = FALSE
       /\ UNCHANGED pending

-----------------------------------------------------------------------------
(***************************************************************************)
(* start, once validation and recovery are over: the first tick is         *)
(* scheduled at once or after an interval.                                 *)
(***************************************************************************)
Start ==
    /\ ~started
    /\ started' = TRUE
    /\ timer' = TRUE
    /\ UNCHANGED <<stopped, running, pending, ticks, joiners, intakeVars, hintVars, alive>>

TimerFires ==
    /\ timer
    /\ TickNow("timer", queue)
    /\ queue' = IF StartsTick THEN <<>> ELSE queue
    /\ UNCHANGED <<started, stopped, intakeVars, alive>>

(***************************************************************************)
(* The daemon's enqueueWebhookHint.  The scheduler's function returns      *)
(* nothing, so the `??' after it puts the hint into the same queue again,  *)
(* behind the tick it may have started.                                    *)
(***************************************************************************)
EnqueueWebhookHint(hint) ==
    \/ /\ ~started
       /\ queue' = Enqueue(queue, hint)
       /\ UNCHANGED <<tickVars, handed>>
    \/ /\ started
       /\ LET hints == Enqueue(queue, hint)
          IN  /\ TickNow("webhook", hints)
              /\ queue' = Enqueue(IF StartsTick THEN <<>> ELSE hints, hint)

(***************************************************************************)
(* add: the cache drops its oldest event beyond its size.                  *)
(***************************************************************************)
Remember(event) ==
    LET longer == Append(seen, event)
    IN  seen' = IF Len(longer) > CacheSize THEN Tail(longer) ELSE longer

(***************************************************************************)
(* handleWebhook, from the look into the cache to the answer: nothing is   *)
(* awaited in between.                                                     *)
(***************************************************************************)
Webhook(event) ==
    /\ deliveries < MaxDeliveries
    /\ deliveries' = deliveries + 1
    /\ UNCHANGED <<started, stopped, alive>>
    /\ \/ /\ event \in Seen
          /\ UNCHANGED <<tickVars, hintVars, seen>>
       \/ /\ event \in Ignored \ Seen
          /\ Remember(event)
          /\ UNCHANGED <<tickVars, hintVars>>
       \/ /\ event \notin Ignored \cup Seen
          /\ Remember(event)
          /\ EnqueueWebhookHint([event |-> event, delivery |-> deliveries + 1])

(* prune: an event older than ttlMs leaves the cache. *)
EventExpires ==
    /\ seen # <<>>
    /\ seen' = Tail(seen)
    /\ UNCHANGED <<started, stopped, tickVars, deliveries, hintVars, alive>>

-----------------------------------------------------------------------------
(* Slip: a tick asked for while one was running is left to the interval. *)
FinallyNotChained(waiter, caught) ==
    /\ running' = FALSE
    /\ ticks' = Tail(ticks)
    /\ joiners' = {}
    /\ timer' = (started /\ ~stopped)
    /\ pending' = FALSE
    /\ UNCHANGED hintVars

(* Slip: the next interval is scheduled only by the catch block. *)
FinallyNoInterval(waiter, caught) ==
    \/ /\ pending /\ ~stopped
       /\ pending' = FALSE
       /\ RunOnce(waiter, Tail(ticks), queue)
       /\ queue' = <<>>
       /\ timer' = caught
    \/ /\ ~(pending /\ ~stopped)
       /\ running' = FALSE
       /\ ticks' = Tail(ticks)
       /\ joiners' = {}
       /\ timer' = (caught /\ started /\ ~stopped)
       /\ UNCHANGED <<pending, hintVars>>

(***************************************************************************)
(* The finally block of runOnce: a tick asked for meanwhile follows at     *)
(* once, otherwise the next interval is scheduled.  `caught' says that the *)
(* timer's catch block, which schedules an interval too, runs after it.    *)
(***************************************************************************)
Finally(waiter, caught) ==
    \/ /\ pending /\ ~stopped
       /\ pending' = FALSE
       /\ RunOnce(waiter, Tail(ticks), queue)
       /\ queue' = <<>>
       /\ timer' = caught
    \/ /\ ~(pending /\ ~stopped)
       /\ running' = FALSE
       /\ ticks' = Tail(ticks)
       /\ joiners' = {}
       /\ timer' = (started /\ ~stopped)
       /\ UNCHANGED <<pending, hintVars>>

Waiters == {Head(ticks)} \cup joiners

(***************************************************************************)
(* The tick and its snapshot succeed.  Those who joined it now wait for    *)
(* the tick that follows.                                                  *)
(***************************************************************************)
TickResolves ==
    /\ ticks # <<>>
    /\ Finally(IF "webhook" \in joiners THEN "webhook" ELSE "timer", FALSE)
    /\ UNCHANGED <<started, stopped, intakeVars, alive>>

(* The tick or its snapshot throws, and only the timer waits for it. *)
TickRejects ==
    /\ ticks # <<>>
    /\ Waiters = {"timer"}
    /\ Finally("nobody", ~stopped)
    /\ UNCHANGED <<started, stopped, intakeVars, alive>>

(* The tick throws and a rejection goes unhandled: node ends the process. *)
TickRejectsUnhandled ==
    /\ ticks # <<>>
    /\ Waiters # {"timer"}
    /\ alive' = FALSE
    /\ UNCHANGED <<started, stopped, tickVars, intakeVars, hintVars>>

(***************************************************************************)
(* stop({ wait: false }): the running tick is left to end by itself.       *)
(***************************************************************************)
Stop ==
    /\ started /\ ~stopped
    /\ stopped' = TRUE
    /\ timer' = FALSE
    /\ UNCHANGED <<started, running, pending, ticks, joiners, intakeVars, hintVars, alive>>

TickSettles == TickResolves \/ TickRejects \/ TickRejectsUnhandled

Next ==
    /\ alive
    /\ \/ Start
       \/ TimerFires
       \/ \E event \in Event : Webhook(event)
       \/ EventExpires
       \/ TickSettles
       \/ Stop

(***************************************************************************)
(* The daemon gets through its startup, timeouts fire and every tick       *)
(* settles, one way or the other.  Webhooks, expiry and stop() are up to   *)
(* the environment.                                                        *)
(***************************************************************************)
Fairness ==
    /\ WF_vars(alive /\ Start)
    /\ WF_vars(alive /\ TimerFires)
    /\ WF_vars(alive /\ TickSettles)

Spec == Init /\ [][Next]_vars /\ Fairness

-----------------------------------------------------------------------------
(***************************************************************************)
(* Every variable stays in its type, and queue and cache within their      *)
(* limits.                                                                 *)
(***************************************************************************)
TypeOK ==
    /\ started \in BOOLEAN
    /\ stopped \in BOOLEAN
    /\ running \in BOOLEAN
    /\ pending \in BOOLEAN
    /\ timer \in BOOLEAN
    /\ ticks \in Seq(Waiter)
    /\ joiners \in SUBSET Caller
    /\ queue \in Seq(Hint) /\ Len(queue) <= HintLimit
    /\ seen \in Seq(Event) /\ Len(seen) <= CacheSize
    /\ deliveries \in Nat
    /\ handed \in SUBSET Nat
    /\ alive \in BOOLEAN

(***************************************************************************)
(* SPEC.md:1267, "MUST suppress overlapping ticks": the timer, webhooks,   *)
(* the chained tick and the catch block never have two ticks running.      *)
(***************************************************************************)
NoOverlap == Len(ticks) <= 1

(***************************************************************************)
(* No lost wakeup: where a tick ends and none follows it, every hint left  *)
(* in the queue is one that a tick has been given already.                 *)
(***************************************************************************)
TickLeavesNoNewHint ==
    [][ticks # <<>> /\ ticks' = <<>> /\ ~stopped
          => Deliveries(queue') \subseteq handed']_vars

(***************************************************************************)
(* While the process lives and is not stopped, ticks go on for ever,       *)
(* whether they succeed or fail and whoever asked for them.                *)
(***************************************************************************)
PollingUnlessDead == []<>(alive /\ ticks # <<>>) \/ <>(stopped \/ ~alive)

-----------------------------------------------------------------------------
(* What SPEC.md says and the code does not keep. *)

(***************************************************************************)
(* SPEC.md:1266, polling "MUST repeat at `polling.interval_ms`": a daemon  *)
(* that is not stopped goes on polling.                                    *)
(***************************************************************************)
PollingRepeats == []<>(alive /\ ticks # <<>>) \/ <>stopped

=============================================================================
