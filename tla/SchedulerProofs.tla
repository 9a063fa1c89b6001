--------------------------- MODULE SchedulerProofs ---------------------------
(***************************************************************************)
(* Proofs about Scheduler, for any events, limits and number of            *)
(* deliveries: the types, that ticks never overlap, and that no hint is    *)
(* left behind by the tick it asked for.  And about FizzyReads, for any    *)
(* resources, configurations and number of reads: what a read returns is   *)
(* fresh, and the cache file whole.                                        *)
(***************************************************************************)
EXTENDS Scheduler, FizzyReads, TLAPS

(***************************************************************************)
(* The queue at its limit: a hint that enters always stays, and pushes out *)
(* at most an older one.                                                   *)
(***************************************************************************)
LEMMA EnqueueFacts ==
    ASSUME NEW hints \in Seq(Hint), NEW hint \in Hint, Len(hints) <= HintLimit
    PROVE  /\ Enqueue(hints, hint) \in Seq(Hint)
           /\ Len(Enqueue(hints, hint)) <= HintLimit
           /\ hint.delivery \in Deliveries(Enqueue(hints, hint))
           /\ Deliveries(Enqueue(hints, hint))
                \subseteq Deliveries(hints) \cup {hint.delivery}
<1> DEFINE longer == Append(hints, hint)
           result == Enqueue(hints, hint)
<1>1. HintLimit \in Nat /\ HintLimit >= 1
  BY SchedulerAssumption
<1>2. /\ longer \in Seq(Hint)
      /\ Len(longer) = Len(hints) + 1
      /\ \A i \in 1 .. Len(hints) : longer[i] = hints[i]
      /\ longer[Len(hints) + 1] = hint
  OBVIOUS
<1>3. CASE Len(longer) > HintLimit
  <2>1. result = Tail(longer)
    BY <1>3 DEF Enqueue
  <2>2. /\ Tail(longer) \in Seq(Hint)
        /\ Len(Tail(longer)) = Len(hints)
        /\ \A i \in 1 .. Len(hints) : Tail(longer)[i] = longer[i + 1]
    BY <1>2
  <2>3. Len(hints) \in Nat /\ Len(hints) >= 1
    BY <1>1, <1>2, <1>3
  <2>4. result[Len(hints)] = hint /\ Len(hints) \in DOMAIN result
    BY <1>2, <2>1, <2>2, <2>3
  <2>5. ASSUME NEW i \in DOMAIN result
        PROVE  result[i] = hint \/ (i + 1 \in DOMAIN hints /\ result[i] = hints[i + 1])
    BY <1>2, <2>1, <2>2
  <2>6. result \in Seq(Hint) /\ Len(result) <= HintLimit
    BY <1>1, <2>1, <2>2
  <2>7. hint.delivery \in Deliveries(result)
    BY <2>4 DEF Deliveries
  <2>8. ASSUME NEW i \in DOMAIN result
        PROVE  result[i].delivery \in Deliveries(hints) \cup {hint.delivery}
    BY <2>5 DEF Deliveries
  <2>9. Deliveries(result) \subseteq Deliveries(hints) \cup {hint.delivery}
    BY <2>8 DEF Deliveries
  <2> QED
    BY <2>6, <2>7, <2>9
<1>4. CASE ~(Len(longer) > HintLimit)
  <2>1. result = longer
    BY <1>4 DEF Enqueue
  <2>2. Len(hints) + 1 \in DOMAIN longer
    BY <1>2
  <2>3. ASSUME NEW i \in DOMAIN longer
        PROVE  longer[i] = hint \/ (i \in DOMAIN hints /\ longer[i] = hints[i])
    BY <1>2
  <2> QED
    BY <1>1, <1>2, <1>4, <2>1, <2>2, <2>3 DEF Deliveries
<1> QED
  BY <1>3, <1>4

(* An empty queue holds no delivery. *)
LEMMA EmptyQueue == <<>> \in Seq(Hint) /\ Len(<<>>) = 0 /\ Deliveries(<<>>) = {}
<1>1. DOMAIN <<>> = {}
  OBVIOUS
<1> QED
  BY <1>1 DEF Deliveries

(* A single waiter is a sequence of waiters. *)
LEMMA OneTick ==
    ASSUME NEW waiter \in Waiter
    PROVE  /\ <<waiter>> \in Seq(Waiter) /\ <<waiter>> # <<>>
           /\ Append(<<>>, waiter) = <<waiter>> /\ Tail(<<waiter>>) = <<>>
OBVIOUS

(* A queue of hints holds deliveries that are numbers. *)
LEMMA DeliveriesType ==
    ASSUME NEW hints \in Seq(Hint)
    PROVE  Deliveries(hints) \in SUBSET Nat
<1>1. \A i \in DOMAIN hints : hints[i] \in Hint
  OBVIOUS
<1>2. \A hint \in Hint : hint.delivery \in Nat
  BY DEF Hint
<1> QED
  BY <1>1, <1>2, Zenon DEF Deliveries

(* A webhook's event goes into the cache within its limit. *)
LEMMA RememberType ==
    ASSUME seen \in Seq(Event), Len(seen) <= CacheSize, NEW event \in Event, Remember(event)
    PROVE  seen' \in Seq(Event) /\ Len(seen') <= CacheSize
<1>1. CacheSize \in Nat
  BY SchedulerAssumption
<1>2. Append(seen, event) \in Seq(Event) /\ Len(Append(seen, event)) = Len(seen) + 1
  OBVIOUS
<1> QED
  BY <1>1, <1>2 DEF Remember

(***************************************************************************)
(* The inductive invariant: running says whether a tick is there, nothing  *)
(* runs before start(), and while a tick runs for which no successor is    *)
(* asked, every queued hint is one that a tick was given.                  *)
(***************************************************************************)
RunningIsTick == /\ running => \E waiter \in Waiter : ticks = <<waiter>>
                 /\ ~running => ticks = <<>>

OnlyAfterStart == timer \/ running => started

QueueGiven == running /\ ~pending /\ ~stopped => Deliveries(queue) \subseteq handed

SchedulerInv == TypeOK /\ RunningIsTick /\ OnlyAfterStart /\ QueueGiven

-----------------------------------------------------------------------------
(* The initial state satisfies the invariant. *)
LEMMA InitInv == Init => SchedulerInv
<1> SUFFICES ASSUME Init PROVE SchedulerInv
  OBVIOUS
<1>1. TypeOK
  <2>1. <<>> \in Seq(Waiter) /\ <<>> \in Seq(Event)
    OBVIOUS
  <2>2. 0 <= CacheSize /\ 0 <= HintLimit /\ {} \in SUBSET Nat /\ {} \in SUBSET Caller
    BY SchedulerAssumption
  <2> QED
    BY <2>1, <2>2, EmptyQueue DEF Init, TypeOK
<1>2. RunningIsTick /\ OnlyAfterStart /\ QueueGiven
  BY DEF Init, RunningIsTick, OnlyAfterStart, QueueGiven
<1> QED
  BY <1>1, <1>2 DEF SchedulerInv

(* tickNow, given a queue of hints, keeps what concerns the ticks. *)
LEMMA TickNowFacts ==
    ASSUME SchedulerInv, NEW caller \in Caller, NEW hints \in Seq(Hint),
           started, UNCHANGED <<started, stopped>>, TickNow(caller, hints)
    PROVE  /\ running' \in BOOLEAN /\ pending' \in BOOLEAN /\ timer' \in BOOLEAN
           /\ ticks' \in Seq(Waiter) /\ joiners' \in SUBSET Caller
           /\ handed' \in SUBSET Nat /\ handed \subseteq handed'
           /\ RunningIsTick'
           /\ StartsTick => Deliveries(hints) \subseteq handed'
           /\ running /\ ~stopped => pending'
<1>a. /\ running \in BOOLEAN /\ pending \in BOOLEAN /\ timer \in BOOLEAN
      /\ ticks \in Seq(Waiter) /\ joiners \in SUBSET Caller /\ handed \in SUBSET Nat
      /\ RunningIsTick
  BY DEF SchedulerInv, TypeOK
<1>1. CASE stopped
  <2>1. UNCHANGED <<tickVars, handed>>
    BY <1>1 DEF TickNow, StartsTick
  <2> QED
    BY <1>a, <1>1, <2>1 DEF tickVars, RunningIsTick, StartsTick
<1>2. CASE ~stopped /\ running
  <2>1. /\ pending' = TRUE
        /\ joiners' = joiners \cup {caller}
        /\ timer' = (timer /\ caller # "timer")
        /\ UNCHANGED <<running, ticks, handed>>
    BY <1>2 DEF TickNow, StartsTick
  <2> QED
    BY <1>a, <1>2, <2>1 DEF StartsTick, RunningIsTick
<1>3. CASE StartsTick
  <2>1. RunOnce(caller, ticks, hints) /\ timer' = FALSE /\ pending' = pending
    BY <1>3 DEF TickNow, StartsTick
  <2>2. ticks = <<>> /\ caller \in Waiter
    BY <1>a, <1>3 DEF StartsTick, Waiter, RunningIsTick
  <2>3. ticks' = <<caller>> /\ running' = TRUE /\ joiners' = {}
        /\ handed' = handed \cup Deliveries(hints)
    BY <2>1, <2>2, OneTick DEF RunOnce
  <2>4. RunningIsTick' /\ ticks' \in Seq(Waiter)
    BY <2>2, <2>3, OneTick DEF RunningIsTick
  <2> QED
    BY <1>a, <1>3, <2>1, <2>3, <2>4, DeliveriesType DEF StartsTick
<1> QED
  BY <1>1, <1>2, <1>3 DEF StartsTick

(* The finally block keeps what concerns the ticks and the hints. *)
LEMMA FinallyFacts ==
    ASSUME SchedulerInv, ticks # <<>>, NEW waiter \in Waiter, NEW caught \in BOOLEAN,
           Finally(waiter, caught), UNCHANGED <<started, stopped, intakeVars, alive>>
    PROVE  /\ SchedulerInv'
           /\ ticks' = <<>> /\ ~stopped => Deliveries(queue') \subseteq handed'
<1>1. running /\ started /\ Tail(ticks) = <<>>
  BY OneTick DEF SchedulerInv, RunningIsTick, OnlyAfterStart
<1>2. CASE pending /\ ~stopped
  <2>1. /\ ticks' = <<waiter>> /\ running' = TRUE /\ pending' = FALSE /\ joiners' = {}
        /\ timer' = caught /\ queue' = <<>>
        /\ handed' = handed \cup Deliveries(queue)
    BY <1>1, <1>2, OneTick DEF Finally, RunOnce
  <2>2. queue \in Seq(Hint) /\ handed \in SUBSET Nat
    BY DEF SchedulerInv, TypeOK
  <2>3. handed' \in SUBSET Nat /\ <<waiter>> \in Seq(Waiter) /\ <<waiter>> # <<>>
    BY <2>1, <2>2, DeliveriesType, OneTick
  <2>4. queue' \in Seq(Hint) /\ Len(queue') <= HintLimit /\ Deliveries(queue') = {}
    BY <2>1, EmptyQueue, SchedulerAssumption
  <2>5. TypeOK'
    BY <2>1, <2>3, <2>4 DEF SchedulerInv, TypeOK, intakeVars
  <2>6. RunningIsTick' /\ OnlyAfterStart' /\ QueueGiven'
    BY <1>1, <2>1, <2>4 DEF RunningIsTick, OnlyAfterStart, QueueGiven
  <2> QED
    BY <2>1, <2>3, <2>5, <2>6 DEF SchedulerInv
<1>3. CASE ~(pending /\ ~stopped)
  <2>1. /\ ticks' = <<>> /\ running' = FALSE /\ joiners' = {}
        /\ timer' = (started /\ ~stopped)
        /\ UNCHANGED <<pending, hintVars>>
    <3>1. /\ ticks' = Tail(ticks) /\ running' = FALSE /\ joiners' = {}
          /\ timer' = (started /\ ~stopped)
          /\ UNCHANGED <<pending, hintVars>>
      BY <1>3, Zenon DEF Finally
    <3> QED
      BY <1>1, <3>1
  <2>2. TypeOK'
    <3>1. timer' \in BOOLEAN
      BY <2>1, Zenon
    <3>2. <<>> \in Seq(Waiter)
      OBVIOUS
    <3> QED
      BY <2>1, <3>1, <3>2 DEF SchedulerInv, TypeOK, intakeVars, hintVars
  <2>3. RunningIsTick' /\ OnlyAfterStart' /\ QueueGiven'
    BY <1>1, <2>1 DEF RunningIsTick, OnlyAfterStart, QueueGiven
  <2>4. ~stopped => Deliveries(queue) \subseteq handed
    BY <1>1, <1>3 DEF SchedulerInv, QueueGiven
  <2>5. Deliveries(queue') = Deliveries(queue) /\ handed' = handed
    BY <2>1 DEF hintVars
  <2> QED
    BY <2>1, <2>2, <2>3, <2>4, <2>5 DEF SchedulerInv
<1> QED
  BY <1>2, <1>3

(* An action that leaves the ticks, the queue and the history alone keeps what concerns them. *)
LEMMA UntouchedFacts ==
    ASSUME SchedulerInv, UNCHANGED <<stopped, started, running, pending, ticks, joiners, hintVars>>
    PROVE  /\ RunningIsTick' /\ QueueGiven'
           /\ ticks' \in Seq(Waiter) /\ joiners' \in SUBSET Caller
           /\ queue' \in Seq(Hint) /\ Len(queue') <= HintLimit /\ handed' \in SUBSET Nat
BY DEF SchedulerInv, TypeOK, RunningIsTick, QueueGiven, hintVars

(* The daemon's enqueueWebhookHint keeps what concerns the ticks and the hints. *)
LEMMA EnqueueWebhookHintFacts ==
    ASSUME SchedulerInv, NEW hint \in Hint, UNCHANGED <<started, stopped>>,
           EnqueueWebhookHint(hint)
    PROVE  /\ running' \in BOOLEAN /\ pending' \in BOOLEAN /\ timer' \in BOOLEAN
           /\ ticks' \in Seq(Waiter) /\ joiners' \in SUBSET Caller
           /\ queue' \in Seq(Hint) /\ Len(queue') <= HintLimit /\ handed' \in SUBSET Nat
           /\ RunningIsTick' /\ OnlyAfterStart' /\ QueueGiven'
           /\ ticks # <<>> => ticks' # <<>>
<1> DEFINE hints == Enqueue(queue, hint)
<1>a. /\ queue \in Seq(Hint) /\ Len(queue) <= HintLimit
      /\ running \in BOOLEAN /\ pending \in BOOLEAN /\ timer \in BOOLEAN
      /\ ticks \in Seq(Waiter) /\ joiners \in SUBSET Caller /\ handed \in SUBSET Nat
      /\ RunningIsTick /\ OnlyAfterStart /\ QueueGiven
  BY DEF SchedulerInv, TypeOK
<1>b. /\ hints \in Seq(Hint) /\ Len(hints) <= HintLimit /\ hint.delivery \in Deliveries(hints)
  BY <1>a, EnqueueFacts
<1>c. 0 <= HintLimit
  BY SchedulerAssumption
<1>1. CASE ~started
  <2>1. queue' = hints /\ UNCHANGED <<running, pending, timer, ticks, joiners, handed>>
    BY <1>1 DEF EnqueueWebhookHint, tickVars
  <2>2. ~running /\ ticks = <<>>
    BY <1>1, <1>a DEF OnlyAfterStart, RunningIsTick
  <2> QED
    BY <1>a, <1>b, <1>1, <2>1, <2>2 DEF RunningIsTick, OnlyAfterStart, QueueGiven
<1>2. CASE started
  <2>1. /\ TickNow("webhook", hints)
        /\ queue' = Enqueue(IF StartsTick THEN <<>> ELSE hints, hint)
    BY <1>2 DEF EnqueueWebhookHint
  <2>2. /\ running' \in BOOLEAN /\ pending' \in BOOLEAN /\ timer' \in BOOLEAN
        /\ ticks' \in Seq(Waiter) /\ joiners' \in SUBSET Caller
        /\ handed' \in SUBSET Nat
        /\ RunningIsTick'
        /\ StartsTick => Deliveries(hints) \subseteq handed'
        /\ running /\ ~stopped => pending'
    <3>1. "webhook" \in Caller
      BY DEF Caller
    <3> QED
      BY <1>b, <1>2, <2>1, <3>1, TickNowFacts
  <2>3. OnlyAfterStart'
    BY <1>2 DEF OnlyAfterStart
  <2>4. queue' \in Seq(Hint) /\ Len(queue') <= HintLimit
    BY <1>b, <1>c, <2>1, EnqueueFacts, EmptyQueue
  <2>5. CASE StartsTick
    <3>1. Deliveries(queue') \subseteq {hint.delivery}
      BY <1>c, <2>1, <2>5, EnqueueFacts, EmptyQueue
    <3>2. Deliveries(queue') \subseteq handed'
      BY <1>b, <2>2, <2>5, <3>1
    <3>3. ticks = <<>>
      BY <1>a, <2>5 DEF StartsTick, RunningIsTick
    <3> QED
      BY <2>2, <2>3, <2>4, <3>2, <3>3 DEF QueueGiven
  <2>6. CASE ~StartsTick
    <3>1. UNCHANGED <<running, ticks>>
      BY <2>1, <2>6, Zenon DEF TickNow, tickVars
    <3>2. QueueGiven'
      BY <2>2, <2>6, <3>1 DEF QueueGiven, StartsTick
    <3> QED
      BY <2>2, <2>3, <2>4, <3>1, <3>2
  <2> QED
    BY <2>5, <2>6
<1> QED
  BY <1>1, <1>2

(***************************************************************************)
(* What TickLeavesNoNewHint says of one step.                              *)
(***************************************************************************)
LeavesNoNewHint == ticks # <<>> /\ ticks' = <<>> /\ ~stopped
                      => Deliveries(queue') \subseteq handed'

(* Every step keeps the invariant and leaves no new hint behind. *)
LEMMA StepInv == SchedulerInv /\ [Next]_vars => SchedulerInv' /\ LeavesNoNewHint
<1> SUFFICES ASSUME SchedulerInv, [Next]_vars PROVE SchedulerInv' /\ LeavesNoNewHint
  OBVIOUS
<1>a. TypeOK /\ RunningIsTick /\ OnlyAfterStart /\ QueueGiven
  BY DEF SchedulerInv
<1>b. /\ "timer" \in Caller \cap Waiter /\ "webhook" \in Waiter /\ "nobody" \in Waiter
  BY DEF Caller, Waiter
<1>1. CASE Start
  <2>1. UNCHANGED <<stopped, running, pending, ticks, joiners, intakeVars, hintVars, alive>>
        /\ started' = TRUE /\ timer' = TRUE
    BY <1>1 DEF Start
  <2>2. SchedulerInv'
    BY <1>a, <2>1
       DEF SchedulerInv, TypeOK, RunningIsTick, OnlyAfterStart, QueueGiven, intakeVars, hintVars
  <2>3. LeavesNoNewHint
    BY <2>1 DEF LeavesNoNewHint
  <2> QED
    BY <2>2, <2>3
<1>2. CASE TimerFires
  <2>1. /\ timer /\ started /\ TickNow("timer", queue)
        /\ queue' = IF StartsTick THEN <<>> ELSE queue
        /\ UNCHANGED <<started, stopped, intakeVars, alive>>
    BY <1>2, <1>a DEF TimerFires, OnlyAfterStart
  <2>2. queue \in Seq(Hint)
    BY <1>a DEF TypeOK
  <2>3. /\ running' \in BOOLEAN /\ pending' \in BOOLEAN /\ timer' \in BOOLEAN
        /\ ticks' \in Seq(Waiter) /\ joiners' \in SUBSET Caller
        /\ handed' \in SUBSET Nat /\ handed \subseteq handed'
        /\ RunningIsTick'
        /\ running /\ ~stopped => pending'
    BY <1>b, <2>1, <2>2, TickNowFacts
  <2>4. queue' \in Seq(Hint) /\ Len(queue') <= HintLimit
    BY <1>a, <2>1, EmptyQueue, SchedulerAssumption DEF TypeOK
  <2>5. TypeOK' /\ OnlyAfterStart'
    BY <1>a, <2>1, <2>3, <2>4 DEF TypeOK, OnlyAfterStart, intakeVars
  <2>6. CASE StartsTick
    <3>1. ticks = <<>> /\ Deliveries(queue') = {}
      BY <1>a, <2>1, <2>6, EmptyQueue DEF StartsTick, RunningIsTick
    <3> QED
      BY <2>3, <2>5, <3>1 DEF SchedulerInv, QueueGiven, LeavesNoNewHint
  <2>7. CASE ~StartsTick
    <3>1. UNCHANGED <<running, ticks>>
      BY <2>1, <2>7, Zenon DEF TickNow, tickVars
    <3>2. QueueGiven'
      BY <2>1, <2>3, <2>7, <3>1 DEF QueueGiven, StartsTick
    <3> QED
      BY <2>3, <2>5, <3>1, <3>2 DEF SchedulerInv, LeavesNoNewHint
  <2> QED
    BY <2>6, <2>7
<1>3. ASSUME NEW event \in Event, Webhook(event)
      PROVE  SchedulerInv' /\ LeavesNoNewHint
  <2>1. /\ deliveries' = deliveries + 1 /\ deliveries' \in Nat
        /\ UNCHANGED <<started, stopped, alive>>
    BY <1>a, <1>3 DEF Webhook, TypeOK
  <2>2. CASE event \in Seen
    <3>1. seen' = seen /\ UNCHANGED <<tickVars, hintVars>>
      BY <1>3, <2>2, Zenon DEF Webhook
    <3>2. /\ RunningIsTick' /\ QueueGiven'
          /\ ticks' \in Seq(Waiter) /\ joiners' \in SUBSET Caller
          /\ queue' \in Seq(Hint) /\ Len(queue') <= HintLimit /\ handed' \in SUBSET Nat
      BY <2>1, <3>1, UntouchedFacts DEF tickVars
    <3>3. seen' \in Seq(Event) /\ Len(seen') <= CacheSize
      BY <1>a, <3>1 DEF TypeOK
    <3> QED
      BY <1>a, <2>1, <3>1, <3>2, <3>3
         DEF SchedulerInv, TypeOK, OnlyAfterStart, LeavesNoNewHint, tickVars
  <2>3. CASE event \in Ignored \ Seen
    <3>1. Remember(event) /\ UNCHANGED <<tickVars, hintVars>>
      BY <1>3, <2>3, Zenon DEF Webhook
    <3>2. /\ RunningIsTick' /\ QueueGiven'
          /\ ticks' \in Seq(Waiter) /\ joiners' \in SUBSET Caller
          /\ queue' \in Seq(Hint) /\ Len(queue') <= HintLimit /\ handed' \in SUBSET Nat
      BY <2>1, <3>1, UntouchedFacts DEF tickVars
    <3>3. seen' \in Seq(Event) /\ Len(seen') <= CacheSize
      BY <1>a, <3>1, RememberType DEF TypeOK
    <3> QED
      BY <1>a, <2>1, <3>1, <3>2, <3>3
         DEF SchedulerInv, TypeOK, OnlyAfterStart, LeavesNoNewHint, tickVars
  <2>4. CASE event \notin Ignored \cup Seen
    <3> DEFINE hint == [event |-> event, delivery |-> deliveries + 1]
    <3>1. Remember(event) /\ EnqueueWebhookHint(hint)
      BY <1>3, <2>4 DEF Webhook
    <3>2. hint \in Hint
      BY <2>1 DEF Hint
    <3>3. /\ running' \in BOOLEAN /\ pending' \in BOOLEAN /\ timer' \in BOOLEAN
          /\ ticks' \in Seq(Waiter) /\ joiners' \in SUBSET Caller
          /\ queue' \in Seq(Hint) /\ Len(queue') <= HintLimit /\ handed' \in SUBSET Nat
          /\ RunningIsTick' /\ OnlyAfterStart' /\ QueueGiven'
          /\ ticks # <<>> => ticks' # <<>>
      BY <2>1, <3>1, <3>2, EnqueueWebhookHintFacts
    <3>4. seen' \in Seq(Event) /\ Len(seen') <= CacheSize
      BY <1>a, <3>1, RememberType DEF TypeOK
    <3> QED
      BY <1>a, <2>1, <3>3, <3>4 DEF SchedulerInv, TypeOK, LeavesNoNewHint
  <2> QED
    BY <2>2, <2>3, <2>4
<1>4. CASE EventExpires
  <2>1. seen' = Tail(seen) /\ seen # <<>>
        /\ UNCHANGED <<started, stopped, tickVars, deliveries, hintVars, alive>>
    BY <1>4 DEF EventExpires
  <2>2. seen' \in Seq(Event) /\ Len(seen') <= CacheSize
    BY <1>a, <2>1, SchedulerAssumption DEF TypeOK
  <2>3. /\ RunningIsTick' /\ QueueGiven'
        /\ ticks' \in Seq(Waiter) /\ joiners' \in SUBSET Caller
        /\ queue' \in Seq(Hint) /\ Len(queue') <= HintLimit /\ handed' \in SUBSET Nat
    BY <2>1, UntouchedFacts DEF tickVars
  <2> QED
    BY <1>a, <2>1, <2>2, <2>3 DEF SchedulerInv, TypeOK, OnlyAfterStart, LeavesNoNewHint, tickVars
<1>5. CASE TickResolves
  <2>1. "webhook" \in Waiter /\ "timer" \in Waiter /\ FALSE \in BOOLEAN
    BY <1>b
  <2> QED
    BY <1>5, <2>1, FinallyFacts DEF TickResolves, LeavesNoNewHint
<1>6. CASE TickRejects
  <2>1. (~stopped) \in BOOLEAN
    OBVIOUS
  <2> QED
    BY <1>6, <1>b, <2>1, FinallyFacts DEF TickRejects, LeavesNoNewHint
<1>7. CASE TickRejectsUnhandled
  <2>1. alive' = FALSE /\ UNCHANGED <<started, stopped, tickVars, intakeVars, hintVars>>
    BY <1>7 DEF TickRejectsUnhandled
  <2>2. /\ RunningIsTick' /\ QueueGiven'
        /\ ticks' \in Seq(Waiter) /\ joiners' \in SUBSET Caller
        /\ queue' \in Seq(Hint) /\ Len(queue') <= HintLimit /\ handed' \in SUBSET Nat
    BY <2>1, UntouchedFacts DEF tickVars
  <2> QED
    BY <1>a, <2>1, <2>2
       DEF SchedulerInv, TypeOK, OnlyAfterStart, LeavesNoNewHint, tickVars, intakeVars
<1>8. CASE Stop
  <2>1. /\ stopped' = TRUE /\ timer' = FALSE
        /\ UNCHANGED <<started, running, pending, ticks, joiners, intakeVars, hintVars, alive>>
    BY <1>8 DEF Stop
  <2> QED
    BY <1>a, <2>1
       DEF SchedulerInv, TypeOK, RunningIsTick, OnlyAfterStart, QueueGiven, LeavesNoNewHint,
           intakeVars, hintVars
<1>9. CASE UNCHANGED vars
  <2>1. UNCHANGED <<started, stopped, running, pending, timer, ticks, joiners, queue, handed,
                    seen, deliveries, alive>>
    BY <1>9 DEF vars, tickVars, intakeVars, hintVars
  <2> QED
    BY <1>a, <2>1
       DEF SchedulerInv, TypeOK, RunningIsTick, OnlyAfterStart, QueueGiven, LeavesNoNewHint
<1> QED
  BY <1>1, <1>2, <1>3, <1>4, <1>5, <1>6, <1>7, <1>8, <1>9 DEF Next, TickSettles

-----------------------------------------------------------------------------
(* The invariant holds in every reachable state. *)
LEMMA InvHolds == Spec => []SchedulerInv
BY InitInv, StepInv, PTL DEF Spec

(***************************************************************************)
(* Every variable keeps its type, and the queue of hints and the cache of  *)
(* events their limits, for any limits (src/server.js).                    *)
(***************************************************************************)
THEOREM SchedulerTypeCorrect == Spec => []TypeOK
<1>1. SchedulerInv => TypeOK
  BY DEF SchedulerInv
<1> QED
  BY <1>1, InvHolds, PTL

(***************************************************************************)
(* runOnce never runs twice at a time, whoever calls tickNow and however   *)
(* the ticks before it ended (src/scheduler.js).                           *)
(***************************************************************************)
THEOREM TicksNeverOverlap == Spec => []NoOverlap
<1>1. SchedulerInv => NoOverlap
  <2> SUFFICES ASSUME SchedulerInv PROVE NoOverlap
    OBVIOUS
  <2>1. ticks = <<>> \/ \E waiter \in Waiter : ticks = <<waiter>>
    BY DEF SchedulerInv, RunningIsTick
  <2>2. CASE ticks = <<>>
    BY <2>2 DEF NoOverlap
  <2>3. ASSUME NEW waiter \in Waiter, ticks = <<waiter>>
        PROVE  NoOverlap
    BY <2>3 DEF NoOverlap
  <2> QED
    BY <2>1, <2>2, <2>3
<1> QED
  BY <1>1, InvHolds, PTL

(***************************************************************************)
(* No webhook's hint is left behind by the tick that was running when it   *)
(* came, for any number of webhooks (src/scheduler.js, src/daemon.js).     *)
(***************************************************************************)
THEOREM NoLostWakeup == Spec => TickLeavesNoNewHint
<1>1. SchedulerInv /\ [Next]_vars =>
        [ticks # <<>> /\ ticks' = <<>> /\ ~stopped => Deliveries(queue') \subseteq handed']_vars
  BY StepInv DEF LeavesNoNewHint
<1> QED
  BY <1>1, InvHolds, PTL DEF Spec, TickLeavesNoNewHint

(***************************************************************************)
(* The reads a tick makes of Fizzy: the first page of what it is given is  *)
(* one the board had during the read, and no save leaves half a file.      *)
(***************************************************************************)

APage  == [context : Context, of : Resource, page : Nat, version : Nat]
AnEntry == [etag : {<<>>} \cup (Resource \X Nat), data : Seq(APage) \cup {<<"broken">>}]

Steps == {"idle", "load", "lookup", "request", "unchanged", "pages", "save", "write",
          "rename", "returned", "thrown"}

(* The first pages of a resource, in order, as a configuration sees it.    *)
PagesOf(c, r, s) ==
    /\ s \in Seq(APage)
    /\ \A p \in 1..Len(s) : s[p].context = c /\ s[p].of = r /\ s[p].page = p

(* A valid entry is a whole answer that one configuration got for a        *)
(* resource of the key, and its ETag is that of the first page.            *)
GoodEntry(c, k, e) ==
    Valid(e) => \E r \in Resource :
        /\ KeyOf(r) = k /\ PagesOf(c, r, e.data) /\ Len(e.data) = Pages(r)
        /\ e.etag = <<r, e.data[1].version>>

GoodEntries(c) == {e \in [Key -> AnEntry] : \A k \in Key : GoodEntry(c, k, e[k])}

GoodFile(f) ==
    /\ f.state \in {"none", "torn", "whole"}
    /\ f.state = "whole" => f.context \in Context /\ f.entries \in GoodEntries(f.context)

Answered == {"pages", "save", "write", "rename", "returned"}

ReadsTypes ==
    /\ context \in Context
    /\ changes \in Nat
    /\ DOMAIN server = Resource
    /\ \A r \in Resource : server[r] \in [1..Pages(r) -> Nat]
    /\ pc \in [Task -> Steps]
    /\ of \in [Task -> Resource \cup {NoRead}]
    /\ sent \in [Task -> AnEntry]
    /\ body \in [Task -> Seq(APage)]
    /\ DOMAIN held = Task
    /\ DOMAIN tmp = Task
    /\ DOMAIN saving = Task
    /\ collided \in BOOLEAN

(* What the memory and the files hold.                                     *)
GoodCache ==
    /\ entries \in GoodEntries(context)
    /\ GoodFile(file)
    /\ \A t \in Task : GoodFile(tmp[t])

(* What a read has in hand.                                                *)
GoodRead(t) ==
    /\ pc[t] # "idle" =>
          /\ of[t] \in Resource /\ held[t] \in [1..Pages(of[t]) -> SUBSET Nat]
          /\ \A p \in 1..Pages(of[t]) : server[of[t]][p] \in held[t][p]
    /\ pc[t] = "request" => GoodEntry(context, KeyOf(of[t]), sent[t])
    /\ pc[t] = "unchanged" =>
          /\ PagesOf(context, of[t], sent[t].data) /\ Len(sent[t].data) = Pages(of[t])
          /\ sent[t].data[1].version \in held[t][1]
    /\ pc[t] \in Answered =>
          /\ PagesOf(context, of[t], body[t])
          /\ Len(body[t]) \in 1..Pages(of[t])
          /\ body[t][1].version \in held[t][1]
    /\ pc[t] = "pages" => sent[t].etag = <<of[t], body[t][1].version>>
    /\ pc[t] \in Answered \ {"pages"} => Len(body[t]) = Pages(of[t])

(* What a save has in hand; if no two ever shared one, its file is its own. *)
GoodSave(t) ==
    /\ pc[t] \in {"write", "rename"} =>
          /\ saving[t].name \in Task /\ GoodFile(saving[t].content)
          /\ saving[t].content.state = "whole"
    /\ ~collided =>
          /\ pc[t] \in {"write", "rename"} => saving[t].name = t
          /\ pc[t] = "write" => tmp[t].state = "torn"
          /\ pc[t] = "rename" => tmp[t].state = "whole"

ReadsInv == ReadsTypes /\ GoodCache /\ \A t \in Task : GoodRead(t) /\ GoodSave(t)

-----------------------------------------------------------------------------
LEMMA PagesType == \A r \in Resource : Pages(r) \in {1, 2}
BY DEF Pages

LEMMA NoEntryType == NoEntry \in AnEntry /\ ~Valid(NoEntry)
BY DEF NoEntry, AnEntry, Valid

LEMMA NoEntriesGood == \A c \in Context : [k \in Key |-> NoEntry] \in GoodEntries(c)
BY NoEntryType DEF GoodEntries, GoodEntry

LEMMA PagesAlike ==
    ASSUME NEW c \in Context, NEW r \in Resource, NEW p \in Nat, NEW v \in Nat
    PROVE  /\ Page(c, r, p, v) \in APage
           /\ Page(c, r, p, v).context = c /\ Page(c, r, p, v).of = r
           /\ Page(c, r, p, v).page = p /\ Page(c, r, p, v).version = v
BY DEF Page, APage

(* A board's answer is of its configuration and resource.                  *)
LEMMA CurrentPage ==
    ASSUME ReadsTypes, NEW r \in Resource, NEW p \in 1..Pages(r)
    PROVE  /\ Current(r)[p] \in APage
           /\ Current(r)[p].context = context /\ Current(r)[p].of = r
           /\ Current(r)[p].page = p /\ Current(r)[p].version = server[r][p]
<1>1. server[r][p] \in Nat /\ p \in Nat /\ context \in Context
    BY PagesType DEF ReadsTypes
<1>2. Current(r)[p] = Page(context, r, p, server[r][p])
    BY DEF Current
<1>. QED BY <1>1, <1>2, PagesAlike

(* What any step of one read leaves of another.                            *)
LEMMA OthersRead ==
    ASSUME ReadsTypes, NEW t \in Task, Read(t), NEW u \in Task \ {t}
    PROVE  /\ pc'[u] = pc[u] /\ of'[u] = of[u] /\ sent'[u] = sent[u] /\ body'[u] = body[u]
           /\ saving'[u] = saving[u] /\ held'[u] = held[u]
           /\ UNCHANGED <<server, changes, context>>
BY DEF ReadsTypes, Read, Begin, Load, Lookup, Answer, NextPage, NotModified, Store, Save, Write,
       Rename, Fails, End, Returns, To, Outside, taskVars, cacheVars

LEMMA GoodReadKept ==
    ASSUME NEW t \in Task, GoodRead(t), UNCHANGED <<server, context>>,
           pc'[t] = pc[t], of'[t] = of[t], sent'[t] = sent[t], body'[t] = body[t],
           held'[t] = held[t]
    PROVE  GoodRead(t)'
BY DEF GoodRead, PagesOf, GoodEntry

-----------------------------------------------------------------------------
(* The steps that change neither a file nor the memory.                    *)
LEMMA CacheKept ==
    ASSUME GoodCache, UNCHANGED <<context, entries, file, tmp>>
    PROVE  GoodCache'
BY DEF GoodCache

LEMMA BeginGood ==
    ASSUME ReadsInv, NEW t \in Task, NEW r \in Resource, Begin(t, r)
    PROVE  ReadsTypes' /\ GoodCache' /\ GoodRead(t)' /\ GoodSave(t)'
<1>1. ReadsTypes
    BY DEF ReadsInv
<1>2. /\ pc'[t] \in {"load", "lookup"} /\ pc' \in [Task -> Steps]
      /\ of'[t] = r /\ of' \in [Task -> Resource \cup {NoRead}]
    BY <1>1 DEF Begin, To, ReadsTypes, Steps
<1>3. held'[t] = [p \in 1..Pages(r) |-> {server[r][p]}] /\ DOMAIN held' = Task
    BY <1>1 DEF Begin, ReadsTypes
<1>4. body' \in [Task -> Seq(APage)]
    BY <1>1 DEF Begin, ReadsTypes
<1>5. UNCHANGED <<server, changes, context, file, tmp, entries, sent, saving, collided>>
    BY DEF Begin, Outside
<1>6. ReadsTypes'
    BY <1>1, <1>2, <1>3, <1>4, <1>5 DEF ReadsTypes
<1>7. GoodCache'
    BY <1>5, CacheKept DEF ReadsInv
<1>8. \A p \in 1..Pages(r) : server[r][p] \in Nat
    BY <1>1 DEF ReadsTypes
<1>9. GoodRead(t)'
    BY <1>2, <1>3, <1>5, <1>8 DEF GoodRead, Answered
<1>10. GoodSave(t)'
    BY <1>2 DEF GoodSave
<1>. QED BY <1>6, <1>7, <1>9, <1>10

LEMMA LoadGood ==
    ASSUME ReadsInv, NEW t \in Task, Load(t)
    PROVE  ReadsTypes' /\ GoodCache' /\ GoodRead(t)' /\ GoodSave(t)'
<1>1. ReadsTypes /\ GoodCache /\ GoodRead(t)
    BY DEF ReadsInv
<1>2. pc[t] = "load" /\ pc'[t] = "lookup" /\ pc' \in [Task -> Steps]
    BY <1>1 DEF Load, To, ReadsTypes, Steps
<1>3. UNCHANGED <<server, changes, context, file, tmp, of, sent, body, saving, held, collided>>
    BY DEF Load, Outside, taskVars
<1>4. ReadsTypes'
    BY <1>1, <1>2, <1>3 DEF ReadsTypes
<1>5. entries' \in GoodEntries(context)
  <2>1. CASE file.state = "none"
      BY <1>1, <2>1 DEF Load, GoodCache
  <2>2. CASE file.state # "none" /\ (file.state = "torn" \/ file.context # context)
      BY <1>1, <2>2, NoEntriesGood DEF Load, ReadsTypes
  <2>3. CASE file.state # "none" /\ ~(file.state = "torn" \/ file.context # context)
      BY <1>1, <2>3 DEF Load, GoodCache, GoodFile
  <2>. QED BY <2>1, <2>2, <2>3
<1>6. GoodCache'
    BY <1>1, <1>3, <1>5 DEF GoodCache
<1>7. GoodRead(t)'
    BY <1>1, <1>2, <1>3 DEF GoodRead, Answered
<1>. QED BY <1>2, <1>4, <1>6, <1>7 DEF GoodSave

LEMMA LookupGood ==
    ASSUME ReadsInv, NEW t \in Task, Lookup(t)
    PROVE  ReadsTypes' /\ GoodCache' /\ GoodRead(t)' /\ GoodSave(t)'
<1> DEFINE k == KeyOf(of[t])
<1>1. ReadsTypes /\ GoodCache /\ GoodRead(t)
    BY DEF ReadsInv
<1>2. pc[t] = "lookup" /\ pc'[t] = "request" /\ pc' \in [Task -> Steps]
    BY <1>1 DEF Lookup, To, ReadsTypes, Steps
<1>3. UNCHANGED <<server, changes, context, file, tmp, of, body, saving, held, collided>>
    BY DEF Lookup, Outside
<1>4. of[t] \in Resource /\ k \in Key
    BY <1>1, <1>2 DEF GoodRead, Key
<1>5. /\ sent' = [sent EXCEPT ![t] = IF Valid(entries[k]) THEN entries[k] ELSE NoEntry]
      /\ entries' = [entries EXCEPT ![k] = IF Valid(entries[k]) THEN entries[k] ELSE NoEntry]
    BY DEF Lookup
<1> HIDE DEF k
<1>6. entries \in [Key -> AnEntry] /\ \A i \in Key : GoodEntry(context, i, entries[i])
    BY <1>1 DEF GoodCache, GoodEntries
<1>7. ~Valid(NoEntry) /\ NoEntry \in AnEntry
    BY NoEntryType
<1>8. sent' \in [Task -> AnEntry] /\ GoodEntry(context, k, sent'[t])
    BY <1>1, <1>4, <1>5, <1>6, <1>7 DEF ReadsTypes, GoodEntry
<1>9. entries' \in GoodEntries(context)
  <2>1. entries' \in [Key -> AnEntry]
      BY <1>4, <1>5, <1>6, <1>7
  <2>2. \A i \in Key : GoodEntry(context, i, entries'[i])
      BY <1>4, <1>5, <1>6, <1>7 DEF GoodEntry
  <2>. QED BY <2>1, <2>2 DEF GoodEntries
<1>10. ReadsTypes'
    BY <1>1, <1>2, <1>3, <1>8 DEF ReadsTypes
<1>11. GoodCache'
    BY <1>1, <1>3, <1>9 DEF GoodCache
<1>12. GoodRead(t)'
  <2>1. KeyOf(of[t])' = k
      BY <1>3 DEF k
  <2>. QED BY <1>1, <1>2, <1>3, <1>8, <2>1 DEF GoodRead, Answered, GoodEntry, PagesOf
<1>. QED BY <1>2, <1>10, <1>11, <1>12 DEF GoodSave

LEMMA AnswerGood ==
    ASSUME ReadsInv, NEW t \in Task, Answer(t)
    PROVE  ReadsTypes' /\ GoodCache' /\ GoodRead(t)' /\ GoodSave(t)'
<1> DEFINE r == of[t]
           v == server[r][1]
<1>1. ReadsTypes /\ GoodCache /\ GoodRead(t) /\ pc[t] = "request"
    BY DEF ReadsInv, Answer
<1>2. UNCHANGED <<server, changes, context, file, tmp, entries, of, saving, held, collided>>
    BY DEF Answer, Outside, cacheVars
<1>3. /\ r \in Resource /\ held[t] \in [1..Pages(r) -> SUBSET Nat]
      /\ \A p \in 1..Pages(r) : server[r][p] \in held[t][p]
      /\ GoodEntry(context, KeyOf(r), sent[t])
    BY <1>1 DEF GoodRead
<1>4. 1 \in 1..Pages(r) /\ v \in Nat /\ v \in held[t][1]
  <2>1. 1 \in 1..Pages(r)
      BY <1>3, PagesType
  <2>2. server[r] \in [1..Pages(r) -> Nat]
      BY <1>1, <1>3 DEF ReadsTypes
  <2>. QED BY <1>3, <2>1, <2>2
<1>5. GoodCache'
    BY <1>1, <1>2, CacheKept
<1>6. CASE sent[t].etag = Etag(of[t])
  <2>1. pc'[t] = "unchanged" /\ pc' \in [Task -> Steps] /\ UNCHANGED <<body, sent>>
      BY <1>1, <1>6 DEF Answer, To, ReadsTypes, Steps
  <2>2. sent[t].etag = <<r, v>>
      BY <1>6 DEF Etag
  <2>3. Valid(sent[t])
      BY <2>2 DEF Valid
  <2>4. PICK q \in Resource : /\ PagesOf(context, q, sent[t].data)
                              /\ Len(sent[t].data) = Pages(q)
                              /\ sent[t].etag = <<q, sent[t].data[1].version>>
      BY <1>3, <2>3 DEF GoodEntry
  <2>5. q = r /\ sent[t].data[1].version = v
      BY <2>2, <2>4
  <2>6. ReadsTypes'
      BY <1>1, <1>2, <2>1 DEF ReadsTypes
  <2>7. GoodRead(t)'
      BY <1>2, <1>3, <1>4, <2>1, <2>4, <2>5 DEF GoodRead, Answered, PagesOf
  <2>. QED BY <1>5, <2>1, <2>6, <2>7 DEF GoodSave
<1>7. CASE sent[t].etag # Etag(of[t])
  <2> DEFINE page == Current(r)[1]
  <2>1. /\ pc'[t] = "pages" /\ pc' \in [Task -> Steps]
        /\ body' = [body EXCEPT ![t] = <<page>>]
        /\ sent' = [sent EXCEPT ![t].etag = <<r, v>>]
      BY <1>1, <1>7 DEF Answer, To, ReadsTypes, Steps, Etag
  <2>2. /\ page \in APage /\ page.context = context /\ page.of = r /\ page.page = 1
        /\ page.version = v
      BY <1>1, <1>3, <1>4, CurrentPage
  <2> HIDE DEF page, v
  <2>3. body' \in [Task -> Seq(APage)] /\ body'[t] = <<page>>
      BY <1>1, <2>1, <2>2 DEF ReadsTypes
  <2>4. sent' \in [Task -> AnEntry] /\ sent'[t].etag = <<r, v>>
    <3>1. sent \in [Task -> AnEntry] /\ <<r, v>> \in {<<>>} \cup (Resource \X Nat)
        BY <1>1, <1>3, <1>4 DEF ReadsTypes
    <3>2. ASSUME NEW e \in AnEntry, NEW g \in {<<>>} \cup (Resource \X Nat)
          PROVE  [e EXCEPT !.etag = g] \in AnEntry /\ [e EXCEPT !.etag = g].etag = g
        BY DEF AnEntry
    <3> HIDE DEF r
    <3>. QED BY <2>1, <3>1, <3>2
  <2>5. ReadsTypes'
      BY <1>1, <1>2, <2>1, <2>3, <2>4 DEF ReadsTypes
  <2>6. PagesOf(context, r, <<page>>) /\ Len(<<page>>) = 1 /\ <<page>>[1].version = v
      BY <2>2 DEF PagesOf
  <2>7. GoodRead(t)'
      BY <1>2, <1>3, <1>4, <2>1, <2>3, <2>4, <2>6 DEF GoodRead, Answered, PagesOf
  <2>. QED BY <1>5, <2>1, <2>5, <2>7 DEF GoodSave
<1>. QED BY <1>6, <1>7

LEMMA NextPageGood ==
    ASSUME ReadsInv, NEW t \in Task, NextPage(t)
    PROVE  ReadsTypes' /\ GoodCache' /\ GoodRead(t)' /\ GoodSave(t)'
<1> DEFINE r == of[t]
           n == Len(body[t]) + 1
           page == Current(r)[n]
<1>1. ReadsTypes /\ GoodCache /\ GoodRead(t) /\ GoodSave(t) /\ pc[t] = "pages"
    BY DEF ReadsInv, NextPage
<1>2. UNCHANGED <<server, changes, context, file, tmp, entries, pc, of, sent, saving, held, collided>>
    BY DEF NextPage, Outside, cacheVars
<1>3. /\ r \in Resource /\ held[t] \in [1..Pages(r) -> SUBSET Nat]
      /\ \A p \in 1..Pages(r) : server[r][p] \in held[t][p]
      /\ PagesOf(context, r, body[t]) /\ Len(body[t]) \in 1..Pages(r)
      /\ body[t][1].version \in held[t][1]
      /\ sent[t].etag = <<r, body[t][1].version>>
    BY <1>1 DEF GoodRead, Answered
<1>4. n \in 1..Pages(r) /\ n \in Nat
    BY <1>3, PagesType DEF NextPage
<1>5. /\ page \in APage /\ page.context = context /\ page.of = r /\ page.page = n
    BY <1>1, <1>3, <1>4, CurrentPage
<1>6. body' = [body EXCEPT ![t] = Append(body[t], page)]
    BY DEF NextPage
<1> HIDE DEF page
<1>7. body[t] \in Seq(APage)
    BY <1>1 DEF ReadsTypes
<1>8. body' \in [Task -> Seq(APage)] /\ body'[t] = Append(body[t], page)
    BY <1>1, <1>5, <1>6, <1>7 DEF ReadsTypes
<1>9. /\ Len(body'[t]) = n
      /\ \A p \in 1..Len(body[t]) : body'[t][p] = body[t][p]
      /\ body'[t][n] = page
    BY <1>5, <1>7, <1>8
<1>10. PagesOf(context, r, body'[t])
  <2>1. ASSUME NEW p \in 1..n
        PROVE  body'[t][p].context = context /\ body'[t][p].of = r /\ body'[t][p].page = p
    <3>1. CASE p = n
        BY <1>5, <1>9, <3>1
    <3>2. CASE p # n
      <4>1. p \in 1..Len(body[t])
          BY <1>3, <3>2
      <4>2. body'[t][p] = body[t][p]
          BY <1>9, <4>1
      <4>3. body[t][p].context = context /\ body[t][p].of = r /\ body[t][p].page = p
          BY <1>3, <4>1 DEF PagesOf
      <4>. QED BY <4>2, <4>3
    <3>. QED BY <3>1, <3>2
  <2>. QED BY <1>5, <1>7, <1>8, <1>9, <2>1 DEF PagesOf
<1>11. body'[t][1] = body[t][1]
    BY <1>3, <1>9
<1>12. ReadsTypes'
    BY <1>1, <1>2, <1>8 DEF ReadsTypes
<1>13. GoodCache'
    BY <1>1, <1>2, CacheKept
<1> HIDE DEF n
<1>14. GoodRead(t)'
    BY <1>1, <1>2, <1>3, <1>4, <1>9, <1>10, <1>11 DEF GoodRead, PagesOf
<1>. QED BY <1>1, <1>2, <1>12, <1>13, <1>14 DEF GoodSave

LEMMA NotModifiedGood ==
    ASSUME ReadsInv, NEW t \in Task, NotModified(t)
    PROVE  ReadsTypes' /\ GoodCache' /\ GoodRead(t)' /\ GoodSave(t)'
<1>1. ReadsTypes /\ GoodCache /\ GoodRead(t) /\ pc[t] = "unchanged"
    BY DEF ReadsInv, NotModified
<1>2. UNCHANGED <<server, changes, context, file, tmp, entries, of, sent, saving, held, collided>>
    BY DEF NotModified, Outside, cacheVars
<1>3. /\ of[t] \in Resource /\ held[t] \in [1..Pages(of[t]) -> SUBSET Nat]
      /\ \A p \in 1..Pages(of[t]) : server[of[t]][p] \in held[t][p]
      /\ PagesOf(context, of[t], sent[t].data) /\ Len(sent[t].data) = Pages(of[t])
      /\ sent[t].data[1].version \in held[t][1]
    BY <1>1 DEF GoodRead
<1>4. /\ pc'[t] = "returned" /\ pc' \in [Task -> Steps]
      /\ body'[t] = sent[t].data /\ body' \in [Task -> Seq(APage)]
    BY <1>1, <1>3 DEF NotModified, Returns, To, ReadsTypes, Steps, PagesOf
<1>5. ReadsTypes'
    BY <1>1, <1>2, <1>4 DEF ReadsTypes
<1>6. Len(body'[t]) \in 1..Pages(of[t])
    BY <1>3, <1>4, PagesType
<1>7. GoodRead(t)'
    BY <1>2, <1>3, <1>4, <1>6 DEF GoodRead, PagesOf
<1>. QED BY <1>1, <1>2, <1>4, <1>5, <1>7, CacheKept DEF GoodSave

LEMMA StoreGood ==
    ASSUME ReadsInv, NEW t \in Task, Store(t)
    PROVE  ReadsTypes' /\ GoodCache' /\ GoodRead(t)' /\ GoodSave(t)'
<1> DEFINE r == of[t]
           e == [etag |-> sent[t].etag, data |-> body[t]]
<1>1. ReadsTypes /\ GoodCache /\ GoodRead(t) /\ pc[t] = "pages"
    BY DEF ReadsInv, Store
<1>2. UNCHANGED <<server, changes, context, file, tmp, of, sent, body, saving, held, collided>>
    BY DEF Store, Outside, taskVars
<1>3. /\ r \in Resource /\ PagesOf(context, r, body[t]) /\ Len(body[t]) = Pages(r)
      /\ sent[t].etag = <<r, body[t][1].version>>
    BY <1>1 DEF GoodRead, Answered, Store
<1>4. e \in AnEntry /\ GoodEntry(context, KeyOf(r), e)
  <2>1. sent[t] \in AnEntry /\ body[t] \in Seq(APage)
      BY <1>1 DEF ReadsTypes
  <2>2. e \in AnEntry
      BY <2>1 DEF AnEntry
  <2>3. e.etag = sent[t].etag /\ e.data = body[t]
      OBVIOUS
  <2> HIDE DEF e
  <2>. QED BY <1>3, <2>2, <2>3 DEF GoodEntry
<1>5. KeyOf(r) \in Key
    BY <1>3 DEF Key
<1>6. entries' = [entries EXCEPT ![KeyOf(r)] = e]
    BY DEF Store
<1>7. entries' \in GoodEntries(context)
  <2> HIDE DEF e
  <2>1. entries \in [Key -> AnEntry] /\ \A i \in Key : GoodEntry(context, i, entries[i])
      BY <1>1 DEF GoodCache, GoodEntries
  <2>2. entries' \in [Key -> AnEntry]
      BY <1>4, <1>6, <2>1
  <2>3. \A i \in Key : GoodEntry(context, i, entries'[i])
      BY <1>4, <1>5, <1>6, <2>1
  <2>. QED BY <2>2, <2>3 DEF GoodEntries
<1>8. pc'[t] = "save" /\ pc' \in [Task -> Steps]
    BY <1>1 DEF Store, To, ReadsTypes, Steps
<1>9. ReadsTypes'
    BY <1>1, <1>2, <1>8 DEF ReadsTypes
<1>10. GoodCache'
    BY <1>1, <1>2, <1>7 DEF GoodCache
<1>11. GoodRead(t)'
    BY <1>1, <1>2, <1>3, <1>8 DEF GoodRead, Answered, PagesOf
<1>. QED BY <1>8, <1>9, <1>10, <1>11 DEF GoodSave

LEMMA WrittenGood ==
    ASSUME ReadsTypes, GoodCache
    PROVE  GoodFile(Written) /\ Written.state = "whole"
BY DEF ReadsTypes, GoodCache, GoodFile, Written, Kept

LEMMA NoFilesGood ==
    /\ GoodFile(NoFile) /\ GoodFile(Torn)
    /\ NoFile.state = "none" /\ Torn.state = "torn"
BY DEF GoodFile, NoFile, Torn

(* A read that has its answer keeps it while the answer is saved.          *)
LEMMA AnswerKept ==
    ASSUME NEW t \in Task, GoodRead(t), pc[t] \in {"save", "write", "rename"},
           UNCHANGED <<server, context>>, pc'[t] \in {"write", "rename", "returned", "thrown"},
           of'[t] = of[t], body'[t] = body[t], held'[t] = held[t]
    PROVE  GoodRead(t)'
BY DEF GoodRead, Answered, PagesOf

LEMMA SaveGood ==
    ASSUME ReadsInv, NEW t \in Task, Save(t)
    PROVE  ReadsTypes' /\ GoodCache' /\ GoodRead(t)' /\ \A u \in Task : GoodSave(u)'
<1>1. ReadsTypes /\ GoodCache /\ GoodRead(t) /\ pc[t] = "save" /\ \A u \in Task : GoodSave(u)
    BY DEF ReadsInv, Save
<1>2. UNCHANGED <<server, changes, context, file, entries, of, sent, body, held>>
    BY DEF Save, Outside
<1>3. pc' = [pc EXCEPT ![t] = "write"] /\ pc'[t] = "write" /\ pc' \in [Task -> Steps]
    BY <1>1 DEF Save, To, ReadsTypes, Steps
<1>4. PICK n \in {t} \cup {saving[o].name : o \in {u \in Task : pc[u] \in {"write", "rename"}}} :
          /\ saving' = [saving EXCEPT ![t] = [name |-> n, content |-> Written]]
          /\ tmp' = [tmp EXCEPT ![n] = Torn]
          /\ collided' = (collided \/ n # t)
    BY DEF Save
<1>5. n \in Task
    BY <1>1, <1>4 DEF GoodSave
<1>6. /\ DOMAIN saving = Task /\ DOMAIN tmp = Task /\ pc \in [Task -> Steps]
      /\ collided \in BOOLEAN
    BY <1>1 DEF ReadsTypes
<1> DEFINE w == [name |-> n, content |-> Written]
<1>7. w.name = n /\ w.content = Written
    OBVIOUS
<1> HIDE DEF w
<1>8. saving' = [saving EXCEPT ![t] = w]
    BY <1>4 DEF w
<1>9. /\ DOMAIN saving' = Task /\ DOMAIN tmp' = Task /\ collided' \in BOOLEAN
      /\ saving'[t] = w /\ \A u \in Task \ {t} : saving'[u] = saving[u]
      /\ tmp'[n] = Torn /\ \A u \in Task \ {n} : tmp'[u] = tmp[u]
    BY <1>4, <1>5, <1>6, <1>8
<1>10. ReadsTypes'
    BY <1>1, <1>2, <1>3, <1>9 DEF ReadsTypes
<1>11. GoodCache'
  <2>1. \A u \in Task : GoodFile(tmp'[u])
      BY <1>1, <1>9, NoFilesGood DEF GoodCache
  <2>. QED BY <1>1, <1>2, <2>1 DEF GoodCache
<1>12. GoodRead(t)'
    BY <1>1, <1>2, <1>3, AnswerKept
<1>13. GoodSave(t)'
  <2>1. GoodFile(Written) /\ Written.state = "whole"
      BY <1>1, WrittenGood
  <2>2. saving'[t].name \in Task /\ GoodFile(saving'[t].content) /\ saving'[t].content.state = "whole"
      BY <1>5, <1>7, <1>9, <2>1
  <2>3. ~collided' => saving'[t].name = t /\ tmp'[t].state = "torn"
      BY <1>4, <1>7, <1>9, NoFilesGood
  <2>. QED BY <1>3, <2>2, <2>3 DEF GoodSave
<1>14. ASSUME NEW u \in Task \ {t} PROVE GoodSave(u)'
  <2>1. pc'[u] = pc[u] /\ saving'[u] = saving[u]
      BY <1>3, <1>6, <1>9
  <2>2. ~collided' => ~collided /\ tmp'[u] = tmp[u]
      BY <1>4, <1>9
  <2>. QED BY <1>1, <2>1, <2>2 DEF GoodSave
<1>. QED BY <1>10, <1>11, <1>12, <1>13, <1>14

LEMMA WriteGood ==
    ASSUME ReadsInv, NEW t \in Task, Write(t)
    PROVE  ReadsTypes' /\ GoodCache' /\ GoodRead(t)' /\ \A u \in Task : GoodSave(u)'
<1> DEFINE n == saving[t].name
           w == saving[t].content
<1>1. ReadsTypes /\ GoodCache /\ GoodRead(t) /\ pc[t] = "write" /\ \A u \in Task : GoodSave(u)
    BY DEF ReadsInv, Write
<1>2. UNCHANGED <<server, changes, context, entries, of, sent, body, saving, held, collided>>
    BY DEF Write, Outside, taskVars
<1>3. pc' = [pc EXCEPT ![t] = "rename"] /\ pc'[t] = "rename" /\ pc' \in [Task -> Steps]
    BY <1>1 DEF Write, To, ReadsTypes, Steps
<1>4. n \in Task /\ GoodFile(w) /\ w.state = "whole"
    BY <1>1 DEF GoodSave
<1>5. ~collided => n = t /\ tmp[t].state = "torn"
    BY <1>1 DEF GoodSave
<1>6. DOMAIN tmp = Task /\ pc \in [Task -> Steps]
    BY <1>1 DEF ReadsTypes
<1>7. \/ tmp[n] = NoFile /\ file' \in {w, file} /\ UNCHANGED tmp
      \/ tmp[n] # NoFile /\ tmp' = [tmp EXCEPT ![n] = w] /\ UNCHANGED file
    BY DEF Write
<1> HIDE DEF n, w
<1>8. DOMAIN tmp' = Task /\ GoodFile(file') /\ \A u \in Task : GoodFile(tmp'[u])
    BY <1>1, <1>4, <1>6, <1>7 DEF GoodCache
<1>9. ~collided => tmp'[t] = w /\ \A u \in Task \ {t} : tmp'[u] = tmp[u]
  <2>1. ~collided => tmp[n] # NoFile
      BY <1>5, NoFilesGood
  <2>. QED BY <1>4, <1>5, <1>6, <1>7, <2>1
<1>10. ReadsTypes'
    BY <1>1, <1>2, <1>3, <1>8 DEF ReadsTypes
<1>11. GoodCache'
    BY <1>1, <1>2, <1>8 DEF GoodCache
<1>12. GoodRead(t)'
    BY <1>1, <1>2, <1>3, AnswerKept
<1>13. GoodSave(t)'
    BY <1>2, <1>3, <1>4, <1>5, <1>9 DEF GoodSave, n, w
<1>14. ASSUME NEW u \in Task \ {t} PROVE GoodSave(u)'
  <2>1. pc'[u] = pc[u] /\ saving'[u] = saving[u]
      BY <1>2, <1>3, <1>6
  <2>. QED BY <1>1, <1>2, <1>9, <2>1 DEF GoodSave
<1>. QED BY <1>10, <1>11, <1>12, <1>13, <1>14

LEMMA RenameGood ==
    ASSUME ReadsInv, NEW t \in Task, Rename(t)
    PROVE  ReadsTypes' /\ GoodCache' /\ GoodRead(t)' /\ \A u \in Task : GoodSave(u)'
<1> DEFINE n == saving[t].name
<1>1. ReadsTypes /\ GoodCache /\ GoodRead(t) /\ pc[t] = "rename" /\ \A u \in Task : GoodSave(u)
    BY DEF ReadsInv, Rename
<1>2. UNCHANGED <<server, changes, context, entries, of, sent, held, collided>>
    BY DEF Rename, Outside
<1>3. n \in Task /\ (~collided => n = t)
    BY <1>1 DEF GoodSave
<1>4. /\ DOMAIN tmp = Task /\ DOMAIN saving = Task /\ pc \in [Task -> Steps]
      /\ body \in [Task -> Seq(APage)]
    BY <1>1 DEF ReadsTypes
<1>5. /\ pc' \in [Task -> Steps] /\ pc'[t] \in {"thrown", "returned"}
      /\ \A u \in Task \ {t} : pc'[u] = pc[u]
      /\ body' = body
    BY <1>4 DEF Rename, Returns, To, Steps
<1>6. \/ UNCHANGED <<file, tmp>>
      \/ file' = tmp[n] /\ tmp' = [tmp EXCEPT ![n] = NoFile]
    BY DEF Rename
<1>7. saving' = [saving EXCEPT ![t] = NoSave]
    BY DEF Rename
<1> HIDE DEF n
<1>8. /\ DOMAIN tmp' = Task /\ DOMAIN saving' = Task
      /\ GoodFile(file') /\ \A u \in Task : GoodFile(tmp'[u])
    BY <1>1, <1>3, <1>4, <1>6, <1>7, NoFilesGood DEF GoodCache
<1>9. ReadsTypes'
    BY <1>1, <1>2, <1>5, <1>8 DEF ReadsTypes
<1>10. GoodCache'
    BY <1>1, <1>2, <1>8 DEF GoodCache
<1>11. GoodRead(t)'
    BY <1>1, <1>2, <1>5, AnswerKept
<1>12. GoodSave(t)'
    BY <1>5 DEF GoodSave
<1>13. ASSUME NEW u \in Task \ {t} PROVE GoodSave(u)'
  <2>1. pc'[u] = pc[u] /\ saving'[u] = saving[u]
      BY <1>4, <1>5, <1>7
  <2>2. ~collided => tmp'[u] = tmp[u]
      BY <1>3, <1>4, <1>6
  <2>. QED BY <1>1, <1>2, <2>1, <2>2 DEF GoodSave
<1>. QED BY <1>9, <1>10, <1>11, <1>12, <1>13

LEMMA FailsGood ==
    ASSUME ReadsInv, NEW t \in Task, Fails(t)
    PROVE  ReadsTypes' /\ GoodCache' /\ GoodRead(t)' /\ GoodSave(t)'
<1>1. ReadsTypes /\ GoodCache /\ GoodRead(t) /\ pc[t] # "idle"
    BY DEF ReadsInv, Fails
<1>2. UNCHANGED <<server, changes, context, file, tmp, entries, of, sent, body, held, collided>>
    BY DEF Fails, Outside, cacheVars
<1>3. /\ pc' \in [Task -> Steps] /\ pc'[t] = "thrown" /\ DOMAIN saving' = Task
    BY <1>1 DEF Fails, To, ReadsTypes, Steps
<1>4. ReadsTypes'
    BY <1>1, <1>2, <1>3 DEF ReadsTypes
<1>5. GoodRead(t)' /\ GoodSave(t)'
    BY <1>1, <1>2, <1>3 DEF GoodRead, GoodSave, Answered
<1>. QED BY <1>1, <1>2, <1>4, <1>5, CacheKept

LEMMA EndGood ==
    ASSUME ReadsInv, NEW t \in Task, End(t)
    PROVE  ReadsTypes' /\ GoodCache' /\ GoodRead(t)' /\ GoodSave(t)'
<1>1. ReadsTypes /\ GoodCache
    BY DEF ReadsInv
<1>2. UNCHANGED <<server, changes, context, file, tmp, entries, saving, collided>>
    BY DEF End, Outside, cacheVars
<1>3. pc' \in [Task -> Steps] /\ pc'[t] = "idle"
    BY <1>1 DEF End, To, ReadsTypes, Steps
<1>4. ReadsTypes'
    BY <1>1, <1>2, <1>3, NoEntryType DEF ReadsTypes, End
<1>5. GoodRead(t)' /\ GoodSave(t)'
    BY <1>3 DEF GoodRead, GoodSave, Answered
<1>. QED BY <1>1, <1>2, <1>4, <1>5, CacheKept

(* What a read that saves nothing leaves of the others' saves.             *)
LEMMA OthersSave ==
    ASSUME ReadsTypes, NEW t \in Task, Read(t), ~Save(t), ~Write(t), ~Rename(t),
           NEW u \in Task \ {t}, GoodSave(u)
    PROVE  GoodSave(u)'
<1>1. UNCHANGED <<tmp, collided>>
    BY DEF Read, Begin, Load, Lookup, Answer, NextPage, NotModified, Store, Fails, End, cacheVars
<1>2. pc'[u] = pc[u] /\ saving'[u] = saving[u]
    BY OthersRead
<1>. QED BY <1>1, <1>2 DEF GoodSave

LEMMA ReadGood == ReadsInv /\ (\E t \in Task : Read(t)) => ReadsInv'
<1> SUFFICES ASSUME ReadsInv, NEW t \in Task, Read(t) PROVE ReadsInv'
    OBVIOUS
<1>1. ReadsTypes /\ \A u \in Task : GoodRead(u) /\ GoodSave(u)
    BY DEF ReadsInv
<1>2. ReadsTypes' /\ GoodCache' /\ GoodRead(t)'
    BY BeginGood, LoadGood, LookupGood, AnswerGood, NextPageGood, NotModifiedGood, StoreGood,
       SaveGood, WriteGood, RenameGood, FailsGood, EndGood DEF Read
<1>3. \A u \in Task \ {t} : GoodRead(u)'
    BY <1>1, OthersRead, GoodReadKept
<1>4. \A u \in Task : GoodSave(u)'
  <2>1. CASE Save(t) \/ Write(t) \/ Rename(t)
      BY <2>1, SaveGood, WriteGood, RenameGood
  <2>2. CASE ~Save(t) /\ ~Write(t) /\ ~Rename(t)
    <3>1. GoodSave(t)'
        BY <2>2, BeginGood, LoadGood, LookupGood, AnswerGood, NextPageGood, NotModifiedGood,
           StoreGood, FailsGood, EndGood DEF Read
    <3>. QED BY <1>1, <2>2, <3>1, OthersSave
  <2>. QED BY <2>1, <2>2
<1>. QED BY <1>2, <1>3, <1>4 DEF ReadsInv

(* What a process had in memory is gone; what it left in the file is good  *)
(* for the configuration it was written under.                             *)
LEMMA RestartGood == ReadsInv /\ (\E c \in Context : Restart(c)) => ReadsInv'
<1> SUFFICES ASSUME ReadsInv, NEW c \in Context, Restart(c) PROVE ReadsInv'
    OBVIOUS
<1>1. ReadsTypes /\ GoodCache
    BY DEF ReadsInv
<1>2. context' = c /\ UNCHANGED <<server, changes, file, collided>>
    BY DEF Restart
<1>3. ReadsTypes'
    BY <1>1, <1>2, NoEntryType DEF ReadsTypes, Restart, Steps
<1>4. entries' \in GoodEntries(c) /\ \A t \in Task : GoodFile(tmp'[t])
    BY NoEntriesGood, NoFilesGood DEF Restart
<1>5. GoodCache'
    BY <1>1, <1>2, <1>4 DEF GoodCache
<1>6. \A t \in Task : pc'[t] = "idle"
    BY DEF Restart
<1>7. \A t \in Task : GoodRead(t)' /\ GoodSave(t)'
    BY <1>6 DEF GoodRead, GoodSave, Answered
<1>. QED BY <1>3, <1>5, <1>7 DEF ReadsInv

(* A change adds to what the reads under way may return.                   *)
LEMMA ChangeGood ==
    ASSUME ReadsInv, NEW r \in Resource, NEW p \in 1..Pages(r), Change(r, p)
    PROVE  ReadsInv'
<1>1. ReadsTypes /\ GoodCache /\ \A t \in Task : GoodRead(t) /\ GoodSave(t)
    BY DEF ReadsInv
<1>2. UNCHANGED <<context, file, tmp, entries, pc, of, sent, body, saving, collided>>
    BY DEF Change, cacheVars
<1>3. changes' \in Nat /\ server' = [server EXCEPT ![r][p] = changes']
    BY <1>1 DEF Change, ReadsTypes
<1>4. /\ DOMAIN server' = Resource
      /\ \A q \in Resource : server'[q] \in [1..Pages(q) -> Nat]
      /\ \A q \in Resource \ {r} : server'[q] = server[q]
      /\ server'[r][p] = changes'
      /\ \A i \in 1..Pages(r) : i # p => server'[r][i] = server[r][i]
    BY <1>1, <1>3 DEF ReadsTypes
<1>5. ReadsTypes'
    BY <1>1, <1>2, <1>3, <1>4 DEF ReadsTypes, Change
<1>6. ASSUME NEW t \in Task PROVE GoodRead(t)'
  <2>1. held'[t] = IF pc[t] # "idle" /\ of[t] = r
                   THEN [held[t] EXCEPT ![p] = @ \cup {changes'}] ELSE held[t]
      BY DEF Change
  <2>2. CASE pc[t] = "idle"
      BY <1>2, <2>2 DEF GoodRead, Answered
  <2>3. CASE pc[t] # "idle"
    <3>1. /\ of[t] \in Resource /\ held[t] \in [1..Pages(of[t]) -> SUBSET Nat]
          /\ \A i \in 1..Pages(of[t]) : server[of[t]][i] \in held[t][i]
        BY <1>1, <2>3 DEF GoodRead
    <3>2. held'[t] \in [1..Pages(of[t]) -> SUBSET Nat]
      <4>1. CASE of[t] = r
        <5>1. p \in 1..Pages(of[t]) /\ held[t][p] \cup {changes'} \in SUBSET Nat
            BY <1>3, <3>1, <4>1
        <5>2. held'[t] = [held[t] EXCEPT ![p] = held[t][p] \cup {changes'}]
            BY <2>1, <2>3, <4>1
        <5>. QED BY <3>1, <5>1, <5>2
      <4>2. CASE of[t] # r
          BY <2>1, <3>1, <4>2
      <4>. QED BY <4>1, <4>2
    <3>3. \A i \in 1..Pages(of[t]) : held[t][i] \subseteq held'[t][i]
        BY <2>1, <3>1
    <3>4. \A i \in 1..Pages(of[t]) : server'[of[t]][i] \in held'[t][i]
      <4>1. CASE of[t] = r
        <5>1. held'[t] = [held[t] EXCEPT ![p] = @ \cup {changes'}]
            BY <2>1, <2>3, <4>1
        <5>2. changes' \in held'[t][p]
            BY <3>1, <4>1, <5>1
        <5>. QED BY <1>4, <3>1, <3>3, <4>1, <5>2
      <4>2. CASE of[t] # r
          BY <1>4, <3>1, <3>3, <4>2
      <4>. QED BY <4>1, <4>2
    <3>5. 1 \in 1..Pages(of[t])
        BY <3>1, PagesType
    <3>6. held[t][1] \subseteq held'[t][1]
        BY <3>3, <3>5
    <3>7. UNCHANGED <<pc, of, sent, body, context>> /\ GoodRead(t)
        BY <1>1, <1>2
    <3>8. pc[t] = "request" => GoodEntry(context, KeyOf(of[t]), sent[t])'
        BY <3>7 DEF GoodRead
    <3>9. pc[t] = "unchanged" => /\ PagesOf(context, of[t], sent[t].data)'
                                 /\ Len(sent[t].data) = Pages(of[t])
                                 /\ sent[t].data[1].version \in held'[t][1]
        BY <3>6, <3>7 DEF GoodRead
    <3>10. pc[t] \in Answered => /\ PagesOf(context, of[t], body[t])'
                                 /\ Len(body[t]) \in 1..Pages(of[t])
                                 /\ body[t][1].version \in held'[t][1]
        BY <3>6, <3>7 DEF GoodRead
    <3>. QED BY <3>1, <3>2, <3>4, <3>7, <3>8, <3>9, <3>10 DEF GoodRead
  <2>. QED BY <2>2, <2>3
<1>7. ASSUME NEW t \in Task PROVE GoodSave(t)'
    BY <1>1, <1>2 DEF GoodSave
<1>. QED BY <1>1, <1>2, <1>5, <1>6, <1>7, CacheKept DEF ReadsInv

(* What an earlier process left is good for its configuration.             *)
LEMMA ReadsInvInit == ReadsInit => ReadsInv
<1> SUFFICES ASSUME ReadsInit PROVE ReadsInv
    OBVIOUS
<1>1. ReadsTypes
  <2>1. /\ context \in Context /\ changes = 0 /\ collided = FALSE
        /\ server = [r \in Resource |-> [p \in 1..Pages(r) |-> 0]]
        /\ pc = [t \in Task |-> "idle"] /\ of = [t \in Task |-> NoRead]
        /\ sent = [t \in Task |-> NoEntry] /\ body = [t \in Task |-> <<>>]
        /\ held = [t \in Task |-> <<>>] /\ tmp = [t \in Task |-> NoFile]
        /\ saving = [t \in Task |-> NoSave]
      BY DEF ReadsInit
  <2>2. <<>> \in Seq(APage) /\ "idle" \in Steps
      BY DEF Steps
  <2>3. /\ server = [r \in Resource |-> server[r]]
        /\ \A r \in Resource : server[r] \in [1..Pages(r) -> Nat]
      BY <2>1
  <2>. QED BY <2>1, <2>2, <2>3, NoEntryType DEF ReadsTypes
<1>2. GoodFile(file)
  <2>1. PICK c \in Context, r \in Resource :
          file \in {NoFile, Torn,
                    Kept(c, [k \in Key |-> Broken]),
                    Kept(c, [k \in Key |-> IF k = KeyOf(r)
                        THEN [etag |-> <<r, 0>>,
                              data |-> [p \in 1..Pages(r) |-> Page(c, r, p, 0)]]
                        ELSE NoEntry])}
      BY DEF ReadsInit
  <2>2. [k \in Key |-> Broken] \in GoodEntries(c)
      BY DEF GoodEntries, GoodEntry, Valid, Broken, AnEntry
  <2> DEFINE answer == [p \in 1..Pages(r) |-> Page(c, r, p, 0)]
             e == [etag |-> <<r, 0>>, data |-> answer]
  <2>3. answer \in Seq(APage) /\ Len(answer) = Pages(r)
    <3>1. Pages(r) \in Nat /\ \A p \in 1..Pages(r) : Page(c, r, p, 0) \in APage
        BY PagesType, PagesAlike
    <3>. QED BY <3>1
  <2>4. \A p \in 1..Pages(r) : /\ answer[p].context = c /\ answer[p].of = r
                                /\ answer[p].page = p /\ answer[p].version = 0
      BY PagesType, PagesAlike
  <2>5. 1 \in 1..Pages(r)
      BY PagesType
  <2> HIDE DEF answer
  <2>6. e \in AnEntry /\ e.etag = <<r, 0>> /\ e.data = answer
      BY <2>3 DEF AnEntry
  <2> HIDE DEF e
  <2>7. GoodEntry(c, KeyOf(r), e)
      BY <2>3, <2>4, <2>5, <2>6 DEF GoodEntry, PagesOf
  <2>8. [k \in Key |-> IF k = KeyOf(r) THEN e ELSE NoEntry] \in GoodEntries(c)
      BY <2>6, <2>7, NoEntryType DEF GoodEntries, GoodEntry
  <2>9. \A f \in GoodEntries(c) : GoodFile(Kept(c, f))
      BY DEF GoodFile, Kept
  <2>. QED BY <2>1, <2>2, <2>8, <2>9, NoFilesGood DEF e, answer
<1>3. GoodCache
    BY <1>1, <1>2, NoEntriesGood, NoFilesGood DEF GoodCache, ReadsInit, ReadsTypes
<1>4. \A t \in Task : pc[t] = "idle"
    BY DEF ReadsInit
<1>. QED BY <1>1, <1>3, <1>4 DEF ReadsInv, GoodRead, GoodSave, Answered

LEMMA ReadsInvNext == ReadsInv /\ [ReadsNext]_readsVars => ReadsInv'
<1>1. ASSUME ReadsInv, UNCHANGED readsVars PROVE ReadsInv'
  <2>1. UNCHANGED <<server, changes, context, file, tmp, entries, pc, of, sent, body, saving,
                    held, collided>>
      BY <1>1 DEF readsVars, cacheVars, taskVars
  <2>2. ReadsTypes' /\ GoodCache'
      BY <1>1, <2>1, CacheKept DEF ReadsInv, ReadsTypes
  <2>3. ASSUME NEW t \in Task PROVE GoodRead(t)' /\ GoodSave(t)'
      BY <1>1, <2>1, GoodReadKept DEF ReadsInv, GoodSave
  <2>. QED BY <2>2, <2>3 DEF ReadsInv
<1>. QED BY <1>1, ReadGood, RestartGood, ChangeGood DEF ReadsNext

LEMMA ReadsInvariance == ReadsSpec => []ReadsInv
BY ReadsInvInit, ReadsInvNext, PTL DEF ReadsSpec

-----------------------------------------------------------------------------
(* What a read returns is of the resource it asked for, of this            *)
(* configuration and complete, and its first page is no older than the     *)
(* read (requestResource with the entry an ETag was sent for).             *)
THEOREM ReadsReturnFresh == ReadsSpec => []FirstPageFresh
<1>1. ReadsInv => FirstPageFresh
  <2> SUFFICES ASSUME ReadsInv, NEW t \in Task, pc[t] = "returned"
               PROVE  /\ Len(body[t]) = Pages(of[t])
                      /\ IsFresh(t, 1)
                      /\ \A p \in 1..Pages(of[t]) :
                            body[t][p].context = context /\ body[t][p].of = of[t]
      BY DEF FirstPageFresh
  <2>1. /\ of[t] \in Resource /\ PagesOf(context, of[t], body[t])
        /\ body[t][1].version \in held[t][1] /\ Len(body[t]) = Pages(of[t])
      BY DEF ReadsInv, GoodRead, Answered
  <2>2. 1 \in 1..Pages(of[t])
      BY <2>1, PagesType
  <2>. QED BY <2>1, <2>2 DEF PagesOf, IsFresh
<1>. QED BY <1>1, ReadsInvariance, PTL

(* Half a file is never put in place of a whole one, whatever is killed or *)
(* fails, unless two saves took one temporary file (save of the cache).    *)
THEOREM FileNeverTorn == ReadsSpec => FileStaysWhole
<1>1. ASSUME ReadsInv, [ReadsNext]_readsVars, file' = Torn PROVE file = Torn \/ collided
  <2>1. CASE UNCHANGED file
      BY <1>1, <2>1
  <2>2. CASE ~UNCHANGED file
    <3>1. PICK t \in Task : Write(t) \/ Rename(t)
        BY <1>1, <2>2 DEF ReadsNext, Read, Begin, Load, Lookup, Answer, NextPage, NotModified,
           Store, Save, Fails, End, Restart, Change, readsVars, cacheVars
    <3>2. GoodSave(t)
        BY <1>1 DEF ReadsInv
    <3>3. CASE Write(t)
      <4>1. file' = saving[t].content
          BY <2>2, <3>3 DEF Write
      <4>2. saving[t].content.state = "whole"
          BY <3>2, <3>3 DEF GoodSave, Write
      <4>. QED BY <1>1, <4>1, <4>2, NoFilesGood
    <3>4. CASE Rename(t)
      <4>1. file' = tmp[saving[t].name]
          BY <2>2, <3>4 DEF Rename
      <4>2. ~collided => tmp[saving[t].name].state = "whole"
          BY <3>2, <3>4 DEF GoodSave, Rename
      <4>. QED BY <1>1, <4>1, <4>2, NoFilesGood
    <3>. QED BY <3>1, <3>3, <3>4
  <2>. QED BY <2>1, <2>2
<1>2. ReadsInv /\ [ReadsNext]_readsVars => [file' = Torn => file = Torn \/ collided]_readsVars
    BY <1>1
<1>. QED BY <1>2, ReadsInvariance, PTL DEF ReadsSpec, FileStaysWhole

=============================================================================
