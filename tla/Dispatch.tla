------------------------------ MODULE Dispatch ------------------------------
(***************************************************************************)
(* Several cards on a Fizzy board, people working on it, and one daemon    *)
(* that dispatches them: what a tick reads and writes on the board.        *)
(*                                                                         *)
(*   - runReconciliationTick from the refresh of the routes to the queue   *)
(*     of decisions, the capacity tracker and the board writes of runCard  *)
(*     (src/reconciler.js);                                                *)
(*   - upsertWorkpad, applyCompletionPolicy and the completion markers     *)
(*     (src/completion.js);                                                *)
(*   - the queries of src/polling.js and the calls of the Fizzy client     *)
(*     that answer them (src/fizzy-sdk-adapter.js);                        *)
(*   - the default router (src/daemon.js), which is Routing.               *)
(*                                                                         *)
(* A tick reads a card once and works on what it read: people act between  *)
(* any two of its calls.  An action is one awaited call and the code that  *)
(* follows it.  Retries, sessions and timers are the subject of Lifecycle, *)
(* how daemons compete for a claim that of Claims: here a claim is "live"  *)
(* from its acquisition to its release, and lapses with its lease.         *)
(***************************************************************************)
EXTENDS Routing, Sequences

CONSTANTS Card,        \* cards, by number
          Capacity,    \* agent.max_concurrent
          Start,       \* the column every card starts in
          TicketSets,  \* the sets of golden tickets people set up
          HumanTags,   \* the tags people put on cards and take off
          Places,      \* where people put cards: records of column and state
          MaxHuman,    \* bound: what people do in a behaviour
          MaxTrouble   \* bound: that, calls that fail and crashes together

ASSUME DispatchAssumption ==
    /\ Card \subseteq Nat /\ IsFiniteSet(Card)
    /\ Capacity \in Nat \ {0}
    /\ Start \in Column
    /\ MaxHuman \in Nat /\ MaxTrouble \in Nat

VARIABLES
    (* the board *)
    card,      \* a card: where it is, its tags, its content, its comments
    pads,      \* the workpad comments of a card, in the order of posting
    tickets,   \* the golden tickets
    (* the daemon *)
    routes,    \* status.routes
    pc,        \* the call being awaited
    seen,      \* the cards as this tick has read them
    todo,      \* the candidates still to be routed
    queue,     \* the decisions to spawn still to be dispatched
    used,      \* capacity reserved in this tick
    cur,       \* the card runCard works on, and the route it was decided by
    fresh,     \* the card as it was read again for completion
    padOf,     \* status.workpads
    (* history *)
    spent,     \* the fingerprints a card ran under since a person acted on it
    unread,    \* a person acted on a card and no tick has read it since
    (* bounds *)
    human, faults

boardVars  == <<card, pads, tickets>>
tickVars   == <<routes, pc, seen, todo, queue, used, cur, fresh>>
histVars   == <<spent, unread>>
boundVars  == <<human, faults>>
vars == <<boardVars, tickVars, padOf, histVars, boundVars>>

NoCur == [card |-> 0]
NoPad == [id |-> 0, replaces |-> FALSE, tried |-> FALSE]

Place(c) == [column |-> card[c].column, state |-> card[c].state]

(* The comments of a card are kept by kind: what its claim comments say,   *)
(* whether one of them does not parse, its markers, and the number of its  *)
(* other comments.                                                         *)
NewCard == [column |-> Start, state |-> "open", tags |-> {}, content |-> 0,
            notes |-> 0, claim |-> "none", garbled |-> FALSE,
            completed |-> {}, failed |-> {}]

Init ==
    /\ card = [c \in Card |-> NewCard]
    /\ pads = [c \in Card |-> <<>>]
    /\ tickets \in TicketSets
    /\ routes = {} /\ pc = "idle"
    /\ seen = [c \in Card |-> NewCard]
    /\ todo = {} /\ queue = {} /\ used = 0
    /\ cur = NoCur /\ fresh = NewCard
    /\ padOf = [c \in Card |-> NoPad]
    /\ spent = [c \in Card |-> {}] /\ unread = [c \in Card |-> FALSE]
    /\ human = 0 /\ faults = 0

-----------------------------------------------------------------------------
(* People.                                                                 *)

Person ==
    /\ human < MaxHuman /\ faults + human < MaxTrouble
    /\ human' = human + 1
    /\ UNCHANGED <<pads, tickVars, padOf, faults>>

Touch(c, new) ==
    /\ Person
    /\ card' = [card EXCEPT ![c] = new]
    /\ spent' = [spent EXCEPT ![c] = {}]
    /\ unread' = [unread EXCEPT ![c] = TRUE]
    /\ UNCHANGED tickets

HumanRetags(c, t) ==
    Touch(c, [card[c] EXCEPT !.tags = IF t \in @ THEN @ \ {t} ELSE @ \cup {t}])

HumanPlaces(c, place) ==
    /\ place # Place(c)
    /\ Touch(c, [card[c] EXCEPT !.column = place.column, !.state = place.state])

HumanEdits(c) == card[c].content = 0 /\ Touch(c, [card[c] EXCEPT !.content = 1])

(* A comment that quotes the claim marker and holds no claim.              *)
HumanGarbles(c) == ~card[c].garbled /\ Touch(c, [card[c] EXCEPT !.garbled = TRUE])

HumanTickets(set) ==
    /\ set # tickets
    /\ Person
    /\ tickets' = set
    /\ spent' = [c \in Card |-> {}]
    /\ unread' = [c \in Card |-> TRUE]
    /\ UNCHANGED card

Human ==
    \/ \E c \in Card :
        \/ \E t \in HumanTags : HumanRetags(c, t)
        \/ \E place \in Places : HumanPlaces(c, place)
        \/ HumanEdits(c)
        \/ HumanGarbles(c)
    \/ \E set \in TicketSets : HumanTickets(set)

-----------------------------------------------------------------------------
(* A call of the daemon that fails, with or without its effect.            *)

Fault == faults + human < MaxTrouble /\ faults' = faults + 1 /\ UNCHANGED human

Quiet == UNCHANGED boundVars

Board(c, new) == card' = [card EXCEPT ![c] = new]
Unwritten     == UNCHANGED boardVars

(* The answer is lost: the write is on the board or it is not.             *)
Perhaps(c, new) == Board(c, new) \/ UNCHANGED card

(* What a fault breaks off may be run again: it accounts for one more run. *)
Forgiven == spent' = [c \in Card |-> {}] /\ UNCHANGED unread

(* Slip: a tick that ends does not return its capacity.                    *)
EndTickKeepsCapacity ==
    /\ pc' = "idle"
    /\ seen' = [c \in Card |-> NewCard] /\ fresh' = NewCard /\ cur' = NoCur
    /\ todo' = {} /\ queue' = {}
    /\ UNCHANGED <<routes, used>>

(* The tick is over: it returned, or a call of it threw.                   *)
EndTick ==
    /\ pc' = "idle"
    /\ seen' = [c \in Card |-> NewCard] /\ fresh' = NewCard /\ cur' = NoCur
    /\ todo' = {} /\ queue' = {} /\ used' = 0
    /\ UNCHANGED routes

ReadThrows(step) ==
    /\ pc = step
    /\ EndTick
    /\ Fault /\ Forgiven
    /\ Unwritten /\ UNCHANGED padOf

-----------------------------------------------------------------------------
(* The tick reads the board.                                               *)

(* refreshGoldenTicketRegistry                                             *)
WatchedTickets == {t \in tickets : t.column \in Column => BoardOf[t.column] \in Watched}

RefreshRoutes ==
    /\ pc = "idle"
    /\ ~Refused(WatchedTickets)
    /\ routes' = RoutesOf(WatchedTickets)
    /\ pc' = "list"
    /\ UNCHANGED <<boardVars, seen, todo, queue, used, cur, fresh, padOf, histVars,
                   boundVars>>

(* Tickets that cannot be routed by end the tick; the routes stay.         *)
RefreshThrows == pc = "idle" /\ Refused(WatchedTickets) /\ UNCHANGED vars

(* buildCandidateQuery asks for the open cards of the routed columns.      *)
Listed(c) ==
    /\ card[c].state # "closed"
    /\ BoardOf[card[c].column] \in Watched
    /\ RouteFor(card[c].column, routes) # {}

ListCards ==
    /\ pc = "list"
    /\ todo' = {c \in Card : Listed(c)}
    /\ seen' = [c \in Card |-> IF Listed(c) THEN card[c] ELSE NewCard]
    /\ unread' = [c \in Card |-> unread[c] /\ ~Listed(c)]
    /\ pc' = "route"
    /\ UNCHANGED <<boardVars, routes, queue, used, cur, fresh, padOf, spent,
                   boundVars>>

(* hydrateCardForRouting reads the comments, after the card was read.      *)
Hydrated(c) ==
    [card[c] EXCEPT !.column = seen[c].column, !.state = seen[c].state,
                    !.tags = seen[c].tags, !.content = seen[c].content]

RouteCandidate(c) ==
    /\ pc = "route" /\ c \in todo
    /\ ~card[c].garbled
    /\ seen' = [seen EXCEPT ![c] = Hydrated(c)]
    /\ todo' = todo \ {c}
    /\ queue' = IF Spawns(Hydrated(c), routes) THEN queue \cup {c} ELSE queue
    /\ UNCHANGED <<boardVars, routes, pc, used, cur, fresh, padOf, histVars, boundVars>>

(* readClaims throws at a claim comment that does not parse, and the tick  *)
(* with it: when the card is routed and when its claim is acquired.        *)
GarbledThrows ==
    /\ \/ pc = "route" /\ \E c \in todo : card[c].garbled
       \/ pc = "pick" /\ used < Capacity /\ \E c \in queue : card[c].garbled
            /\ \A d \in queue \ {c} : Before(c, d, seen)
    /\ EndTick
    /\ Unwritten /\ UNCHANGED <<padOf, histVars, boundVars>>

Routed ==
    /\ pc = "route" /\ todo = {}
    /\ pc' = "pick"
    /\ UNCHANGED <<boardVars, routes, seen, todo, queue, used, cur, fresh, padOf,
                   histVars, boundVars>>

-----------------------------------------------------------------------------
(* The tick dispatches.                                                    *)

DecidedRoute(c) ==
    LET route == CHOOSE r \in RouteFor(seen[c].column, routes) : TRUE
    IN Effective(route, seen[c].tags)

First(c) == c \in queue /\ \A d \in queue \ {c} : Before(c, d, seen)

(* capacity.reserve and the start of runCard.                              *)
Begin(c) ==
    /\ pc' = "prepare"
    /\ used' = used + 1
    /\ cur' = [card |-> c, route |-> DecidedRoute(c)]

(* What a person did after the card was read accounts for one more run.    *)
Spend(c) ==
    spent' = [spent EXCEPT ![c] = IF unread[c] THEN {} ELSE @ \cup {DecidedRoute(c).print}]

(* Nothing is left to dispatch, or no capacity: the rest is refused.       *)
TickEnds ==
    /\ pc = "pick"
    /\ queue = {} \/ used >= Capacity
    /\ EndTick
    /\ Unwritten /\ UNCHANGED <<padOf, histVars, boundVars>>

AcquireClaim(c) ==
    /\ pc = "pick" /\ used < Capacity
    /\ First(c) /\ ~card[c].garbled /\ card[c].claim # "live"
    /\ queue' = queue \ {c}
    /\ Board(c, [card[c] EXCEPT !.claim = "live"])
    /\ IF Rerun \in seen[c].tags
       THEN /\ pc' = "untag" /\ cur' = [card |-> c, route |-> DecidedRoute(c)]
            /\ UNCHANGED <<used, spent>>
       ELSE Begin(c) /\ Spend(c)
    /\ UNCHANGED <<pads, tickets, routes, seen, todo, fresh, padOf, unread,
                   boundVars>>

(* The client has no call that removes a tag: removeTag toggles it.        *)
Toggle(tags, t) == IF t \in tags THEN tags \ {t} ELSE tags \cup {t}

Untagged(c) == [card[c] EXCEPT !.tags = Toggle(@, Rerun)]

(* consumeRerunSignal.  A request that was withdrawn after the card was    *)
(* read is put back, and asks for a run that nobody wants any more.        *)
ConsumeRerun ==
    LET c == cur.card IN
    /\ pc = "untag"
    /\ Board(c, Untagged(c))
    /\ Begin(c)
    /\ Spend(c)
    /\ UNCHANGED <<pads, tickets, routes, seen, todo, queue, fresh, padOf, unread,
                   boundVars>>

(* The tick throws, and the claim stays without a run until it lapses.     *)
ConsumeRerunThrows ==
    /\ pc = "untag"
    /\ Perhaps(cur.card, Untagged(cur.card))
    /\ EndTick
    /\ Fault /\ Forgiven
    /\ UNCHANGED <<pads, tickets, padOf>>

-----------------------------------------------------------------------------
(* upsertWorkpad: the card's workpad comment is updated, or created.       *)

(* findWorkpadComment: a replacement before what it replaces, then the     *)
(* comment updated last, which is the one posted last.                     *)
FindWorkpad(c) ==
    LET ids      == DOMAIN pads[c]
        replaced == {i \in ids : pads[c][i].replaces}
        from     == IF replaced # {} THEN replaced ELSE ids
        last     == CHOOSE i \in from : \A j \in from : j <= i
    IN IF ids = {} THEN NoPad
       ELSE [id |-> last, replaces |-> pads[c][last].replaces, tried |-> FALSE]

(* Slip: a daemon that remembers no workpad does not look for one.         *)
ExistingRemembered(c) == padOf[c]

Existing(c) == IF padOf[c].id # 0 THEN padOf[c] ELSE FindWorkpad(c)

Post(c, replaces) ==
    pads' = [pads EXCEPT ![c] = Append(@, [replaces |-> replaces, replacement |-> replaces])]

Remember(c, pad) == padOf' = [padOf EXCEPT ![c] = pad]

(* The comment is rewritten from what is remembered of it; what is then    *)
(* remembered no longer says that it is a replacement.                     *)
UpdatePad(c) ==
    /\ Existing(c).id # 0
    /\ pads' = [pads EXCEPT ![c][Existing(c).id].replaces = Existing(c).replaces]
    /\ Remember(c, [id |-> Existing(c).id, replaces |-> FALSE, tried |-> FALSE])
    /\ UNCHANGED <<spent, unread>> /\ Quiet

CreatePad(c) ==
    /\ Existing(c).id = 0
    /\ Post(c, FALSE)
    /\ Remember(c, [id |-> Len(pads[c]) + 1, replaces |-> FALSE, tried |-> FALSE])
    /\ UNCHANGED histVars /\ Quiet

CreatePadThrows(c) ==
    /\ Existing(c).id = 0
    /\ Post(c, FALSE) \/ UNCHANGED pads
    /\ Fault /\ Forgiven
    /\ UNCHANGED padOf

(* replacementShouldBeSkipped, preservedFailedWorkpad.                     *)
Skipped(c) == Existing(c).replaces \/ Existing(c).tried

Preserve(c) == Remember(c, [Existing(c) EXCEPT !.tried = TRUE])

(* recoverWorkpadUpdateFailure: the update failed; a replacement is posted *)
(* unless there was one, or an attempt at one.                             *)
ReplacePad(c) ==
    /\ Existing(c).id # 0
    /\ Fault
    /\ IF Skipped(c)
       THEN Preserve(c) /\ UNCHANGED pads
       ELSE /\ Post(c, TRUE)
            /\ \/ /\ Remember(c, [id |-> Len(pads[c]) + 1, replaces |-> TRUE, tried |-> FALSE])
               \/ Preserve(c)     \* posted, but the answer was lost
    /\ UNCHANGED <<spent, unread>>

ReplacePadFails(c) ==
    /\ Existing(c).id # 0 /\ ~Skipped(c)
    /\ Fault
    /\ Preserve(c)
    /\ UNCHANGED <<pads, histVars>>

WorkpadDone(c) == UpdatePad(c) \/ CreatePad(c) \/ ReplacePad(c) \/ ReplacePadFails(c)

Goto(step) == pc' = step /\ UNCHANGED <<routes, seen, todo, queue, used, cur, fresh>>

Workpad(step, next) ==
    /\ pc = step
    /\ WorkpadDone(cur.card)
    /\ Goto(next)
    /\ UNCHANGED <<card, tickets>>

WorkpadThrows(step) ==
    /\ pc = step
    /\ CreatePadThrows(cur.card)
    /\ Goto("fail_release")
    /\ UNCHANGED <<card, tickets>>

-----------------------------------------------------------------------------
(* runCard, as far as the board sees it.                                   *)

StepTo(step, next) == pc = step /\ Goto(next)

RunThrows(step, next) ==
    /\ StepTo(step, next)
    /\ Fault /\ Forgiven
    /\ UNCHANGED <<pads, tickets, padOf>>

(* workspaceManager.prepare and workflowLoader.load; a worktree that       *)
(* cannot be used leaves a failure marker, another error does not.         *)
PrepareRun ==
    /\ StepTo("prepare", "pad_claimed")
    /\ UNCHANGED <<boardVars, padOf, histVars, boundVars>>

PrepareThrows ==
    \E next \in {"fail_mark", "fail_release"} :
        RunThrows("prepare", next) /\ UNCHANGED card

(* runSameThreadTurns and the after_run hook.                              *)
Work ==
    /\ StepTo("work", "pad_completed")
    /\ UNCHANGED <<boardVars, padOf, histVars, boundVars>>

WorkFails ==
    \E next \in {"fail_mark", "fail_release"} :
        RunThrows("work", next) /\ UNCHANGED card

(* refreshCardForCompletion reads the card, without its comments.  No read *)
(* of the client names a card's current route: assertRouteStillCurrent     *)
(* finds nothing to compare.                                               *)
RefreshCard ==
    /\ pc = "refresh"
    /\ fresh' = card[cur.card]
    /\ pc' = "result"
    /\ UNCHANGED <<boardVars, routes, seen, todo, queue, used, cur, padOf, histVars,
                   boundVars>>

RefreshCardThrows == RunThrows("refresh", "fail_release") /\ UNCHANGED card

(* postResultComment posts a comment without a marker.                     *)
Noted(c) == [card[c] EXCEPT !.notes = @ + 1]

PostResult ==
    /\ StepTo("result", "policy")
    /\ Board(cur.card, Noted(cur.card))
    /\ UNCHANGED <<pads, tickets, padOf, histVars, boundVars>>

PostResultThrows ==
    RunThrows("result", "fail_release") /\ Perhaps(cur.card, Noted(cur.card))

(* applyCompletionPolicy                                                   *)
Policy == cur.route.settings["completion"]

Completed(c) ==
    IF Policy = "close" THEN [card[c] EXCEPT !.state = "closed"]
    ELSE IF Policy \in Column THEN [card[c] EXCEPT !.column = Policy]
    ELSE card[c]

ApplyPolicy ==
    /\ StepTo("policy", "mark")
    /\ Board(cur.card, Completed(cur.card))
    /\ UNCHANGED <<pads, tickets, padOf, histVars, boundVars>>

PolicyFails == RunThrows("policy", "block_mark") /\ Perhaps(cur.card, Completed(cur.card))

(* The markers: the comment is posted first, then the tag is toggled.      *)
Marker(read, hydrated) ==
    [print |-> cur.route.print, digest |-> CardDigest(read, cur.route, hydrated)]

MarkedCompleted(c) == [card[c] EXCEPT !.completed = @ \cup {Marker(fresh, FALSE)}]

(* A failure is marked from the card as it was routed when runCard throws, *)
(* from the card as it was refreshed when the policy failed.               *)
MarkedFailed(c) ==
    [card[c] EXCEPT !.failed =
        @ \cup {IF pc = "block_mark" THEN Marker(fresh, FALSE) ELSE Marker(seen[c], TRUE)}]

TagOf(family) == Tag(family, cur.route.column)

Retagged(c, family) == [card[c] EXCEPT !.tags = Toggle(@, TagOf(family))]

RecordCompletionMarker ==
    /\ StepTo("mark", "tag")
    /\ Board(cur.card, MarkedCompleted(cur.card))
    /\ UNCHANGED <<pads, tickets, padOf, histVars, boundVars>>

MarkerThrows ==
    RunThrows("mark", "fail_release") /\ Perhaps(cur.card, MarkedCompleted(cur.card))

TagCompleted ==
    /\ StepTo("tag", "release")
    /\ Board(cur.card, Retagged(cur.card, "completed"))
    /\ UNCHANGED <<pads, tickets, padOf, histVars, boundVars>>

TagThrows ==
    RunThrows("tag", "fail_release") /\ Perhaps(cur.card, Retagged(cur.card, "completed"))

(* claims.release; a release that fails leaves the claim to lapse.         *)
Released(c) == [card[c] EXCEPT !.claim = "ended"]

ReleaseClaim ==
    /\ StepTo("release", "pad_handoff")
    /\ Board(cur.card, Released(cur.card))
    /\ UNCHANGED <<pads, tickets, padOf, histVars, boundVars>>

ReleaseFails ==
    RunThrows("release", "pad_handoff") /\ Perhaps(cur.card, Released(cur.card))

(* recordCompletionFailureMarker, in the blocks that know of the failure   *)
(* and in the catch block of runCard, which goes on if it fails.           *)
FailureStep == {<<"block_mark", "block_tag", "pad_failed">>,
                <<"fail_mark", "fail_tag", "fail_release">>}

RecordFailureMarker ==
    \E steps \in FailureStep :
        \/ /\ StepTo(steps[1], steps[2])
           /\ Board(cur.card, MarkedFailed(cur.card))
           /\ UNCHANGED <<pads, tickets, padOf, histVars, boundVars>>
        \/ /\ StepTo(steps[2], steps[3])
           /\ Board(cur.card, Retagged(cur.card, "failed"))
           /\ UNCHANGED <<pads, tickets, padOf, histVars, boundVars>>

FailureMarkerThrows ==
    \E steps \in FailureStep :
        \/ RunThrows(steps[1], "fail_release") /\ Perhaps(cur.card, MarkedFailed(cur.card))
        \/ RunThrows(steps[2], "fail_release")
             /\ Perhaps(cur.card, Retagged(cur.card, "failed"))

(* runCard returns, and the tick goes on to the next decision.             *)
Return == /\ pc' = "pick" /\ cur' = NoCur /\ fresh' = NewCard
          /\ UNCHANGED <<routes, seen, todo, queue, used>>

ReleaseFailed ==
    /\ pc = "fail_release"
    /\ Return
    /\ Board(cur.card, Released(cur.card))
    /\ UNCHANGED <<pads, tickets, padOf, histVars, boundVars>>

ReleaseFailedFails ==
    /\ pc = "fail_release"
    /\ Return
    /\ Perhaps(cur.card, Released(cur.card))
    /\ Fault /\ Forgiven
    /\ UNCHANGED <<pads, tickets, padOf>>

Handoff ==
    /\ pc = "pad_handoff"
    /\ WorkpadDone(cur.card)
    /\ Return
    /\ UNCHANGED <<card, tickets>>

-----------------------------------------------------------------------------
(* The process ends and another is started; the status store starts empty. *)
Crash ==
    /\ Fault /\ Forgiven
    /\ pc' = "idle" /\ routes' = {}
    /\ seen' = [c \in Card |-> NewCard] /\ fresh' = NewCard /\ cur' = NoCur
    /\ todo' = {} /\ queue' = {} /\ used' = 0
    /\ padOf' = [c \in Card |-> NoPad]
    /\ Unwritten

(* The lease of a claim nothing renews.                                    *)
Lapse(c) ==
    /\ card[c].claim = "live" /\ (cur = NoCur \/ cur.card # c)
    /\ Board(c, [card[c] EXCEPT !.claim = "lapsed"])
    /\ UNCHANGED <<pads, tickets, tickVars, padOf, histVars, boundVars>>

-----------------------------------------------------------------------------
Read ==
    \/ RefreshRoutes \/ RefreshThrows \/ ListCards \/ \E c \in Card : RouteCandidate(c)
    \/ GarbledThrows \/ Routed
    \/ \E step \in {"idle", "list", "route"} : ReadThrows(step)

Dispatching ==
    \/ TickEnds \/ \E c \in Card : AcquireClaim(c)
    \/ ConsumeRerun \/ ConsumeRerunThrows

Run ==
    \/ PrepareRun \/ PrepareThrows \/ Work \/ WorkFails
    \/ \E pad \in {<<"pad_claimed", "work">>, <<"pad_completed", "refresh">>,
                   <<"pad_failed", "fail_release">>} :
          Workpad(pad[1], pad[2]) \/ WorkpadThrows(pad[1])
    \/ RefreshCard \/ RefreshCardThrows \/ PostResult \/ PostResultThrows
    \/ ApplyPolicy \/ PolicyFails
    \/ RecordCompletionMarker \/ MarkerThrows \/ TagCompleted \/ TagThrows
    \/ ReleaseClaim \/ ReleaseFails \/ Handoff
    \/ RecordFailureMarker \/ FailureMarkerThrows
    \/ ReleaseFailed \/ ReleaseFailedFails

Tick == Read \/ Dispatching \/ Run

Next == Human \/ Tick \/ Crash \/ \E c \in Card : Lapse(c)

(* The scheduler starts tick after tick, the calls of a tick are answered, *)
(* and leases lapse.  Nothing is assumed of people and faults.             *)
Fairness == WF_vars(Tick) /\ WF_vars(\E c \in Card : Lapse(c))

Spec == Init /\ [][Next]_vars /\ Fairness

-----------------------------------------------------------------------------
TypeOK ==
    /\ \A c \in Card :
        /\ card[c].column \in Column
        /\ card[c].state \in {"open", "postponed", "golden", "closed"}
        /\ card[c].claim \in {"none", "live", "lapsed", "ended"}
        /\ padOf[c].id <= Len(pads[c])
    /\ todo \subseteq Card /\ queue \subseteq Card /\ used \in 0..Capacity
    /\ cur = NoCur \/ cur.card \in Card

(* A card is not run twice under the same golden ticket unless a person    *)
(* acted on the card or the tickets in between, or a run broke off: what   *)
(* the daemon writes on the board never makes it dispatch the card again.  *)
RunsAccounted ==
    [][pc # "prepare" /\ pc' = "prepare" => cur'.route.print \notin spent[cur'.card]]_vars

(* A card has one workpad: but for replacements, a second one is never     *)
(* posted, by a restarted daemon or after a lost answer.                   *)
OneWorkpad ==
    \A c \in Card : Cardinality({i \in DOMAIN pads[c] : ~pads[c][i].replacement}) <= 1

(* Two golden tickets cannot send cards round in a circle: no set of       *)
(* routed columns has each of its routes move cards to another of the set. *)
RoutesAcyclic ==
    \A S \in SUBSET {r.column : r \in routes} :
        S # {} => \E r \in routes : r.column \in S /\ r.settings["completion"] \notin S

(* A card that should be run is not left waiting, whatever failed before:  *)
(* as long as the tickets are sound and no claim comment is garbled.       *)
Waiting(c) ==
    /\ ~Refused(WatchedTickets)
    /\ \A d \in Card : ~card[d].garbled
    /\ Listed(c) /\ Spawns(card[c], routes)

Served == \A c \in Card : []<>~Waiting(c)

-----------------------------------------------------------------------------
(* What documents say of the program, and the code does not keep.          *)

(* SPEC.md:2394-2396, of a card that people moved, closed or               *)
(* postponed while it was worked on: a preempted run does not apply the    *)
(* completion policy of the route the card has left.                       *)
PreemptedAppliesNoPolicy ==
    [][ApplyPolicy /\ card' # card
          => fresh.column = cur.route.column /\ fresh.state # "closed"]_vars

=============================================================================
