--------------------------- MODULE DispatchProofs ---------------------------
(***************************************************************************)
(* What a daemon writes on the board never makes it run a card again, a    *)
(* card has one workpad, and no cards are sent round in a circle, for any  *)
(* number of cards, columns, tickets, people and faults.                   *)
(***************************************************************************)
EXTENDS Dispatch, FiniteSetTheorems, SequenceTheorems, WellFoundedInduction, TLAPS

-----------------------------------------------------------------------------
(* The moves of the routes (validateCompletionGraph). *)

LEMMA LeastOf ==
    ASSUME NEW M \in SUBSET Nat, M # {}
    PROVE  \E m \in M : \A j \in M : m <= j
<1>1. PICK m \in M : \A j \in M : ~(<<j, m>> \in OpToRel(<, Nat))
  BY NatLessThanWellFounded, WFMin
<1>2. \A j \in M : ~(j < m)
  BY <1>1, Zenon DEF OpToRel
<1>. QED
  BY <1>2

Follows(f, next, n) ==
    f = [k \in 0..n |-> IF k = 0 THEN DOMAIN next ELSE {c \in DOMAIN next : next[c] \in f[k - 1]}]

LEMMA FollowsExists ==
    ASSUME NEW next, NEW n \in Nat
    PROVE  \E f : Follows(f, next, n)
<1>. DEFINE Without == {m \in Nat : ~\E f : Follows(f, next, m)}
<1>1. 0 \notin Without
  <2>1. Follows([k \in 0..0 |-> DOMAIN next], next, 0)
    BY DEF Follows
  <2>. QED BY <2>1
<1>2. ASSUME NEW m \in Nat, m \notin Without PROVE m + 1 \notin Without
  <2>1. PICK f : Follows(f, next, m)
    BY <1>2
  <2>. DEFINE g == [k \in 0..(m + 1) |-> IF k = m + 1 THEN {c \in DOMAIN next : next[c] \in f[m]} ELSE f[k]]
  <2>2. \A k \in 0..m : f[k] = IF k = 0 THEN DOMAIN next ELSE {c \in DOMAIN next : next[c] \in f[k - 1]}
    BY <2>1 DEF Follows
  <2>3. \A k \in 0..m : g[k] = f[k]
    OBVIOUS
  <2>4. g[m + 1] = {c \in DOMAIN next : next[c] \in g[m]}
    BY <2>3
  <2>5. \A k \in 0..(m + 1) :
           g[k] = IF k = 0 THEN DOMAIN next ELSE {c \in DOMAIN next : next[c] \in g[k - 1]}
    <3>1. ASSUME NEW k \in 0..(m + 1), k # m + 1
          PROVE  g[k] = IF k = 0 THEN DOMAIN next ELSE {c \in DOMAIN next : next[c] \in g[k - 1]}
      <4>1. k \in 0..m /\ (k # 0 => k - 1 \in 0..m)
        BY <3>1
      <4>. HIDE DEF g
      <4>. QED BY <2>2, <2>3, <4>1
    <3>. HIDE DEF g
    <3>. QED BY <2>4, <3>1
  <2>6. g = [k \in 0..(m + 1) |-> g[k]]
    OBVIOUS
  <2>. HIDE DEF g
  <2>7. Follows(g, next, m + 1)
    BY <2>5, <2>6 DEF Follows
  <2>. QED BY <2>7
<1>3. Without = {}
  <2>1. ASSUME NEW m \in Without, \A j \in Without : m <= j PROVE FALSE
    <3>1. m # 0 /\ m - 1 \in Nat
      BY <1>1
    <3>2. m - 1 \notin Without
      BY <2>1
    <3>. QED BY <1>2, <3>1, <3>2
  <2>. QED BY <2>1, LeastOf
<1>. QED BY <1>3

(* A set of sources that moves into itself is followed for ever. *)
LEMMA CycFound ==
    ASSUME NEW rs, Cardinality(DOMAIN MovesOn(rs)) \in Nat,
           NEW S \in SUBSET DOMAIN MovesOn(rs), S # {}, \A c \in S : MovesOn(rs)[c] \in S
    PROVE  Cyclic(rs)
<1>. DEFINE next == MovesOn(rs)
            n    == Cardinality(DOMAIN next)
            goes == CHOOSE f : Follows(f, next, n)
<1>1. Follows(goes, next, n)
  BY FollowsExists
<1>2. Cyclic(rs) <=> goes[n] # {}
  BY Zenon DEF Cyclic, Follows
<1>. HIDE DEF goes
<1>. DEFINE Gone == {k \in 0..n : ~(S \subseteq goes[k])}
<1>3. \A k \in 0..n : goes[k] = IF k = 0 THEN DOMAIN next ELSE {c \in DOMAIN next : next[c] \in goes[k - 1]}
  BY <1>1 DEF Follows
<1>. HIDE DEF n
<1>4. n \in Nat
  BY DEF n
<1>5. Gone = {}
  <2>1. ASSUME NEW k \in Gone, \A j \in Gone : k <= j PROVE FALSE
    <3>1. CASE k = 0
      BY <1>3, <3>1
    <3>2. CASE k # 0
      <4>1. k - 1 \in 0..n /\ k - 1 \notin Gone
        BY <1>4, <2>1, <3>2
      <4>. QED BY <1>3, <3>2, <4>1
    <3>. QED BY <3>1, <3>2
  <2>2. Gone \in SUBSET Nat
    BY <1>4
  <2>. QED BY <2>1, <2>2, LeastOf
<1>. QED BY <1>2, <1>4, <1>5

(* Every route of a set of tickets has its column, and sound tickets send  *)
(* no cards round in a circle.                                             *)
SoundRoutes(rs) ==
    /\ \A r \in rs : DOMAIN r = {"column", "settings", "enabled", "print"}
    /\ \A r, s \in rs : r.column = s.column => r = s
    /\ \A S \in SUBSET {r.column : r \in rs} :
         S # {} => \E r \in rs : r.column \in S /\ r.settings["completion"] \notin S

LEMMA SoundTickets ==
    ASSUME NEW ts, ~Refused(ts)
    PROVE  SoundRoutes(RoutesOf(ts))
<1>. DEFINE routed == {t \in ts : Instructs(t)}
            rs     == RoutesOf(ts)
<1>1. /\ \A t \in routed : t.column \in Column
      /\ \A t, u \in routed : t.column = u.column => t = u
  BY DEF Refused, WellFormed
<1>2. rs = {RouteOf(t) : t \in routed}
  BY DEF RoutesOf
<1>3. ~Cyclic(rs)
  BY <1>2, Zenon DEF Refused
<1>4. \A r \in rs : DOMAIN r = {"column", "settings", "enabled", "print"}
  BY <1>2 DEF RouteOf
<1>5. \A r \in rs : \E t \in routed : r = RouteOf(t) /\ r.column = t.column
  BY <1>2 DEF RouteOf
<1>. HIDE DEF rs, routed
<1>6. \A r, s \in rs : r.column = s.column => r = s
  BY <1>1, <1>5
<1>7. {r.column : r \in rs} \in SUBSET Column
  BY <1>1, <1>5
<1>8. ASSUME NEW S \in SUBSET {r.column : r \in rs}, S # {},
             \A r \in rs : r.column \in S => r.settings["completion"] \in S
      PROVE  FALSE
  <2>. DEFINE sources == {r.column : r \in rs}
              movers  == {r \in rs : r.settings["completion"] \in sources}
              next    == MovesOn(rs)
  <2>1. next = [c \in {r.column : r \in movers} |->
                  (CHOOSE r \in movers : r.column = c).settings["completion"]]
    BY Zenon DEF MovesOn
  <2>2. DOMAIN next \subseteq Column
    BY <1>7, <2>1
  <2>3. Cardinality(DOMAIN next) \in Nat
    BY <2>2, RoutingAssumption, FS_Subset, FS_CardinalityType DEF RoutingAssumption
  <2>4. ASSUME NEW c \in S PROVE c \in DOMAIN next /\ next[c] \in S
    <3>1. PICK r \in rs : r.column = c
      OBVIOUS
    <3>2. r \in movers
      BY <1>8, <3>1
    <3>. DEFINE m == CHOOSE q \in movers : q.column = c
    <3>3. m \in movers /\ m.column = c
      BY <3>1, <3>2
    <3>4. c \in DOMAIN next /\ next[c] = m.settings["completion"]
      BY <2>1, <3>1, <3>2
    <3>. HIDE DEF m, next
    <3>. QED BY <1>8, <3>3, <3>4
  <2>5. S \in SUBSET DOMAIN next
    BY <2>4
  <2>. QED BY <1>3, <1>8, <2>3, <2>4, <2>5, CycFound
<1>9. SoundRoutes(rs)
  BY <1>4, <1>6, <1>8 DEF SoundRoutes
<1>. QED BY <1>9 DEF rs

-----------------------------------------------------------------------------
(* What the steps of a run have in common.                                 *)

Free  == {"idle", "list", "route", "pick"}

(* The steps of a run up to its completion marker. *)
BeforeMarker == {"prepare", "pad_claimed", "work", "pad_completed", "refresh", "result",
                 "policy", "mark"}
AfterMarker  == {"tag", "release", "pad_handoff", "block_mark", "block_tag", "pad_failed",
                 "fail_mark", "fail_tag", "fail_release"}
InRun        == BeforeMarker \cup AfterMarker

Fields == DOMAIN NewCard

NoneSpent == [c \in Card |-> {}]

(* What a run writes on a card asks for no rerun and erases no marker.     *)
Kept(old, new) ==
    /\ DOMAIN new = DOMAIN old
    /\ Rerun \in new.tags => Rerun \in old.tags
    /\ old.completed \subseteq new.completed /\ old.failed \subseteq new.failed

Rewrites(c) == \E new : Kept(card[c], new) /\ card' = [card EXCEPT ![c] = new]

LeavesMarker == \E m \in card'[cur.card].completed : m.print = cur.route.print

RunStep ==
    /\ pc \in InRun
    /\ \/ pc' \in InRun \ {"prepare"} /\ cur' = cur
       \/ pc = "fail_release" /\ pc' = "pick"
       \/ pc = "pad_handoff" /\ pc' = "pick"
    /\ UNCHANGED <<routes, seen, todo, queue, unread>>
    /\ card' = card \/ Rewrites(cur.card)
    /\ \/ spent' = NoneSpent
       \/ /\ spent' = spent
          /\ pc \in BeforeMarker => pc' \in BeforeMarker \/ LeavesMarker

LEMMA KeptMarks ==
    ASSUME NEW old, DOMAIN old = Fields, NEW marks
    PROVE  /\ Kept(old, [old EXCEPT !.completed = @ \cup marks])
           /\ Kept(old, [old EXCEPT !.failed = @ \cup marks])
  BY DEF Kept, Fields, NewCard

LEMMA KeptPlace ==
    ASSUME NEW old, DOMAIN old = Fields, NEW new
    PROVE  /\ Kept(old, old)
           /\ Kept(old, [old EXCEPT !.state = new])
           /\ Kept(old, [old EXCEPT !.column = new])
           /\ Kept(old, [old EXCEPT !.claim = new])
           /\ Kept(old, [old EXCEPT !.notes = new])
  BY DEF Kept, Fields, NewCard

LEMMA KeptTags ==
    ASSUME NEW old, DOMAIN old = Fields, NEW t, t # Rerun
    PROVE  Kept(old, [old EXCEPT !.tags = Toggle(@, t)])
  BY DEF Kept, Fields, NewCard, Toggle

LEMMA TagNotRerun ==
    ASSUME NEW family, family # "rerun"
    PROVE  TagOf(family) # Rerun
  BY DEF TagOf, Tag, Rerun

(* What a run writes on the board, and what is left if its answer is lost. *)
LEMMA RunWrites ==
    ASSUME DOMAIN card[cur.card] = Fields
    PROVE  LET c == cur.card IN
           /\ Kept(card[c], Noted(c)) /\ Kept(card[c], Completed(c))
           /\ Kept(card[c], MarkedCompleted(c)) /\ Kept(card[c], MarkedFailed(c))
           /\ Kept(card[c], Retagged(c, "completed")) /\ Kept(card[c], Retagged(c, "failed"))
           /\ Kept(card[c], Released(c))
<1>. DEFINE c == cur.card
<1>1. Kept(card[c], Noted(c)) /\ Kept(card[c], Released(c)) /\ Kept(card[c], Completed(c))
  BY KeptPlace DEF Noted, Released, Completed
<1>2. Kept(card[c], MarkedCompleted(c)) /\ Kept(card[c], MarkedFailed(c))
  BY KeptMarks DEF MarkedCompleted, MarkedFailed
<1>3. Kept(card[c], Retagged(c, "completed")) /\ Kept(card[c], Retagged(c, "failed"))
  BY KeptTags, TagNotRerun DEF Retagged
<1>. QED BY <1>1, <1>2, <1>3

LEMMA Writes ==
    ASSUME NEW c, NEW new, Kept(card[c], new), Perhaps(c, new)
    PROVE  card' = card \/ Rewrites(c)
  BY DEF Perhaps, Board, Rewrites

LEMMA MarkerLeft ==
    ASSUME cur.card \in DOMAIN card, DOMAIN card[cur.card] = Fields, RecordCompletionMarker
    PROVE  LeavesMarker
<1>. DEFINE m == Marker(fresh, FALSE)
<1>1. card'[cur.card] = [card[cur.card] EXCEPT !.completed = @ \cup {m}]
  BY DEF RecordCompletionMarker, Board, MarkedCompleted
<1>2. m.print = cur.route.print
  BY DEF Marker
<1>. HIDE DEF m
<1>3. m \in card'[cur.card].completed
  BY <1>1 DEF Fields, NewCard
<1>. QED BY <1>2, <1>3 DEF LeavesMarker

LEMMA RunKind ==
    ASSUME Run, DOMAIN card = Card, \A c \in Card : DOMAIN card[c] = Fields,
           pc \notin Free => cur.card \in Card
    PROVE  RunStep
<1>. USE DEF StepTo, Goto, RunThrows, Forgiven, NoneSpent, InRun, BeforeMarker, AfterMarker,
             histVars
<1>0. pc \in InRun => LET c == cur.card IN
        /\ Kept(card[c], Noted(c)) /\ Kept(card[c], Completed(c))
        /\ Kept(card[c], MarkedCompleted(c)) /\ Kept(card[c], MarkedFailed(c))
        /\ Kept(card[c], Retagged(c, "completed")) /\ Kept(card[c], Retagged(c, "failed"))
        /\ Kept(card[c], Released(c))
  BY RunWrites DEF Free
<1>1. CASE PrepareRun \/ PrepareThrows \/ Work \/ WorkFails \/ RefreshCard \/ RefreshCardThrows
  BY <1>1 DEF RunStep, PrepareRun, PrepareThrows, Work, WorkFails, RefreshCard,
       RefreshCardThrows, boardVars
<1>2. CASE PostResult \/ PostResultThrows
  <2>1. pc = "result" /\ Perhaps(cur.card, Noted(cur.card))
    BY <1>2 DEF PostResult, PostResultThrows, Perhaps
  <2>2. card' = card \/ Rewrites(cur.card)
    BY <1>0, <2>1, Writes
  <2>. QED BY <1>2, <2>2 DEF RunStep, PostResult, PostResultThrows
<1>3. CASE ApplyPolicy \/ PolicyFails
  <2>1. pc = "policy" /\ Perhaps(cur.card, Completed(cur.card))
    BY <1>3 DEF ApplyPolicy, PolicyFails, Perhaps
  <2>2. card' = card \/ Rewrites(cur.card)
    BY <1>0, <2>1, Writes
  <2>. QED BY <1>3, <2>2 DEF RunStep, ApplyPolicy, PolicyFails
<1>4. CASE RecordCompletionMarker \/ MarkerThrows
  <2>1. pc = "mark" /\ Perhaps(cur.card, MarkedCompleted(cur.card))
    BY <1>4 DEF RecordCompletionMarker, MarkerThrows, Perhaps
  <2>2. card' = card \/ Rewrites(cur.card)
    BY <1>0, <2>1, Writes
  <2>3. RecordCompletionMarker => LeavesMarker
    BY <2>1, MarkerLeft DEF Free
  <2>. QED BY <1>4, <2>2, <2>3 DEF RunStep, RecordCompletionMarker, MarkerThrows
<1>5. CASE TagCompleted \/ TagThrows
  <2>1. pc = "tag" /\ Perhaps(cur.card, Retagged(cur.card, "completed"))
    BY <1>5 DEF TagCompleted, TagThrows, Perhaps
  <2>2. card' = card \/ Rewrites(cur.card)
    BY <1>0, <2>1, Writes
  <2>. QED BY <1>5, <2>2 DEF RunStep, TagCompleted, TagThrows
<1>6. CASE ReleaseClaim \/ ReleaseFails \/ ReleaseFailed \/ ReleaseFailedFails
  <2>1. pc \in {"release", "fail_release"} /\ Perhaps(cur.card, Released(cur.card))
    BY <1>6 DEF ReleaseClaim, ReleaseFails, ReleaseFailed, ReleaseFailedFails, Perhaps
  <2>2. card' = card \/ Rewrites(cur.card)
    BY <1>0, <2>1, Writes
  <2>. QED BY <1>6, <2>2 DEF RunStep, ReleaseClaim, ReleaseFails, ReleaseFailed,
                 ReleaseFailedFails, Return
<1>7. CASE RecordFailureMarker \/ FailureMarkerThrows
  <2>1. \/ pc \in {"block_mark", "fail_mark"} /\ Perhaps(cur.card, MarkedFailed(cur.card))
        \/ pc \in {"block_tag", "fail_tag"} /\ Perhaps(cur.card, Retagged(cur.card, "failed"))
    BY <1>7 DEF RecordFailureMarker, FailureMarkerThrows, FailureStep, Perhaps
  <2>2. card' = card \/ Rewrites(cur.card)
    BY <1>0, <2>1, Writes
  <2>3. /\ UNCHANGED <<cur, routes, seen, todo, queue, unread>>
        /\ spent' \in {spent, NoneSpent}
        /\ pc' \in {"block_tag", "pad_failed", "fail_tag", "fail_release"}
    BY <1>7 DEF RecordFailureMarker, FailureMarkerThrows, FailureStep
  <2>. QED BY <2>1, <2>2, <2>3 DEF RunStep
<1>8. ASSUME NEW pad \in {<<"pad_claimed", "work">>, <<"pad_completed", "refresh">>,
                          <<"pad_failed", "fail_release">>},
             Workpad(pad[1], pad[2]) \/ WorkpadThrows(pad[1])
      PROVE  RunStep
  <2>1. /\ pc = pad[1] /\ pc' \in {pad[2], "fail_release"}
        /\ UNCHANGED <<card, cur, routes, seen, todo, queue, unread>>
        /\ spent' = NoneSpent \/ (spent' = spent /\ pc' = pad[2])
    BY <1>8 DEF Workpad, WorkpadThrows, WorkpadDone, UpdatePad, CreatePad, ReplacePad,
         ReplacePadFails, CreatePadThrows
  <2>. QED BY <2>1 DEF RunStep
<1>9. CASE Handoff
  BY <1>9 DEF RunStep, Handoff, Return, WorkpadDone, UpdatePad, CreatePad, ReplacePad,
       ReplacePadFails
<1>. QED BY <1>1, <1>2, <1>3, <1>4, <1>5, <1>6, <1>7, <1>8, <1>9 DEF Run

-----------------------------------------------------------------------------
(* The shapes of the variables, as far as they matter.                     *)

Cards == DOMAIN card = Card /\ \A c \in Card : DOMAIN card[c] = Fields
Reads == DOMAIN seen = Card /\ DOMAIN spent = Card /\ unread \in [Card -> BOOLEAN]

Queues ==
    /\ todo \subseteq Card /\ queue \subseteq Card
    /\ pc # "route" => todo = {}
    /\ pc \in {"idle", "list"} => queue = {}
    /\ pc \notin Free => cur.card \in Card \ queue

Shape == Cards /\ Reads /\ Queues

LEMMA CardsWritten ==
    ASSUME Cards, NEW c, NEW new, DOMAIN new = DOMAIN card[c], Board(c, new)
    PROVE  Cards'
  BY DEF Cards, Board

LEMMA CardsPerhaps ==
    ASSUME Cards, NEW c, NEW new, DOMAIN new = DOMAIN card[c], Perhaps(c, new)
    PROVE  Cards'
  BY CardsWritten DEF Perhaps, Cards

(* A tick that ends, and a daemon that ends. *)
LEMMA EndsShape ==
    ASSUME Shape, Cards', EndTick \/ Crash, UNCHANGED histVars \/ Forgiven
    PROVE  Shape'
  BY DEF EndTick, Crash, Forgiven, histVars, Shape, Reads, Queues, Free

LEMMA TouchShape ==
    ASSUME Shape, NEW c \in Card, NEW new, DOMAIN new = DOMAIN card[c], Touch(c, new)
    PROVE  Shape'
<1>1. Cards'
  BY CardsWritten DEF Touch, Shape, Board
<1>2. Reads'
  BY DEF Touch, Person, tickVars, Shape, Reads
<1>3. Queues'
  BY DEF Touch, Person, tickVars, Shape, Queues
<1>. QED BY <1>1, <1>2, <1>3 DEF Shape

LEMMA HumanShape ==
    ASSUME Shape, Human
    PROVE  Shape'
<1>1. ASSUME NEW c \in Card, \/ \E t \in HumanTags : HumanRetags(c, t)
                             \/ \E place \in Places : HumanPlaces(c, place)
                             \/ HumanEdits(c) \/ HumanGarbles(c)
      PROVE  Shape'
  <2>1. \E new : DOMAIN new = DOMAIN card[c] /\ Touch(c, new)
    BY <1>1 DEF HumanRetags, HumanPlaces, HumanEdits, HumanGarbles
  <2>. QED BY <2>1, TouchShape
<1>2. ASSUME NEW set \in TicketSets, HumanTickets(set) PROVE Shape'
  BY <1>2 DEF HumanTickets, Person, tickVars, Shape, Cards, Reads, Queues
<1>. QED BY <1>1, <1>2 DEF Human

LEMMA ReadShape ==
    ASSUME Shape, Read
    PROVE  Shape'
<1>1. CASE RefreshRoutes \/ RefreshThrows \/ ListCards \/ Routed
  BY <1>1 DEF RefreshRoutes, RefreshThrows, ListCards, Routed, Shape, Cards, Reads, Queues,
       Free, boardVars, tickVars, histVars, vars
<1>2. ASSUME NEW c \in Card, RouteCandidate(c) PROVE Shape'
  BY <1>2 DEF RouteCandidate, Shape, Cards, Reads, Queues, Free, boardVars, histVars
<1>3. CASE GarbledThrows \/ \E step \in {"idle", "list", "route"} : ReadThrows(step)
  <2>1. EndTick /\ Cards' /\ (UNCHANGED histVars \/ Forgiven)
    BY <1>3 DEF GarbledThrows, ReadThrows, Unwritten, boardVars, Shape, Cards
  <2>. QED BY <2>1, EndsShape
<1>. QED BY <1>1, <1>2, <1>3 DEF Read

LEMMA DispatchingShape ==
    ASSUME Shape, Dispatching
    PROVE  Shape'
<1>1. CASE TickEnds
  <2>1. EndTick /\ Cards' /\ UNCHANGED histVars
    BY <1>1 DEF TickEnds, Unwritten, boardVars, Shape, Cards
  <2>. QED BY <2>1, EndsShape
<1>2. ASSUME NEW c \in Card, AcquireClaim(c) PROVE Shape'
  <2>1. Cards'
    BY <1>2, CardsWritten DEF AcquireClaim, Shape
  <2>2. Reads'
    BY <1>2 DEF AcquireClaim, Begin, Spend, Shape, Reads
  <2>3. Queues'
    BY <1>2 DEF AcquireClaim, Begin, Shape, Queues, Free
  <2>. QED BY <2>1, <2>2, <2>3 DEF Shape
<1>3. CASE ConsumeRerun
  <2>1. Cards'
    BY <1>3, CardsWritten DEF ConsumeRerun, Untagged, Shape
  <2>2. Reads'
    BY <1>3 DEF ConsumeRerun, Spend, Shape, Reads
  <2>3. Queues'
    BY <1>3 DEF ConsumeRerun, Begin, Shape, Queues, Free
  <2>. QED BY <2>1, <2>2, <2>3 DEF Shape
<1>4. CASE ConsumeRerunThrows
  <2>1. Cards'
    BY <1>4, CardsPerhaps DEF ConsumeRerunThrows, Untagged, Shape
  <2>. QED BY <1>4, <2>1, EndsShape DEF ConsumeRerunThrows
<1>. QED BY <1>1, <1>2, <1>3, <1>4 DEF Dispatching

LEMMA RunShape ==
    ASSUME Shape, RunStep
    PROVE  Shape'
<1>1. Cards'
  BY DEF RunStep, Rewrites, Kept, Shape, Cards
<1>2. Reads'
  BY DEF RunStep, NoneSpent, Shape, Reads
<1>3. Queues'
  BY DEF RunStep, Shape, Queues, InRun, BeforeMarker, AfterMarker, Free
<1>. QED BY <1>1, <1>2, <1>3 DEF Shape

LEMMA RunIs ==
    ASSUME Shape, Run
    PROVE  RunStep
  BY RunKind DEF Shape, Cards, Queues

LEMMA LapseShape ==
    ASSUME Shape, NEW c \in Card, Lapse(c)
    PROVE  Shape'
<1>1. Cards'
  BY CardsWritten DEF Lapse, Shape
<1>. QED BY <1>1 DEF Lapse, tickVars, histVars, Shape, Reads, Queues

LEMMA ShapeInit == Init => Shape
  BY DEF Init, Shape, Cards, Reads, Queues, Fields, Free

LEMMA ShapeStep == Shape /\ [Next]_vars => Shape'
<1>. SUFFICES ASSUME Shape, [Next]_vars PROVE Shape'
  OBVIOUS
<1>1. CASE Crash
  <2>1. Cards'
    BY <1>1 DEF Crash, Unwritten, boardVars, Shape, Cards
  <2>. QED BY <1>1, <2>1, EndsShape DEF Crash
<1>2. CASE UNCHANGED vars
  BY <1>2 DEF vars, boardVars, tickVars, histVars, Shape, Cards, Reads, Queues
<1>. QED BY <1>1, <1>2, HumanShape, ReadShape, DispatchingShape, RunIs, RunShape, LapseShape
        DEF Next, Tick

-----------------------------------------------------------------------------
(* The routes of a tick.                                                   *)

RoutesKept ==
    \/ routes' = routes
    \/ routes' = {}
    \/ ~Refused(WatchedTickets) /\ routes' = RoutesOf(WatchedTickets)

LEMMA RoutesOnlyRefreshed ==
    ASSUME Shape, [Next]_vars
    PROVE  RoutesKept
<1>1. CASE Human
  BY <1>1 DEF Human, HumanRetags, HumanPlaces, HumanEdits, HumanGarbles, HumanTickets, Touch,
       Person, tickVars, RoutesKept
<1>2. CASE Read
  BY <1>2 DEF Read, RefreshRoutes, RefreshThrows, ListCards, RouteCandidate, GarbledThrows,
       Routed, ReadThrows, EndTick, vars, tickVars, RoutesKept
<1>3. CASE Dispatching
  BY <1>3 DEF Dispatching, TickEnds, AcquireClaim, ConsumeRerun, ConsumeRerunThrows, EndTick,
       RoutesKept
<1>4. CASE Run
  BY <1>4, RunIs DEF RunStep, RoutesKept
<1>5. CASE Crash \/ (\E c \in Card : Lapse(c)) \/ UNCHANGED vars
  BY <1>5 DEF Crash, Lapse, vars, tickVars, RoutesKept
<1>. QED BY <1>1, <1>2, <1>3, <1>4, <1>5 DEF Next, Tick

LEMMA SoundStep == Shape /\ SoundRoutes(routes) /\ [Next]_vars => SoundRoutes(routes')
<1>. SUFFICES ASSUME Shape, SoundRoutes(routes), [Next]_vars PROVE SoundRoutes(routes')
  OBVIOUS
<1>1. SoundRoutes({})
  BY DEF SoundRoutes
<1>2. CASE routes' = RoutesOf(WatchedTickets) /\ ~Refused(WatchedTickets)
  BY <1>2, SoundTickets
<1>. QED BY <1>1, <1>2, RoutesOnlyRefreshed DEF RoutesKept

RoutedInv == Shape /\ SoundRoutes(routes)

LEMMA RoutedAlways == Spec => []RoutedInv
<1>1. Init => RoutedInv
  <2>1. Init => SoundRoutes(routes)
    BY DEF Init, SoundRoutes
  <2>. QED BY <2>1, ShapeInit DEF RoutedInv
<1>2. RoutedInv /\ [Next]_vars => RoutedInv'
  BY ShapeStep, SoundStep DEF RoutedInv
<1>. QED BY <1>1, <1>2, PTL DEF Spec

(* Whatever golden tickets people set up, the routes a tick dispatches by  *)
(* never move cards round in a circle: discoverGoldenTicketRoutes refuses  *)
(* such tickets, for any number of columns, tickets and moves.             *)
THEOREM NoCircle == Spec => []RoutesAcyclic
<1>1. RoutedInv => RoutesAcyclic
  BY DEF RoutedInv, SoundRoutes, RoutesAcyclic
<1>. QED BY <1>1, RoutedAlways, PTL

-----------------------------------------------------------------------------
(* Workpads.                                                               *)

Pad    == [replaces : BOOLEAN, replacement : BOOLEAN]
PadRef == [id : Nat, replaces : BOOLEAN, tried : BOOLEAN]

(* Only a card's first workpad comment is no replacement.                  *)
PadsInv ==
    /\ pads \in [Card -> Seq(Pad)] /\ padOf \in [Card -> PadRef]
    /\ \A c \in Card : padOf[c].id <= Len(pads[c])
    /\ \A c \in Card : \A i \in DOMAIN pads[c] : i > 1 => pads[c][i].replacement

LEMMA LastOf ==
    ASSUME NEW n \in Nat, NEW M \in SUBSET (1..n), M # {}
    PROVE  \E m \in M : \A j \in M : j <= m
<1>. DEFINE Below == {n - i : i \in M}
<1>1. Below \in SUBSET Nat
  OBVIOUS
<1>2. Below # {}
  <2>1. PICK i \in M : TRUE
    OBVIOUS
  <2>2. n - i \in Below
    OBVIOUS
  <2>. QED BY <2>2
<1>3. PICK b \in Below : \A j \in Below : b <= j
  BY <1>1, <1>2, LeastOf
<1>4. PICK m \in M : b = n - m
  OBVIOUS
<1>5. \A j \in M : n - j \in Below
  OBVIOUS
<1>. HIDE DEF Below
<1>6. \A j \in M : n - m <= n - j
  BY <1>3, <1>4, <1>5
<1>. QED BY <1>6

(* A card that has a workpad comment has one that is found.                *)
LEMMA FindsPad ==
    ASSUME PadsInv, NEW c \in Card
    PROVE  /\ Existing(c) \in PadRef
           /\ Existing(c).id <= Len(pads[c])
           /\ Existing(c).id = 0 => pads[c] = << >>
<1>1. /\ pads[c] \in Seq(Pad) /\ padOf[c] \in PadRef
      /\ padOf[c].id <= Len(pads[c])
  BY DEF PadsInv
<1>2. CASE padOf[c].id # 0
  BY <1>1, <1>2 DEF Existing
<1>3. CASE padOf[c].id = 0 /\ DOMAIN pads[c] = {}
  <2>1. Existing(c) = NoPad
    BY <1>3 DEF Existing, FindWorkpad
  <2>2. Len(pads[c]) = 0
    <3>1. DOMAIN pads[c] = 1..Len(pads[c]) /\ Len(pads[c]) \in Nat
      BY <1>1
    <3>2. 1 \notin DOMAIN pads[c]
      BY <1>3
    <3>. QED BY <3>1, <3>2
  <2>3. pads[c] = << >>
    BY <1>1, <2>2, EmptySeq
  <2>. QED BY <2>1, <2>2, <2>3 DEF NoPad, PadRef
<1>4. CASE padOf[c].id = 0 /\ DOMAIN pads[c] # {}
  <2>. DEFINE ids      == DOMAIN pads[c]
              replaced == {i \in ids : pads[c][i].replaces}
              from     == IF replaced # {} THEN replaced ELSE ids
              last     == CHOOSE i \in from : \A j \in from : j <= i
  <2>1. Existing(c) = [id |-> last, replaces |-> pads[c][last].replaces, tried |-> FALSE]
    BY <1>4, Zenon DEF Existing, FindWorkpad
  <2>2. ids = 1..Len(pads[c]) /\ Len(pads[c]) \in Nat
    BY <1>1
  <2>3. from \in SUBSET (1..Len(pads[c])) /\ from # {}
    BY <1>4, <2>2
  <2>. HIDE DEF from
  <2>4. last \in from
    BY <2>2, <2>3, LastOf
  <2>. HIDE DEF last
  <2>5. last \in 1..Len(pads[c])
    BY <2>3, <2>4
  <2>6. pads[c][last] \in Pad
    BY <1>1, <2>5
  <2>. QED BY <2>1, <2>2, <2>5, <2>6 DEF PadRef, Pad
<1>. QED BY <1>2, <1>3, <1>4

LEMMA Posted ==
    ASSUME PadsInv, NEW c \in Card, NEW replaces \in BOOLEAN, Post(c, replaces),
           pads[c] = << >> \/ replaces,
           padOf' = padOf \/ \E pad \in PadRef : Remember(c, pad) /\ pad.id <= Len(pads[c]) + 1
    PROVE  PadsInv'
<1>. DEFINE new == [replaces |-> replaces, replacement |-> replaces]
<1>1. new \in Pad
  BY DEF Pad
<1>2. /\ pads[c] \in Seq(Pad) /\ Len(pads[c]) \in Nat
      /\ \A d \in Card : Len(pads[d]) \in Nat /\ padOf[d] \in PadRef
  BY DEF PadsInv
<1>3. pads' = [pads EXCEPT ![c] = Append(pads[c], new)]
  BY DEF Post
<1>4. /\ Append(pads[c], new) \in Seq(Pad)
      /\ Len(Append(pads[c], new)) = Len(pads[c]) + 1
      /\ \A i \in DOMAIN Append(pads[c], new) :
            IF i = Len(pads[c]) + 1 THEN Append(pads[c], new)[i] = new
            ELSE i \in DOMAIN pads[c] /\ Append(pads[c], new)[i] = pads[c][i]
  BY <1>1, <1>2
<1>. HIDE DEF new
<1>5. pads' \in [Card -> Seq(Pad)]
  BY <1>3, <1>4 DEF PadsInv
<1>6. padOf' \in [Card -> PadRef]
  BY DEF PadsInv, Remember
<1>7. \A d \in Card : padOf'[d].id <= Len(pads'[d])
  BY <1>2, <1>3, <1>4 DEF PadsInv, Remember, PadRef
<1>8. \A d \in Card : \A i \in DOMAIN pads'[d] : i > 1 => pads'[d][i].replacement
  <2>1. ASSUME NEW i \in DOMAIN pads'[c], i > 1 PROVE pads'[c][i].replacement
    <3>1. new.replacement = replaces
      BY DEF new
    <3>2. pads'[c] = Append(pads[c], new)
      BY <1>3 DEF PadsInv
    <3>3. CASE i = Len(pads[c]) + 1
      <4>1. pads[c] # << >>
        BY <2>1, <3>3
      <4>. QED BY <1>4, <3>1, <3>2, <3>3, <4>1
    <3>4. CASE i # Len(pads[c]) + 1
      BY <1>4, <2>1, <3>2, <3>4 DEF PadsInv
    <3>. QED BY <3>3, <3>4
  <2>2. ASSUME NEW d \in Card, d # c PROVE pads'[d] = pads[d]
    BY <1>3, <2>2 DEF PadsInv
  <2>. QED BY <2>1, <2>2 DEF PadsInv
<1>. QED BY <1>5, <1>6, <1>7, <1>8 DEF PadsInv

LEMMA Amended ==
    ASSUME PadsInv, NEW c \in Card, NEW pad \in PadRef, Remember(c, pad),
           pad.id <= Len(pads[c]),
           \/ pads' = pads
           \/ \E replaces \in BOOLEAN, i \in DOMAIN pads[c] :
                pads' = [pads EXCEPT ![c][i].replaces = replaces]
    PROVE  PadsInv'
<1>1. pads' \in [Card -> Seq(Pad)] /\ \A d \in Card : Len(pads'[d]) = Len(pads[d])
  <2>1. ASSUME NEW replaces \in BOOLEAN, NEW i \in DOMAIN pads[c],
               pads' = [pads EXCEPT ![c][i].replaces = replaces]
        PROVE  /\ pads'[c] \in Seq(Pad) /\ Len(pads'[c]) = Len(pads[c])
               /\ pads' = [pads EXCEPT ![c] = pads'[c]]
    <3>1. pads[c] \in Seq(Pad) /\ i \in 1..Len(pads[c]) /\ pads[c][i] \in Pad
      BY DEF PadsInv
    <3>2. pads'[c] = [pads[c] EXCEPT ![i] = [pads[c][i] EXCEPT !.replaces = replaces]]
      BY <2>1 DEF PadsInv
    <3>3. [pads[c][i] EXCEPT !.replaces = replaces] \in Pad
      BY <3>1 DEF Pad
    <3>. QED BY <2>1, <3>1, <3>2, <3>3 DEF PadsInv
  <2>. QED BY <2>1 DEF PadsInv
<1>2. padOf' \in [Card -> PadRef] /\ \A d \in Card : padOf'[d].id <= Len(pads[d])
  BY DEF PadsInv, Remember
<1>3. \A d \in Card : \A i \in DOMAIN pads'[d] : i > 1 => pads'[d][i].replacement
  <2>1. ASSUME NEW replaces \in BOOLEAN, NEW i \in DOMAIN pads[c],
               pads' = [pads EXCEPT ![c][i].replaces = replaces],
               NEW d \in Card, NEW j \in DOMAIN pads'[d]
        PROVE  j \in DOMAIN pads[d] /\ pads'[d][j].replacement = pads[d][j].replacement
    <3>1. pads[d] \in Seq(Pad) /\ j \in 1..Len(pads[d])
      BY <1>1 DEF PadsInv
    <3>2. pads[d][j] \in Pad
      BY <3>1
    <3>3. CASE d = c /\ j = i
      <4>1. pads'[d][j] = [pads[c][i] EXCEPT !.replaces = replaces]
        BY <2>1, <3>3 DEF PadsInv
      <4>. QED BY <3>1, <3>2, <3>3, <4>1 DEF Pad
    <3>4. CASE ~(d = c /\ j = i)
      BY <2>1, <3>1, <3>4 DEF PadsInv
    <3>. QED BY <3>3, <3>4
  <2>. QED BY <2>1 DEF PadsInv
<1>. QED BY <1>1, <1>2, <1>3 DEF PadsInv

LEMMA WorkpadStep ==
    ASSUME PadsInv, NEW c \in Card, WorkpadDone(c) \/ CreatePadThrows(c)
    PROVE  PadsInv'
<1>0. /\ Existing(c) \in PadRef /\ Existing(c).id <= Len(pads[c])
      /\ Existing(c).id = 0 => pads[c] = << >>
      /\ Len(pads[c]) \in Nat /\ DOMAIN pads[c] = 1..Len(pads[c])
  BY FindsPad DEF PadsInv
<1>1. CASE UpdatePad(c)
  <2>1. Existing(c).id \in DOMAIN pads[c] /\ Existing(c).replaces \in BOOLEAN
    BY <1>0, <1>1 DEF UpdatePad, PadRef
  <2>2. [id |-> Existing(c).id, replaces |-> FALSE, tried |-> FALSE] \in PadRef
    BY <1>0 DEF PadRef
  <2>. QED BY <1>0, <1>1, <2>1, <2>2, Amended DEF UpdatePad
<1>2. CASE CreatePad(c)
  <2>. DEFINE pad == [id |-> Len(pads[c]) + 1, replaces |-> FALSE, tried |-> FALSE]
  <2>1. pad \in PadRef /\ pad.id <= Len(pads[c]) + 1
    BY <1>0 DEF PadRef
  <2>2. Remember(c, pad) /\ Post(c, FALSE) /\ pads[c] = << >>
    BY <1>0, <1>2 DEF CreatePad
  <2>. HIDE DEF pad
  <2>. QED BY <2>1, <2>2, Posted
<1>3. ASSUME Preserve(c), UNCHANGED pads \/ Post(c, TRUE) PROVE PadsInv'
  <2>. DEFINE pad == [Existing(c) EXCEPT !.tried = TRUE]
  <2>1. pad \in PadRef /\ pad.id = Existing(c).id
    BY <1>0 DEF PadRef
  <2>2. Remember(c, pad)
    BY <1>3 DEF Preserve
  <2>. HIDE DEF pad
  <2>3. pad.id <= Len(pads[c]) /\ pad.id <= Len(pads[c]) + 1
    BY <1>0, <2>1 DEF PadRef
  <2>4. CASE UNCHANGED pads
    BY <2>1, <2>2, <2>3, <2>4, Amended
  <2>5. CASE Post(c, TRUE)
    BY <2>1, <2>2, <2>3, <2>5, Posted
  <2>. QED BY <1>3, <2>4, <2>5
<1>4. CASE ReplacePad(c)
  <2>1. CASE Post(c, TRUE)
             /\ Remember(c, [id |-> Len(pads[c]) + 1, replaces |-> TRUE, tried |-> FALSE])
    <3>. DEFINE pad == [id |-> Len(pads[c]) + 1, replaces |-> TRUE, tried |-> FALSE]
    <3>1. pad \in PadRef /\ pad.id <= Len(pads[c]) + 1
      BY <1>0 DEF PadRef
    <3>2. Remember(c, pad) /\ Post(c, TRUE)
      BY <2>1
    <3>. HIDE DEF pad
    <3>. QED BY <3>1, <3>2, Posted
  <2>. QED BY <1>3, <1>4, <2>1 DEF ReplacePad
<1>5. CASE ReplacePadFails(c)
  BY <1>3, <1>5 DEF ReplacePadFails
<1>6. CASE CreatePadThrows(c)
  <2>1. CASE UNCHANGED pads
    BY <1>6, <2>1 DEF CreatePadThrows, PadsInv
  <2>2. CASE Post(c, FALSE)
    BY <1>0, <1>6, <2>2, Posted DEF CreatePadThrows
  <2>. QED BY <1>6, <2>1, <2>2 DEF CreatePadThrows
<1>. QED BY <1>1, <1>2, <1>4, <1>5, <1>6 DEF WorkpadDone

LEMMA PadsOnlyUpserted ==
    ASSUME Shape, [Next]_vars
    PROVE  \/ UNCHANGED <<pads, padOf>>
           \/ UNCHANGED pads /\ padOf' = [c \in Card |-> NoPad]
           \/ cur.card \in Card /\ (WorkpadDone(cur.card) \/ CreatePadThrows(cur.card))
<1>1. CASE Human
  BY <1>1 DEF Human, HumanRetags, HumanPlaces, HumanEdits, HumanGarbles, HumanTickets, Touch,
       Person
<1>2. CASE Read
  BY <1>2 DEF Read, RefreshRoutes, RefreshThrows, ListCards, RouteCandidate, GarbledThrows,
       Routed, ReadThrows, Unwritten, boardVars, vars
<1>3. CASE Dispatching
  BY <1>3 DEF Dispatching, TickEnds, AcquireClaim, ConsumeRerun, ConsumeRerunThrows, Unwritten,
       boardVars
<1>4. CASE Run
  <2>1. CASE \/ Handoff
             \/ \E pad \in {<<"pad_claimed", "work">>, <<"pad_completed", "refresh">>,
                            <<"pad_failed", "fail_release">>} :
                  Workpad(pad[1], pad[2]) \/ WorkpadThrows(pad[1])
    BY <2>1 DEF Handoff, Workpad, WorkpadThrows, StepTo, Shape, Queues, Free
  <2>2. CASE \/ PrepareRun \/ PrepareThrows \/ Work \/ WorkFails \/ RefreshCard
             \/ RefreshCardThrows \/ PostResult \/ PostResultThrows \/ ApplyPolicy
             \/ PolicyFails \/ RecordCompletionMarker \/ MarkerThrows
    BY <2>2 DEF PrepareRun, PrepareThrows, Work, WorkFails, RefreshCard, RefreshCardThrows,
         PostResult, PostResultThrows, ApplyPolicy, PolicyFails, RecordCompletionMarker,
         MarkerThrows, RunThrows, boardVars
  <2>3. CASE \/ TagCompleted \/ TagThrows \/ ReleaseClaim \/ ReleaseFails
             \/ RecordFailureMarker \/ FailureMarkerThrows \/ ReleaseFailed
             \/ ReleaseFailedFails
    BY <2>3 DEF TagCompleted, TagThrows, ReleaseClaim, ReleaseFails, RecordFailureMarker,
         FailureMarkerThrows, ReleaseFailed, ReleaseFailedFails, RunThrows
  <2>. QED BY <1>4, <2>1, <2>2, <2>3 DEF Run
<1>5. CASE Crash \/ (\E c \in Card : Lapse(c)) \/ UNCHANGED vars
  BY <1>5 DEF Crash, Lapse, Unwritten, boardVars, vars
<1>. QED BY <1>1, <1>2, <1>3, <1>4, <1>5 DEF Next, Tick

LEMMA PadsAlways == Spec => [](Shape /\ PadsInv)
<1>1. Init => PadsInv
  BY DEF Init, PadsInv, PadRef, NoPad
<1>2. Shape /\ PadsInv /\ [Next]_vars => PadsInv'
  <2>. SUFFICES ASSUME Shape, PadsInv, [Next]_vars PROVE PadsInv'
    OBVIOUS
  <2>1. CASE UNCHANGED pads /\ padOf' \in {padOf, [c \in Card |-> NoPad]}
    <3>1. NoPad \in PadRef /\ NoPad.id = 0
      BY DEF PadRef, NoPad
    <3>2. \A c \in Card : Len(pads[c]) \in Nat
      BY DEF PadsInv
    <3>3. padOf' \in [Card -> PadRef] /\ \A c \in Card : padOf'[c].id <= Len(pads[c])
      BY <2>1, <3>1, <3>2 DEF PadsInv
    <3>. QED BY <2>1, <3>3 DEF PadsInv
  <2>. QED BY <2>1, PadsOnlyUpserted, WorkpadStep
<1>. QED BY <1>1, <1>2, ShapeInit, ShapeStep, PTL DEF Spec

(* A card has one workpad, for any number of cards, runs, lost answers and *)
(* crashes: upsertWorkpad posts a comment that replaces nothing only on a  *)
(* card that has no workpad comment at all.                                *)
THEOREM OneWorkpadEach == Spec => []OneWorkpad
<1>1. PadsInv => OneWorkpad
  <2>. SUFFICES ASSUME PadsInv, NEW c \in Card
                PROVE  Cardinality({i \in DOMAIN pads[c] : ~pads[c][i].replacement}) <= 1
    BY DEF OneWorkpad
  <2>1. DOMAIN pads[c] \subseteq Nat \ {0}
    BY DEF PadsInv
  <2>2. {i \in DOMAIN pads[c] : ~pads[c][i].replacement} \in SUBSET {1}
    BY <2>1 DEF PadsInv
  <2>3. /\ IsFiniteSet({1}) /\ Cardinality({1}) = 1
    BY FS_Singleton
  <2>. QED BY <2>2, <2>3, FS_Subset, FS_CardinalityType
<1>. QED BY <1>1, PadsAlways, PTL

-----------------------------------------------------------------------------
(* Runs.  A card that was run under a ticket since a person last acted on  *)
(* it bears a marker of that ticket, or is being run.                      *)

Marked(c, print) == \E m \in card[c].completed \cup card[c].failed : m.print = print
Owed(c, print)   == pc \in BeforeMarker /\ cur.card = c /\ cur.route.print = print

(* A card nobody touched is as the tick has read it.                       *)
AsRead(c) == ~unread[c] => seen[c].tags = card[c].tags

Unspent(c) == DecidedRoute(c).print \notin spent[c]

Paid == \A c \in Card : \A print \in spent[c] :
            Rerun \notin card[c].tags /\ (Marked(c, print) \/ Owed(c, print))

Accounted ==
    /\ \A c \in Card : unread[c] => spent[c] = {}
    /\ Paid
    /\ \A c \in todo \cup queue : AsRead(c)
    /\ \A c \in queue : Unspent(c)
    /\ pc = "untag" => LET c == cur.card IN
          Rerun \in seen[c].tags /\ AsRead(c) /\ Unspent(c)

AccountInv == RoutedInv /\ Accounted

(* A route is chosen by its column alone, and tags never change its print. *)
LEMMA DecidedPrint ==
    ASSUME SoundRoutes(routes), NEW c, NEW r \in RouteFor(seen[c].column, routes)
    PROVE  DecidedRoute(c).print = r.print
<1>. DEFINE route == CHOOSE q \in RouteFor(seen[c].column, routes) : TRUE
<1>1. route \in RouteFor(seen[c].column, routes)
  OBVIOUS
<1>2. DecidedRoute(c) = Effective(route, seen[c].tags)
  BY Zenon DEF DecidedRoute
<1>. HIDE DEF route
<1>3. route = r
  BY <1>1 DEF SoundRoutes, RouteFor
<1>4. DOMAIN r = {"column", "settings", "enabled", "print"}
  BY DEF SoundRoutes, RouteFor
<1>. QED BY <1>2, <1>3, <1>4 DEF Effective

(* What stays true of a card that is not written, or written by the daemon. *)
LEMMA MarkedKept ==
    ASSUME NEW c, NEW new, Kept(card[c], new), NEW print, Marked(c, print)
    PROVE  \E m \in new.completed \cup new.failed : m.print = print
  BY DEF Marked, Kept

(* A step that writes no card but as the daemon does, runs none and reads  *)
(* none.                                                                   *)
Calm ==
    /\ UNCHANGED <<unread, seen, routes>>
    /\ \A c \in Card : Kept(card[c], card'[c])
    /\ \A c \in todo' \cup queue' : card'[c].tags = card[c].tags
    /\ todo' \subseteq todo /\ queue' \subseteq queue
    /\ spent' = spent
    /\ \A c \in Card : \A print : Owed(c, print) => Marked(c, print)' \/ Owed(c, print)'

LEMMA CalmAccounted ==
    ASSUME Shape, Accounted, Calm, pc' # "untag"
    PROVE  Accounted'
<1>1. \A c \in Card : \A print \in spent'[c] :
         Rerun \notin card'[c].tags /\ (Marked(c, print)' \/ Owed(c, print)')
  BY DEF Calm, Kept, Accounted, Paid, Marked
<1>2. \A c \in todo' \cup queue' : AsRead(c)'
  BY DEF Calm, Accounted, AsRead
<1>3. \A c \in queue' : Unspent(c)'
  BY DEF Calm, Accounted, Unspent, DecidedRoute
<1>. QED BY <1>1, <1>2, <1>3 DEF Accounted, Paid, Calm

(* A tick or a daemon that is broken off accounts for one more run.        *)
LEMMA EndsAccounted ==
    ASSUME Shape, Accounted, pc' = "idle", todo' = {}, queue' = {}, spent' = NoneSpent
    PROVE  Accounted'
<1>. QED BY DEF Accounted, Paid, NoneSpent

LEMMA TouchAccounted ==
    ASSUME Shape, Accounted, NEW c \in Card, NEW new, Touch(c, new)
    PROVE  Accounted'
<1>1. /\ card' = [card EXCEPT ![c] = new] /\ spent' = [spent EXCEPT ![c] = {}]
      /\ unread' = [unread EXCEPT ![c] = TRUE]
      /\ UNCHANGED <<routes, pc, seen, todo, queue, cur>>
  BY DEF Touch, Person, tickVars
<1>2. \A d \in Card : IF d = c THEN spent'[d] = {} /\ unread'[d]
                      ELSE card'[d] = card[d] /\ spent'[d] = spent[d] /\ unread'[d] = unread[d]
  BY <1>1 DEF Shape, Cards, Reads
<1>3. \A d \in Card : unread'[d] => spent'[d] = {}
  BY <1>2 DEF Accounted
<1>4. Paid'
  BY <1>1, <1>2 DEF Accounted, Paid, Marked, Owed
<1>5. \A d \in Card : (AsRead(d) => AsRead(d)') /\ (Unspent(d) => Unspent(d)')
  BY <1>1, <1>2 DEF AsRead, Unspent, DecidedRoute
<1>6. todo \cup queue \subseteq Card /\ (pc = "untag" => cur.card \in Card)
  BY DEF Shape, Queues, Free
<1>. QED BY <1>1, <1>3, <1>4, <1>5, <1>6 DEF Accounted

LEMMA HumanAccounted ==
    ASSUME Shape, Accounted, Human
    PROVE  Accounted'
<1>1. ASSUME NEW c \in Card, \/ \E t \in HumanTags : HumanRetags(c, t)
                             \/ \E place \in Places : HumanPlaces(c, place)
                             \/ HumanEdits(c) \/ HumanGarbles(c)
      PROVE  Accounted'
  <2>1. \E new : Touch(c, new)
    BY <1>1 DEF HumanRetags, HumanPlaces, HumanEdits, HumanGarbles
  <2>. QED BY <2>1, TouchAccounted
<1>2. ASSUME NEW set \in TicketSets, HumanTickets(set) PROVE Accounted'
  <2>1. /\ card' = card /\ spent' = NoneSpent /\ unread' = [c \in Card |-> TRUE]
        /\ UNCHANGED <<routes, pc, seen, todo, queue, cur>>
    BY <1>2 DEF HumanTickets, Person, tickVars, NoneSpent
  <2>2. todo \cup queue \subseteq Card /\ (pc = "untag" => cur.card \in Card)
    BY DEF Shape, Queues, Free
  <2>. QED BY <2>1, <2>2 DEF Accounted, Paid, AsRead, Unspent, NoneSpent
<1>. QED BY <1>1, <1>2 DEF Human

(* Without rerun on change a marker of a ticket keeps the card from being  *)
(* routed by it, unless the card asks for a rerun.                         *)
LEMMA SpawnsUnspent ==
    ASSUME ~OnChange, Shape, SoundRoutes(routes), Accounted, pc = "route",
           NEW c \in todo, seen' = [seen EXCEPT ![c] = Hydrated(c)],
           Spawns(Hydrated(c), routes), NEW print \in spent[c],
           NEW r \in RouteFor(Hydrated(c).column, routes), r.print = print
    PROVE  FALSE
<1>1. c \in Card /\ DOMAIN card[c] = Fields
  BY DEF Shape, Cards, Queues
<1>2. /\ Hydrated(c).tags = seen[c].tags
      /\ Hydrated(c).completed = card[c].completed /\ Hydrated(c).failed = card[c].failed
  BY <1>1 DEF Hydrated, Fields, NewCard
<1>3. ~unread[c] /\ AsRead(c)
  BY <1>1 DEF Accounted
<1>4. Rerun \notin card[c].tags /\ Marked(c, print)
  BY <1>1 DEF Accounted, Paid, Owed, BeforeMarker
<1>5. Rerun \notin Hydrated(c).tags
  BY <1>2, <1>3, <1>4 DEF AsRead
<1>6. PICK m \in Hydrated(c).completed \cup Hydrated(c).failed : m.print = print
  BY <1>2, <1>4 DEF Marked
<1>7. PICK q \in RouteFor(Hydrated(c).column, routes) :
         \A n \in Hydrated(c).completed \cup Hydrated(c).failed : ~Blocks(n, Hydrated(c), q)
  BY <1>5 DEF Spawns
<1>8. q = r
  BY DEF SoundRoutes, RouteFor
<1>. QED BY <1>6, <1>7, <1>8 DEF Blocks

LEMMA RouteAccounted ==
    ASSUME ~OnChange, Shape, SoundRoutes(routes), Accounted, NEW c \in Card, RouteCandidate(c)
    PROVE  Accounted'
<1>1. /\ pc = "route" /\ pc' = "route" /\ c \in todo /\ seen' = [seen EXCEPT ![c] = Hydrated(c)]
      /\ todo' = todo \ {c} /\ queue' \subseteq queue \cup {c}
      /\ c \in queue' => c \in queue \/ Spawns(Hydrated(c), routes)
      /\ UNCHANGED <<card, routes, cur, spent, unread>>
  BY DEF RouteCandidate, boardVars, histVars
<1>2. seen'[c] = Hydrated(c) /\ \A d \in Card \ {c} : seen'[d] = seen[d]
  BY <1>1 DEF Shape, Reads
<1>3. Hydrated(c).tags = seen[c].tags /\ Hydrated(c).column = seen[c].column
  BY DEF Hydrated, Shape, Cards, Fields, NewCard
<1>4. \A d \in todo' \cup queue' : AsRead(d)'
  BY <1>1, <1>2, <1>3 DEF AsRead, Accounted, Shape, Queues
<1>5. \A d \in queue : DecidedRoute(d)' = DecidedRoute(d)
  BY <1>1, <1>2, <1>3 DEF DecidedRoute, Shape, Queues
<1>6. ASSUME c \in queue', c \notin queue PROVE Unspent(c)'
  <2>1. Spawns(Hydrated(c), routes)
    BY <1>1, <1>6
  <2>2. PICK r \in RouteFor(Hydrated(c).column, routes) : TRUE
    BY <2>1 DEF Spawns
  <2>3. DecidedRoute(c)' = DecidedRoute(c)
    BY <1>1, <1>2, <1>3 DEF DecidedRoute
  <2>4. DecidedRoute(c).print = r.print
    BY <1>3, <2>2, DecidedPrint
  <2>5. r.print \notin spent[c]
    BY <1>1, <2>1, <2>2, SpawnsUnspent
  <2>. QED BY <1>1, <2>3, <2>4, <2>5 DEF Unspent
<1>7. \A d \in queue' : Unspent(d)'
  BY <1>1, <1>5, <1>6 DEF Unspent, Accounted
<1>8. Paid'
  BY <1>1 DEF Accounted, Paid, Marked, Owed
<1>. QED BY <1>1, <1>4, <1>7, <1>8 DEF Accounted

LEMMA ReadAccounted ==
    ASSUME ~OnChange, Shape, SoundRoutes(routes), Accounted, Read
    PROVE  Accounted'
<1>1. CASE RefreshRoutes \/ RefreshThrows
  <2>1. /\ UNCHANGED <<card, seen, todo, queue, cur, spent, unread>>
        /\ pc = "idle" /\ pc' \in {"idle", "list"} /\ queue = {} /\ todo = {}
    BY <1>1 DEF RefreshRoutes, RefreshThrows, boardVars, tickVars, histVars, vars, Shape, Queues
  <2>. QED BY <2>1 DEF Accounted, Paid, Marked, Owed, BeforeMarker
<1>2. CASE ListCards
  <2>1. /\ UNCHANGED <<card, queue, cur, spent>> /\ queue = {} /\ pc = "list" /\ pc' = "route"
        /\ todo' \subseteq Card /\ \A c \in todo' : seen'[c] = card[c]
        /\ \A c \in Card : unread'[c] => unread[c]
    BY <1>2 DEF ListCards, boardVars, Shape, Queues
  <2>. QED BY <2>1 DEF Accounted, Paid, Marked, Owed, AsRead, BeforeMarker
<1>3. CASE Routed
  <2>1. /\ UNCHANGED <<card, routes, seen, todo, queue, cur, spent, unread>>
        /\ pc = "route" /\ pc' = "pick"
    BY <1>3 DEF Routed, boardVars, histVars
  <2>. QED BY <2>1 DEF Accounted, Paid, Marked, Owed, AsRead, Unspent, DecidedRoute, BeforeMarker
<1>4. CASE GarbledThrows
  <2>1. /\ UNCHANGED <<card, spent, unread>> /\ pc \in {"route", "pick"} /\ pc' = "idle"
        /\ todo' = {} /\ queue' = {}
    BY <1>4 DEF GarbledThrows, EndTick, Unwritten, boardVars, histVars
  <2>. QED BY <2>1 DEF Accounted, Paid, Marked, Owed, BeforeMarker
<1>5. ASSUME NEW step, ReadThrows(step) PROVE Accounted'
  BY <1>5, EndsAccounted DEF ReadThrows, EndTick, Forgiven, NoneSpent
<1>. QED BY <1>1, <1>2, <1>3, <1>4, <1>5, RouteAccounted DEF Read

(* A run that begins: the card no longer asks for it.                      *)
LEMMA BegunPaid ==
    ASSUME Shape, Accounted, NEW c \in Card, pc \in {"pick", "untag"}, Begin(c), Spend(c),
           DOMAIN card' = Card, \A d \in Card \ {c} : card'[d] = card[d],
           card[c].completed \subseteq card'[c].completed,
           card[c].failed \subseteq card'[c].failed,
           ~unread[c] => Rerun \notin card'[c].tags
    PROVE  Paid'
<1>1. \A d \in Card : spent'[d] = IF d # c THEN spent[d]
                                  ELSE IF unread[c] THEN {}
                                  ELSE spent[c] \cup {DecidedRoute(c).print}
  BY DEF Spend, Shape, Reads
<1>2. pc' = "prepare" /\ cur'.card = c /\ cur'.route.print = DecidedRoute(c).print
  BY DEF Begin
<1>3. \A d \in Card : \A print \in spent[d] : Rerun \notin card[d].tags /\ Marked(d, print)
  BY DEF Accounted, Paid, Owed, BeforeMarker
<1>4. \A d \in Card : \A print : Marked(d, print) => Marked(d, print)'
  BY DEF Marked
<1>. QED BY <1>1, <1>2, <1>3, <1>4 DEF Paid, Owed, BeforeMarker

LEMMA AcquireAccounted ==
    ASSUME Shape, Accounted, NEW c \in Card, AcquireClaim(c)
    PROVE  Accounted'
<1>1. /\ pc = "pick" /\ c \in queue /\ queue' = queue \ {c} /\ todo = {} /\ todo' = {}
      /\ card' = [card EXCEPT ![c] = [card[c] EXCEPT !.claim = "live"]]
      /\ UNCHANGED <<routes, seen, unread>>
  BY DEF AcquireClaim, First, Board, Shape, Queues
<1>2. /\ DOMAIN card' = Card /\ \A d \in Card \ {c} : card'[d] = card[d]
      /\ Kept(card[c], card'[c]) /\ card'[c].tags = card[c].tags
  BY <1>1, KeptPlace DEF Shape, Cards, Fields, NewCard
<1>3. \A d \in Card : AsRead(d)' = AsRead(d) /\ DecidedRoute(d)' = DecidedRoute(d)
  BY <1>1, <1>2 DEF AsRead, DecidedRoute
<1>4. AsRead(c) /\ Unspent(c)
  BY <1>1 DEF Accounted
<1>5. queue \subseteq Card
  BY DEF Shape, Queues
<1>6. CASE Rerun \in seen[c].tags
  <2>1. pc' = "untag" /\ cur'.card = c /\ spent' = spent
    BY <1>6 DEF AcquireClaim
  <2>2. Paid'
    BY <1>1, <1>2, <2>1 DEF Accounted, Paid, Owed, Marked, Kept, BeforeMarker
  <2>. QED BY <1>1, <1>3, <1>4, <1>5, <1>6, <2>1, <2>2 DEF Accounted, Unspent
<1>7. CASE Rerun \notin seen[c].tags
  <2>1. Begin(c) /\ Spend(c)
    BY <1>7 DEF AcquireClaim
  <2>2. Paid'
    BY <1>1, <1>2, <1>4, <1>7, <2>1, BegunPaid DEF Kept, AsRead
  <2>3. \A d \in Card : IF d = c THEN unread[c] => spent'[c] = {} ELSE spent'[d] = spent[d]
    BY <2>1 DEF Spend, Shape, Reads
  <2>4. pc' = "prepare"
    BY <2>1 DEF Begin
  <2>. QED BY <1>1, <1>3, <1>5, <2>2, <2>3, <2>4 DEF Accounted, Unspent
<1>. QED BY <1>6, <1>7

LEMMA ConsumeAccounted ==
    ASSUME Shape, Accounted, ConsumeRerun
    PROVE  Accounted'
<1>. DEFINE c == cur.card
<1>1. /\ pc = "untag" /\ c \in Card \ queue /\ queue' = queue /\ todo = {} /\ todo' = {}
      /\ card' = [card EXCEPT ![c] = Untagged(c)]
      /\ UNCHANGED <<routes, seen, unread>>
      /\ Begin(c) /\ Spend(c)
  BY DEF ConsumeRerun, Board, Shape, Queues, Free
<1>2. /\ DOMAIN card' = Card /\ \A d \in Card \ {c} : card'[d] = card[d]
      /\ card'[c].completed = card[c].completed /\ card'[c].failed = card[c].failed
      /\ card'[c].tags = Toggle(card[c].tags, Rerun)
  BY <1>1 DEF Shape, Cards, Fields, NewCard, Untagged
<1>3. ~unread[c] => Rerun \notin card'[c].tags
  BY <1>1, <1>2 DEF Accounted, AsRead, Toggle
<1>4. PICK d \in Card : d = c
  BY <1>1
<1>5. Paid'
  BY <1>1, <1>2, <1>3, <1>4, BegunPaid
<1>6. \A e \in Card : IF e = c THEN unread[c] => spent'[c] = {} ELSE spent'[e] = spent[e]
  BY <1>1 DEF Spend, Shape, Reads
<1>7. \A e \in queue : e \in Card /\ e # c
  BY <1>1 DEF Shape, Queues
<1>. HIDE DEF c
<1>8. \A e \in queue : AsRead(e)'
  BY <1>1, <1>2, <1>7 DEF Accounted, AsRead
<1>9. \A e \in queue : Unspent(e)'
  <2>1. \A e \in queue : DecidedRoute(e)' = DecidedRoute(e)
    BY <1>1 DEF DecidedRoute
  <2>2. \A e \in queue : Unspent(e)
    BY DEF Accounted
  <2>. QED BY <1>6, <1>7, <2>1, <2>2 DEF Unspent
<1>10. pc' = "prepare"
  BY <1>1 DEF Begin
<1>. QED BY <1>1, <1>5, <1>6, <1>8, <1>10, <1>9 DEF Accounted

LEMMA DispatchingAccounted ==
    ASSUME Shape, Accounted, Dispatching
    PROVE  Accounted'
<1>1. CASE TickEnds
  <2>1. /\ UNCHANGED <<card, spent, unread>> /\ pc = "pick" /\ pc' = "idle"
        /\ todo' = {} /\ queue' = {}
    BY <1>1 DEF TickEnds, EndTick, Unwritten, boardVars, histVars
  <2>. QED BY <2>1 DEF Accounted, Paid, Marked, Owed, BeforeMarker
<1>2. CASE ConsumeRerunThrows
  BY <1>2, EndsAccounted DEF ConsumeRerunThrows, EndTick, Forgiven, NoneSpent
<1>. QED BY <1>1, <1>2, AcquireAccounted, ConsumeAccounted DEF Dispatching

LEMMA RunAccounted ==
    ASSUME Shape, Accounted, RunStep
    PROVE  Accounted'
<1>1. /\ pc \in InRun /\ cur.card \in Card \ queue /\ todo = {} /\ todo' = {}
      /\ queue' = queue /\ pc' # "untag" /\ UNCHANGED <<routes, seen, unread>>
      /\ queue \subseteq Card
  BY DEF RunStep, Shape, Queues, InRun, BeforeMarker, AfterMarker, Free
<1>2. /\ DOMAIN card' = Card
      /\ \A c \in Card : c # cur.card => card'[c] = card[c]
      /\ \A c \in Card : Kept(card[c], card'[c])
  BY <1>1 DEF RunStep, Rewrites, Kept, Shape, Cards
<1>3. CASE spent' = NoneSpent
  <2>1. \A c \in queue : AsRead(c)'
    BY <1>1, <1>2 DEF Accounted, AsRead
  <2>. QED BY <1>1, <1>3, <2>1 DEF Accounted, Paid, Unspent, NoneSpent
<1>4. CASE spent' = spent /\ (pc \in BeforeMarker => pc' \in BeforeMarker \/ LeavesMarker)
  <2>1. ASSUME NEW c \in Card, NEW print, Owed(c, print) PROVE Marked(c, print)' \/ Owed(c, print)'
    <3>1. pc \in BeforeMarker /\ cur' = cur
      BY <2>1 DEF Owed, RunStep, BeforeMarker
    <3>2. CASE pc' \in BeforeMarker
      BY <2>1, <3>1, <3>2 DEF Owed
    <3>3. CASE LeavesMarker
      BY <2>1, <3>3 DEF Owed, Marked, LeavesMarker
    <3>. QED BY <1>4, <3>1, <3>2, <3>3
  <2>2. Calm
    BY <1>1, <1>2, <1>4, <2>1 DEF Calm
  <2>. QED BY <1>1, <2>2, CalmAccounted
<1>. QED BY <1>3, <1>4 DEF RunStep

LEMMA LapseAccounted ==
    ASSUME Shape, Accounted, NEW c \in Card, Lapse(c)
    PROVE  Accounted'
<1>1. /\ card' = [card EXCEPT ![c] = [card[c] EXCEPT !.claim = "lapsed"]]
      /\ UNCHANGED <<routes, pc, seen, todo, queue, cur, spent, unread>>
  BY DEF Lapse, Board, tickVars, histVars
<1>2. \A d \in Card : /\ card'[d].tags = card[d].tags /\ card'[d].completed = card[d].completed
                      /\ card'[d].failed = card[d].failed
  BY <1>1 DEF Shape, Cards, Fields, NewCard
<1>3. todo \cup queue \subseteq Card /\ (pc = "untag" => cur.card \in Card)
  BY DEF Shape, Queues, Free
<1>. QED BY <1>1, <1>2, <1>3 DEF Accounted, Paid, Marked, Owed, AsRead, Unspent, DecidedRoute

LEMMA AccountInit == Init => Accounted
  BY DEF Init, Accounted, Paid

LEMMA AccountStep ==
    ASSUME ~OnChange
    PROVE  RoutedInv /\ Accounted /\ [Next]_vars => Accounted'
<1>. SUFFICES ASSUME Shape, SoundRoutes(routes), Accounted, [Next]_vars PROVE Accounted'
  BY DEF RoutedInv
<1>1. CASE Crash
  BY <1>1, EndsAccounted DEF Crash, Forgiven, NoneSpent
<1>2. CASE UNCHANGED vars
  <2>1. UNCHANGED <<card, routes, pc, seen, todo, queue, cur, spent, unread>>
    BY <1>2 DEF vars, boardVars, tickVars, histVars
  <2>2. \A c : AsRead(c)' = AsRead(c) /\ DecidedRoute(c)' = DecidedRoute(c)
    BY <2>1 DEF AsRead, DecidedRoute
  <2>3. Paid'
    BY <2>1 DEF Accounted, Paid, Marked, Owed
  <2>. QED BY <2>1, <2>2, <2>3 DEF Accounted, Unspent
<1>. QED BY <1>1, <1>2, HumanAccounted, ReadAccounted, DispatchingAccounted, RunIs, RunAccounted,
          LapseAccounted DEF Next, Tick

LEMMA AccountAlways ==
    ASSUME ~OnChange
    PROVE  Spec => []AccountInv
<1>1. Init => AccountInv
  BY AccountInit, ShapeInit DEF AccountInv, RoutedInv, Init, SoundRoutes
<1>2. AccountInv /\ [Next]_vars => AccountInv'
  BY AccountStep, ShapeStep, SoundStep DEF AccountInv, RoutedInv
<1>. QED BY <1>1, <1>2, PTL DEF Spec

(* A run begins by acquiring a claim or by consuming a rerun request.      *)
LEMMA BeginsUnspent ==
    ASSUME RoutedInv, Accounted, [Next]_vars, pc # "prepare", pc' = "prepare"
    PROVE  cur'.route.print \notin spent[cur'.card]
<1>1. Shape
  BY DEF RoutedInv
<1>2. ~Human /\ ~Crash /\ ~UNCHANGED vars /\ \A c \in Card : ~Lapse(c)
  BY DEF Human, HumanRetags, HumanPlaces, HumanEdits, HumanGarbles, HumanTickets, Touch, Person,
     Crash, Lapse, tickVars, vars
<1>3. ~Read
  BY DEF Read, RefreshRoutes, RefreshThrows, ListCards, RouteCandidate, GarbledThrows, Routed,
     ReadThrows, EndTick, vars, tickVars
<1>4. ~Run
  BY <1>1, RunIs DEF RunStep
<1>5. ASSUME NEW c \in Card, AcquireClaim(c)
      PROVE  cur'.route.print \notin spent[cur'.card]
  BY <1>5 DEF AcquireClaim, First, Begin, Accounted, Unspent
<1>6. CASE ConsumeRerun
  BY <1>6 DEF ConsumeRerun, Begin, Accounted, Unspent
<1>7. ~TickEnds /\ ~ConsumeRerunThrows
  BY DEF TickEnds, ConsumeRerunThrows, EndTick
<1>. QED BY <1>2, <1>3, <1>4, <1>5, <1>6, <1>7 DEF Next, Tick, Dispatching

(* When cards run again only if a tag asks for it (explicit_tag_only, the  *)
(* default of src/config.js), what the daemon writes on a card never makes *)
(* it run the card again: a card that runs under a golden ticket has not   *)
(* run under it since a person last acted on it or a run broke off, for    *)
(* any number of cards, tickets, people and faults.                        *)
THEOREM NoRunTwice == ASSUME ~OnChange PROVE Spec => RunsAccounted
<1>1. AccountInv /\ [Next]_vars =>
        [pc # "prepare" /\ pc' = "prepare" => cur'.route.print \notin spent[cur'.card]]_vars
  BY BeginsUnspent DEF AccountInv
<1>. QED BY <1>1, AccountAlways, PTL DEF Spec, RunsAccounted

=============================================================================
