------------------------------ MODULE Routing -------------------------------
(***************************************************************************)
(* From golden tickets to routes, and from a card to a decision.           *)
(*                                                                         *)
(*   - discoverGoldenTicketRoutes, parseGoldenTicketRoute, parseCompletion *)
(*     and validateCompletionGraph (src/validation.js);                    *)
(*   - routeCard, its override rules and sortDispatchCandidates            *)
(*     (src/router.js);                                                    *)
(*   - cardDigest (src/domain.js).                                         *)
(*                                                                         *)
(* A tag is the family its prefix names and a value; "invalid" stands for  *)
(* the values its family's parser refuses.  A digest is the record of what *)
(* is digested: SHA-256 is taken to have no collisions.                    *)
(***************************************************************************)
EXTENDS Naturals, FiniteSets

CONSTANTS Column,        \* columns, of every board
          BoardOf,       \* the board of a column
          Watched,       \* boards.entries that are enabled
          Models,        \* agent.allowed_models
          Workspaces,    \* workspaces.registry
          Allowed,       \* allowed_card_overrides of the boards
          CardCompletion,\* completion.allow_card_completion_override
          Postponed,     \* routing.allow_postponed_cards
          OnChange       \* routing.rerun.mode is not explicit_tag_only

ASSUME RoutingAssumption ==
    /\ DOMAIN BoardOf = Column /\ IsFiniteSet(Column)
    /\ CardCompletion \in BOOLEAN /\ Postponed \in BOOLEAN /\ OnChange \in BOOLEAN

Invalid == "invalid"
Default == "default"

(* ROUTE_FIELDS, and the other families a ticket's or a card's tag is of.  *)
Field    == {"backend", "model", "workspace", "persona", "priority", "completion"}
Overridable == Allowed \cap Field

Tag(family, value) == [family |-> family, value |-> value]
Rerun == Tag("rerun", Default)

Values(tags, family) == {t.value : t \in {u \in tags : u.family = family}}

-----------------------------------------------------------------------------
(* Golden tickets.  A ticket is a golden card: its column, or none, and    *)
(* its tags.                                                               *)

Instructs(ticket) == Tag("instructions", Default) \in ticket.tags

(* parseSingleFamily: at most one value of a family, and not a bad one.    *)
OneValue(tags, family) ==
    /\ Cardinality(Values(tags, family)) <= 1
    /\ Invalid \notin Values(tags, family)

Setting(tags, field) ==
    IF Values(tags, field) = {} THEN Default
    ELSE CHOOSE v \in Values(tags, field) : TRUE

(* "close", "comment_once", or the column a completed card is moved to.    *)
SoundCompletion(ticket) ==
    \E policy \in {"close", "comment_once"} \cup (Column \ {ticket.column}) :
        /\ Values(ticket.tags, "completion") = {policy}
        /\ policy \in Column => BoardOf[policy] = BoardOf[ticket.column]
        /\ Tag("no_repeat", Default) \in ticket.tags => policy = "comment_once"

WellFormed(ticket) ==
    /\ ticket.column \in Column
    /\ Tag("board", Default) \notin ticket.tags
    /\ \A f \in Field \ {"completion"} : OneValue(ticket.tags, f)
    /\ SoundCompletion(ticket)
    /\ Values(ticket.tags, "unknown") = {}

(* The fingerprint digests the ticket and what was parsed from it.         *)
RouteOf(ticket) ==
    [column   |-> ticket.column,
     settings |-> [f \in Field |-> Setting(ticket.tags, f)],
     enabled  |-> Setting(ticket.tags, "backend") \in {Default, "codex"},
     print    |-> ticket]

(* moveTargetBySource: the moves that end in a routed column.              *)
MovesOn(routes) ==
    LET sources == {r.column : r \in routes}
        movers  == {r \in routes : r.settings["completion"] \in sources}
    IN [c \in {r.column : r \in movers} |->
           (CHOOSE r \in movers : r.column = c).settings["completion"]]

(* Slip: only a route that moves cards to its own column is a circle.      *)
CyclicAtOnce(routes) == \E c \in DOMAIN MovesOn(routes) : MovesOn(routes)[c] = c

(* validateCompletionGraph follows the moves from every source until they  *)
(* end or come back to a column already seen: goes[k] are the sources from *)
(* which k + 1 moves can be followed, and more moves than there are        *)
(* sources have come back.                                                 *)
Cyclic(routes) ==
    LET next  == MovesOn(routes)
        n     == Cardinality(DOMAIN next)
        goes[k \in 0..n] ==
            IF k = 0 THEN DOMAIN next
            ELSE {c \in DOMAIN next : next[c] \in goes[k - 1]}
    IN goes[n] # {}

Refused(tickets) ==
    LET routed == {t \in tickets : Instructs(t)}
    IN \/ \E t \in routed : ~WellFormed(t)
       \/ \E t, u \in routed : t # u /\ t.column = u.column
       \/ Cyclic({RouteOf(t) : t \in routed})

RoutesOf(tickets) == {RouteOf(t) : t \in {u \in tickets : Instructs(u)}}

-----------------------------------------------------------------------------
(* Cards.  What routing reads of a card, its comments included.            *)

(* normalizedNonDaemonTags leaves out the tags the daemon sets itself;     *)
(* agent-rerun stays.                                                      *)
DaemonTag(t) == t.family \in {"completed", "failed"}

(* cardDigest: comments are part of it when the card was read with them,   *)
(* except marker and workpad comments.                                     *)
CardDigest(seen, route, hydrated) ==
    [content |-> seen.content,
     tags    |-> {t \in seen.tags : ~DaemonTag(t)},
     state   |-> seen.state,
     column  |-> seen.column,
     notes   |-> IF hydrated THEN seen.notes ELSE 0,
     print   |-> route.print]

(* Slip: a marker blocks the card as it was digested, and no other.        *)
BlocksDigested(marker, seen, route) ==
    /\ marker.print = route.print
    /\ marker.digest = CardDigest(seen, route, TRUE)

(* matchesCurrentRouteFingerprint, markerBlocksCurrentDigest.              *)
Blocks(marker, seen, route) ==
    /\ marker.print = route.print
    /\ marker.digest = CardDigest(seen, route, TRUE) \/ ~OnChange

RouteFor(column, routes) == {r \in routes : r.column = column}

(* parseCardOverrides.  The router is given a board without columns, so    *)
(* every complete-move-to tag names a missing target.                      *)
Parsed(tags) ==
    \A f \in Field : OneValue(tags, f) /\ (f = "completion" =>
        Values(tags, f) \cap Column = {})

IsOverrideAllowed(field) ==
    field \in Overridable /\ (field = "completion" => CardCompletion)

(* resolveEffectiveRoute                                                   *)
Effective(route, tags) ==
    [route EXCEPT !.settings =
        [f \in Field |-> IF Values(tags, f) = {} THEN @[f] ELSE Setting(tags, f)]]

(* validateEffectiveRoute                                                  *)
Known(route) ==
    /\ route.settings["workspace"] \in Workspaces \cup {Default}
    /\ route.settings["model"] \in Models \cup {Default}

Overrides(route, tags) ==
    /\ Parsed(tags)
    /\ \A f \in Field : Values(tags, f) # {} => IsOverrideAllowed(f)
    /\ Known(Effective(route, tags))

Dispatchable(seen) ==
    /\ BoardOf[seen.column] \in Watched
    /\ seen.state = "open" \/ (seen.state = "postponed" /\ Postponed)

(* routeCard decides "spawn".                                              *)
Spawns(seen, routes) ==
    /\ Dispatchable(seen)
    /\ seen.claim # "live"
    /\ \E route \in RouteFor(seen.column, routes) :
        /\ route.enabled
        /\ \/ Rerun \in seen.tags
           \/ \A m \in seen.completed \cup seen.failed : ~Blocks(m, seen, route)
        /\ Overrides(route, seen.tags)

(* compareDispatchCandidates: explicit priority first, then its value; the *)
(* card's own priority, its last activity and its number are the last key. *)
Level == [p1 |-> 1, p2 |-> 2, p3 |-> 3, p4 |-> 4, p5 |-> 5, default |-> 6]

Priority(seen) == Level[Setting(seen.tags, "priority")]

Before(c, d, seen) ==
    \/ Priority(seen[c]) < Priority(seen[d])
    \/ Priority(seen[c]) = Priority(seen[d]) /\ c < d

=============================================================================
