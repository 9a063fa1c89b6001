----------------------------- MODULE MCDispatch ------------------------------
(* A board with two columns that may be routed and one where cards end,    *)
(* and a column of a board the daemon does not watch.                      *)
EXTENDS Dispatch

Columns == {"ready", "review", "done", "away"}
Boards  == [c \in Columns |-> IF c = "away" THEN "b2" ELSE "b1"]

Instructions == Tag("instructions", Default)
Ticket(column, completion) ==
    [column |-> column, tags |-> {Instructions, Tag("completion", completion)}]

OneRoute == {Ticket("ready", "comment_once")}
Chain    == {Ticket("ready", "review"), Ticket("review", "done")}
Circle   == {Ticket("ready", "review"), Ticket("review", "ready")}

Tickets  == {OneRoute, Chain, Circle}
CardTags == {Rerun, Tag("priority", "p1"), Tag("model", "m1")}
Put      == {[column |-> "ready", state |-> "open"], [column |-> "done", state |-> "open"],
             [column |-> "away", state |-> "open"], [column |-> "ready", state |-> "postponed"]}
=============================================================================
