------------------------------ MODULE MCSetup --------------------------------
(* A board people use and one that setup may create, each with the two     *)
(* columns of a starter board.                                             *)
EXTENDS Setup

Boards   == {"a", "s"}
Starters == {"s"}
At       == [b \in Boards |-> [ready |-> b \o "_ready", ship |-> b \o "_ship"]]
Columns  == {At[b][n] : b \in Boards, n \in {"ready", "ship"}}
Of       == [c \in Columns |-> CHOOSE b \in Boards : c \in {At[b]["ready"], At[b]["ship"]}]

Instructions == Tag("instructions", Default)
Ships        == Tag("completion", "ship")
Back         == Tag("completion", "ready")
Ticket(column, golden, tags) == [column |-> column, golden |-> golden, tags |-> tags]

(* No ticket; a sound one; one that lost its gold; two that send cards to   *)
(* and fro.                                                                *)
Cards ==
    {<<>>,
     <<Ticket("ready", TRUE, {Instructions, Ships})>>,
     <<Ticket("ready", FALSE, {Instructions, Ships})>>,
     <<Ticket("ready", TRUE, {Instructions, Ships}), Ticket("ship", TRUE, {Instructions, Back})>>}
=============================================================================
