-------------------------------- MODULE Setup --------------------------------
(***************************************************************************)
(* An operator sets up the daemon, again when it went wrong, and starts    *)
(* it.                                                                     *)
(*                                                                         *)
(*   - runSetup: what it reads, reviews and changes, and in which order    *)
(*     (src/setup.js); the config file it writes last (src/config.js);     *)
(*   - ensureWebhook of the Fizzy client (src/fizzy-sdk-adapter.js);       *)
(*   - validateStartup, with which the daemon then starts or refuses to    *)
(*     (src/validation.js, src/daemon.js).                                 *)
(*                                                                         *)
(* Every call can fail, before or after its effect, and every process can  *)
(* be killed: setup has no record of what it did and is simply run again.  *)
(* People change boards and webhooks meanwhile.                            *)
(***************************************************************************)
EXTENDS Routing, Sequences

CONSTANTS Board,       \* boards, those that setup may create included
          Starter,     \* the boards that setup may create
          ColumnAt,    \* the column of a board, by the column's name
          CardSets,    \* what people put on a board: sequences of cards
          MaxSetups,   \* bound: runs of setup in a behaviour
          MaxHuman,    \* bound: what people do in a behaviour
          MaxFailures  \* bound: calls that fail and processes killed

ASSUME SetupAssumption ==
    /\ Starter \subseteq Board
    /\ \A b \in Board : \A n \in DOMAIN ColumnAt[b] : BoardOf[ColumnAt[b][n]] = b
    /\ MaxSetups \in Nat /\ MaxHuman \in Nat /\ MaxFailures \in Nat

VARIABLES
    board,      \* the boards: the columns they have and the cards on them
    titles,     \* the tags the account knows: a tag is made by its first use
    hooks,      \* the webhooks of a board that call the daemon's callback
    workflow,   \* WORKFLOW.md: is it there, and how often has it our section
    config,     \* the config file
    pc,         \* the call setup is in
    ask,        \* what the operator asked for, and the boards selected
    read,       \* the boards and tags as setup has read them
    plan,       \* planWorkflow: what to do with WORKFLOW.md
    build,      \* what createStarterBoard has still to do
    current,    \* ensureWebhook: the webhook at hand
    managed,    \* the webhook ids to be written into the config
    service,    \* "off", "validating", "up" or "refused"
    known,      \* what validateStartup has read
    acted,      \* history: people acted since setup, the config's or startup began
    failed,     \* history: a call of validateStartup failed
    setups, human, failures

fizzyVars == <<board, titles, hooks>>
setupVars == <<pc, ask, read, plan, build, current, managed>>
startVars == <<service, known, failed>>
boundVars == <<setups, human, failures>>
setupAllVars == <<fizzyVars, workflow, config, setupVars, startVars, acted, boundVars>>

NoConfig == [boards |-> {}, hooks |-> <<>>, written |-> FALSE]
NoAsk    == [starter |-> FALSE, manage |-> FALSE, boards |-> {}]
NoRead   == [boards |-> <<>>, titles |-> {}, missing |-> {}]
NoHook   == [board |-> "none", id |-> 0, active |-> FALSE, wanted |-> FALSE]
Nobody   == [setup |-> FALSE, config |-> FALSE, start |-> FALSE]

SetupInit ==
    /\ \E cards \in CardSets :
        board = [b \in Board |->
            IF b \in Starter THEN [made |-> FALSE, columns |-> {}, cards |-> <<>>]
            ELSE [made |-> TRUE, columns |-> DOMAIN ColumnAt[b], cards |-> cards]]
    /\ titles = UNION {c.tags : c \in UNION {{board[b].cards[i] : i \in DOMAIN board[b].cards} : b \in Board}}
    /\ \E old \in {<<>>, <<[active |-> FALSE, wanted |-> FALSE, gone |-> FALSE]>>} :
        hooks = [b \in Board |-> IF b \in Starter THEN <<>> ELSE old]
    /\ workflow \in {[there |-> FALSE, sections |-> 0], [there |-> TRUE, sections |-> 0]}
    /\ config = NoConfig
    /\ pc = "off" /\ ask = NoAsk /\ read = NoRead /\ plan = "none" /\ build = <<>>
    /\ current = NoHook /\ managed = <<>>
    /\ service = "off" /\ known = NoRead /\ failed = FALSE
    /\ acted = Nobody
    /\ setups = 0 /\ human = 0 /\ failures = 0

-----------------------------------------------------------------------------
(* What both setup and startup require of boards and tags.                 *)

CardsOf(b) == {b.cards[i] : i \in DOMAIN b.cards}

TagOnly(b) == \E c \in CardsOf(b) : Instructs(c) /\ ~c.golden

(* A completion tag names a column, which the board has or has not.        *)
Resolve(id, b, t) ==
    IF t.family = "completion" /\ t.value \in DOMAIN ColumnAt[id]
    THEN Tag("completion",
             IF t.value \in b.columns THEN ColumnAt[id][t.value] ELSE Invalid)
    ELSE t

TicketOf(id, b, i) ==
    [column |-> IF b.cards[i].column \in b.columns THEN ColumnAt[id][b.cards[i].column]
                ELSE "none",
     tags   |-> {Resolve(id, b, t) : t \in b.cards[i].tags},
     number |-> i]

GoldenTickets(boards) ==
    UNION {{TicketOf(id, boards[id], i) : i \in {j \in DOMAIN boards[id].cards :
                boards[id].cards[j].golden}} : id \in DOMAIN boards}

(* discoverGoldenTicketRoutes throws.                                      *)
Unroutable(boards) ==
    (\E id \in DOMAIN boards : TagOnly(boards[id])) \/ Refused(GoldenTickets(boards))

(* resolveManagedTags; isManagedRouteTag leaves out the rerun tag.         *)
Required(boards) ==
    {Tag("instructions", Default)} \cup
    {t \in UNION {c.tags : c \in UNION {CardsOf(boards[id]) : id \in DOMAIN boards}} :
        t # Rerun}

Resolvable(known_) == Required(known_.boards) \subseteq known_.titles

Acceptable(known_) == ~Unroutable(known_.boards) /\ Resolvable(known_)

-----------------------------------------------------------------------------
(* runSetup.  A step is the call awaited and what follows it; a call that  *)
(* fails, with or without its effect, or a kill ends setup where it is.    *)

Resting == UNCHANGED <<startVars, boundVars>>

(* Setup ends, whatever it has changed so far stays changed.               *)
SetupEnds ==
    /\ pc' = "off" /\ ask' = NoAsk /\ read' = NoRead /\ plan' = "none" /\ build' = <<>>
    /\ current' = NoHook /\ managed' = <<>>

SetupFault == failures < MaxFailures /\ failures' = failures + 1 /\ UNCHANGED <<setups, human>>

(* The call of a step returns, or its answer is lost and setup ends.       *)
Answered(step, Next1) ==
    /\ pc = step
    /\ \/ Next1 /\ UNCHANGED boundVars
       \/ SetupEnds /\ SetupFault

(* planWorkflow, which looks for our section in the file.                  *)
\* A slip: the section is appended whenever the operator asks for it.
AppendsAlways(policy) ==
    IF ~workflow.there THEN IF policy = "create" THEN "create" ELSE "none"
    ELSE IF policy = "append" THEN "append" ELSE "none"

PlanFor(policy) ==
    IF ~workflow.there THEN IF policy = "create" THEN "create" ELSE "none"
    ELSE IF policy = "append" /\ workflow.sections = 0 THEN "append" ELSE "none"

(* validateIdentity to selectSetupDefaults.                                *)
SetupBegins(starter, policy, manage, boards) ==
    /\ pc = "off" /\ setups < MaxSetups
    /\ boards \subseteq {b \in Board : board[b].made}
    /\ starter <=> boards = {}
    /\ starter => \E b \in Starter : ~board[b].made   \* bound: boards to create
    /\ setups' = setups + 1 /\ UNCHANGED <<human, failures>>
    /\ ask' = [starter |-> starter, manage |-> manage, boards |-> boards]
    /\ read' = [NoRead EXCEPT !.titles = titles]
    /\ plan' = PlanFor(policy)
    /\ pc' = IF starter THEN "review" ELSE "boards"
    /\ acted' = [acted EXCEPT !.setup = FALSE]
    /\ UNCHANGED <<fizzyVars, workflow, config, build, current, managed, startVars>>

(* A selected board is read, with its columns and cards.                   *)
ReadBoard ==
    /\ pc = "boards"
    /\ \E b \in ask.boards \ DOMAIN read.boards :
        read' = [read EXCEPT !.boards =
            [d \in DOMAIN @ \cup {b} |-> IF d = b THEN board[b] ELSE @[d]]]
    /\ UNCHANGED <<fizzyVars, workflow, config, pc, ask, plan, build, current, managed, acted>>
    /\ Resting

\* A slip: setup checks the routes, and leaves the tags to startup.
RoutesSuffice == ~Unroutable(read.boards)

SetupAccepts == Acceptable(read)

(* resolveManagedTags and discoverGoldenTicketRoutes; then the review, if  *)
(* the operator has not confirmed already, or the webhooks.                *)
CheckBoards ==
    /\ pc = "boards" /\ DOMAIN read.boards = ask.boards
    /\ IF SetupAccepts
       THEN /\ pc' = IF ask.starter THEN "hooks" ELSE "review"
            /\ UNCHANGED <<ask, read, plan, build, current, managed>>
       ELSE SetupEnds
    /\ UNCHANGED <<fizzyVars, workflow, config, acted>> /\ Resting

(* reviewSetupMutations: the operator agrees or setup ends.                *)
Review ==
    /\ pc = "review"
    /\ \/ pc' = "workflow" /\ UNCHANGED <<ask, read, plan, build, current, managed>>
       \/ SetupEnds
    /\ UNCHANGED <<fizzyVars, workflow, config, acted>> /\ Resting

(* applyWorkflowPlan.  A file that is to be created must not exist yet.    *)
Planned ==
    CASE plan = "create" -> [there |-> TRUE, sections |-> 1]
      [] plan = "append" -> [there |-> TRUE, sections |-> workflow.sections + 1]
      [] OTHER -> workflow

StarterSteps == <<"board", "ready", "ship", "card", "instructions", "backend", "completion",
                  "move", "gold", "read">>

AfterWorkflow ==
    IF ask.starter
    THEN pc' = "build" /\ build' = StarterSteps /\ UNCHANGED <<ask, read, plan, current, managed>>
    ELSE pc' = "hooks" /\ UNCHANGED <<ask, read, plan, build, current, managed>>

ApplyWorkflow ==
    /\ IF plan = "create" /\ workflow.there
       THEN pc = "workflow" /\ SetupEnds /\ UNCHANGED <<workflow, boundVars>>
       ELSE Answered("workflow", AfterWorkflow) /\ workflow' = Planned
    /\ UNCHANGED <<fizzyVars, config, startVars, acted>>

-----------------------------------------------------------------------------
(* createStarterBoard                                                      *)

Fresh == CHOOSE b \in Starter : ~board[b].made

Building == IF ask.boards = {} THEN Fresh ELSE CHOOSE b \in ask.boards : TRUE

StarterTag == [instructions |-> Tag("instructions", Default),
               backend      |-> Tag("backend", "codex"),
               completion   |-> Tag("completion", "ship")]

(* The board after a step: a tag is toggled, and ours is the last card.    *)
Built(b, step) ==
    LET ours == Len(b.cards) IN
    CASE step = "board" -> [b EXCEPT !.made = TRUE]
      [] step \in {"ready", "ship"} -> [b EXCEPT !.columns = @ \cup {step}]
      [] step = "card" -> [b EXCEPT !.cards =
            Append(@, [golden |-> FALSE, column |-> "none", tags |-> {}])]
      [] step \in DOMAIN StarterTag -> [b EXCEPT !.cards[ours].tags =
            IF StarterTag[step] \in @ THEN @ \ {StarterTag[step]} ELSE @ \cup {StarterTag[step]}]
      [] step = "move" -> [b EXCEPT !.cards[ours].column = "ready"]
      [] step = "gold" -> [b EXCEPT !.cards[ours].golden = TRUE]

BuildStep ==
    /\ build # <<>> /\ Head(build) # "read"
    /\ Building \in Starter
    /\ board' = [board EXCEPT ![Building] = Built(@, Head(build))]
    /\ titles' = IF Head(build) \in DOMAIN StarterTag
                 THEN titles \cup {StarterTag[Head(build)]} ELSE titles
    /\ Answered("build",
         /\ build' = Tail(build)
         /\ ask' = [ask EXCEPT !.boards = {Building}]
         /\ UNCHANGED <<pc, read, plan, current, managed>>)
    /\ UNCHANGED <<hooks, workflow, config, startVars, acted>>

(* The board is read when it is complete, and then the tags once more.     *)
BuildRead ==
    /\ pc = "build" /\ build = <<"read">>
    /\ pc' = "boards"
    /\ build' = <<>>
    /\ read' = [NoRead EXCEPT !.boards = [b \in ask.boards |-> board[b]], !.titles = titles]
    /\ UNCHANGED <<fizzyVars, workflow, config, ask, plan, current, managed, acted>>
    /\ Resting

-----------------------------------------------------------------------------
(* ensureWebhook, for one board after the other.                           *)

Unmanaged == IF ask.manage THEN ask.boards \ DOMAIN managed ELSE {}

Listed(b) == {i \in DOMAIN hooks[b] : ~hooks[b][i].gone}

Seen(b, i) == [board |-> b, id |-> i, active |-> hooks[b][i].active, wanted |-> hooks[b][i].wanted]

Manages(hook) ==
    /\ pc' = "hooks" /\ current' = NoHook
    /\ managed' = [b \in DOMAIN managed \cup {hook.board} |->
                     IF b = hook.board THEN hook.id ELSE managed[b]]

\* A slip: a webhook is updated or activated, not both.
TendOnce(hook) ==
    IF pc = "hooks" /\ ~hook.wanted THEN pc' = "update" /\ current' = hook /\ UNCHANGED managed
    ELSE IF pc = "hooks" /\ ~hook.active THEN pc' = "activate" /\ current' = hook /\ UNCHANGED managed
    ELSE Manages(hook)

(* What is to be done about a webhook: the subscribed actions come first.  *)
Tend(hook) ==
    IF ~hook.wanted THEN pc' = "update" /\ current' = hook /\ UNCHANGED managed
    ELSE IF ~hook.active THEN pc' = "activate" /\ current' = hook /\ UNCHANGED managed
    ELSE Manages(hook)

ListHooks ==
    /\ pc = "hooks"
    /\ \E b \in Unmanaged :
        IF Listed(b) = {}
        THEN pc' = "create" /\ current' = [NoHook EXCEPT !.board = b] /\ UNCHANGED managed
        ELSE Tend(Seen(b, CHOOSE i \in Listed(b) : \A j \in Listed(b) : i <= j))
    /\ UNCHANGED <<fizzyVars, workflow, config, ask, read, plan, build, acted>>
    /\ Resting

Hook(b, i, hook) == hooks' = [hooks EXCEPT ![b] = [j \in DOMAIN @ \cup {i} |-> IF j = i THEN hook ELSE @[j]]]

(* A call on a webhook that is gone fails.                                 *)
HookCall(step, hook) ==
    LET b == current.board
        i == IF step = "create" THEN Len(hooks[b]) + 1 ELSE current.id
    IN /\ step # "create" => ~hooks[b][i].gone
       /\ Hook(b, i, hook)
       /\ Answered(step, /\ Tend([board |-> b, id |-> i, active |-> hook.active, wanted |-> hook.wanted])
                         /\ UNCHANGED <<ask, read, plan, build>>)
       /\ UNCHANGED <<board, titles, workflow, config, startVars, acted>>

CreateHook   == HookCall("create", [active |-> TRUE, wanted |-> TRUE, gone |-> FALSE])
UpdateHook   == pc = "update" /\ HookCall("update", [hooks[current.board][current.id] EXCEPT !.wanted = TRUE])
ActivateHook == pc = "activate" /\ HookCall("activate", [hooks[current.board][current.id] EXCEPT !.active = TRUE])

HookGone ==
    /\ pc \in {"update", "activate"} /\ hooks[current.board][current.id].gone
    /\ SetupEnds
    /\ UNCHANGED <<fizzyVars, workflow, config, acted>> /\ Resting

(* writeOperatorConfig: the config is replaced.                            *)
WriteConfig ==
    /\ pc = "hooks" /\ Unmanaged = {}
    /\ config' = [boards |-> ask.boards, hooks |-> managed, written |-> TRUE]
    /\ SetupEnds
    /\ acted' = [acted EXCEPT !.config = acted.setup]
    /\ UNCHANGED <<fizzyVars, workflow>> /\ Resting

(* A call of setup fails without effect, or setup is interrupted.          *)
SetupThrows ==
    /\ pc # "off"
    /\ SetupEnds /\ SetupFault
    /\ UNCHANGED <<fizzyVars, workflow, config, startVars, acted>>

-----------------------------------------------------------------------------
(* startDaemon, as far as validateStartup decides it.  Unreadable boards   *)
(* are left out and make startup fail in the end.                          *)

StartBegins ==
    /\ service \in {"off", "refused"} /\ config.written
    /\ service' = "validating"
    /\ known' = [NoRead EXCEPT !.titles = titles, !.missing = config.boards]
    /\ failed' = FALSE
    /\ acted' = [acted EXCEPT !.start = acted.config]
    /\ UNCHANGED <<fizzyVars, workflow, config, setupVars, boundVars>>

StartReadsBoard(b) ==
    /\ service = "validating" /\ b \in known.missing
    /\ known' = [known EXCEPT !.missing = @ \ {b},
            !.boards = [d \in DOMAIN @ \cup {b} |-> IF d = b THEN board[b] ELSE @[d]]]
    /\ UNCHANGED <<fizzyVars, workflow, config, setupVars, service, failed, acted, boundVars>>

StartCallFails ==
    /\ service = "validating"
    /\ failed' = TRUE
    /\ known' \in {[known EXCEPT !.missing = @ \ {b}] : b \in known.missing}
    /\ SetupFault
    /\ UNCHANGED <<fizzyVars, workflow, config, setupVars, service, acted>>

StartDecides ==
    /\ service = "validating" /\ known.missing = {}
    /\ service' = IF failed \/ ~Acceptable(known) THEN "refused" ELSE "up"
    /\ known' = NoRead /\ failed' = FALSE
    /\ acted' = [acted EXCEPT !.start = FALSE]
    /\ UNCHANGED <<fizzyVars, workflow, config, setupVars, boundVars>>

DaemonEnds ==
    /\ service \in {"validating", "up"}
    /\ service' = "off" /\ known' = NoRead /\ failed' = FALSE
    /\ SetupFault
    /\ UNCHANGED <<fizzyVars, workflow, config, setupVars, acted>>

-----------------------------------------------------------------------------
(* People.                                                                 *)

Person ==
    /\ human < MaxHuman
    /\ human' = human + 1
    /\ acted' = [setup |-> pc # "off", config |-> config.written, start |-> service = "validating"]
    /\ UNCHANGED <<config, setupVars, startVars, setups, failures>>

HumanDeals(b, cards) ==
    /\ board[b].made /\ board[b].cards # cards
    /\ board' = [board EXCEPT ![b].cards = cards]
    /\ titles' = titles \cup UNION {cards[i].tags : i \in DOMAIN cards}
    /\ Person /\ UNCHANGED <<hooks, workflow>>

HumanHooks(b, i, new) ==
    /\ new # hooks[b][i] /\ ~hooks[b][i].gone
    /\ Hook(b, i, new)
    /\ Person /\ UNCHANGED <<board, titles, workflow>>

HumanWorkflow(new) ==
    /\ workflow' = new /\ new # workflow
    /\ Person /\ UNCHANGED fizzyVars

Human ==
    \/ \E b \in Board, cards \in CardSets : HumanDeals(b, cards)
    \/ \E b \in Board : \E i \in DOMAIN hooks[b] : \E field \in {"active", "wanted", "gone"} :
          HumanHooks(b, i, [hooks[b][i] EXCEPT ![field] = ~@])
    \/ HumanWorkflow([there |-> TRUE, sections |-> workflow.sections])

-----------------------------------------------------------------------------
RunsSetup ==
    \/ \E starter, manage \in BOOLEAN, policy \in {"skip", "create", "append"} :
          \E boards \in SUBSET Board : SetupBegins(starter, policy, manage, boards)
    \/ ReadBoard \/ CheckBoards \/ Review \/ ApplyWorkflow \/ BuildStep \/ BuildRead
    \/ ListHooks \/ CreateHook \/ UpdateHook \/ ActivateHook \/ HookGone
    \/ WriteConfig \/ SetupThrows

Starts ==
    \/ StartBegins \/ \E b \in Board : StartReadsBoard(b)
    \/ StartCallFails \/ StartDecides \/ DaemonEnds

SetupNext == RunsSetup \/ Starts \/ Human

SetupSpec == SetupInit /\ [][SetupNext]_setupAllVars

-----------------------------------------------------------------------------
(* What setup accepts, startup accepts: a config that setup has written    *)
(* starts the daemon, unless people acted since setup began or a call of   *)
(* startup failed.                                                         *)
AcceptedStarts ==
    [][service' = "refused" /\ service # "refused" => failed \/ acted.start]_setupAllVars

(* A config tells what is there: the board of a starter setup has a route, *)
(* and each webhook the config names is on its board, is active and        *)
(* subscribes to what the daemon wants, unless people acted meanwhile.     *)
ConfigHolds ==
    [][config' # config /\ ~acted.setup =>
        /\ ask.starter => \A b \in config'.boards :
              RoutesOf(GoldenTickets([d \in {b} |-> board[b]])) # {}
        /\ ask.manage => DOMAIN config'.hooks = config'.boards
        /\ \A b \in DOMAIN config'.hooks :
              hooks[b][config'.hooks[b]] = [active |-> TRUE, wanted |-> TRUE, gone |-> FALSE]]_setupAllVars

(* However often setup is run and wherever it breaks off, a board has one  *)
(* webhook, and WORKFLOW.md one section, of the daemon's.                  *)
SetupRepeatable ==
    /\ \A b \in Board : Cardinality(Listed(b)) <= 1
    /\ workflow.sections <= 1

=============================================================================
