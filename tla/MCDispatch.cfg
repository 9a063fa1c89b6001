SPECIFICATION Spec
CONSTANTS
    Column <- Columns
    BoardOf <- Boards
    Watched = {"b1"}
    Models = {"m1"}
    Workspaces = {"w1"}
    Allowed = {"priority"}
    CardCompletion = FALSE
    Postponed = FALSE
    OnChange = FALSE
    Card = {1, 2}
    Capacity = 1
    Start = "ready"
    TicketSets <- Tickets
    HumanTags <- CardTags
    Places <- Put
    MaxHuman = 1
    MaxTrouble = 2
INVARIANTS
    OneWorkpad
    RoutesAcyclic
PROPERTIES
    RunsAccounted
    
