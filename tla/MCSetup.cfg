SPECIFICATION SetupSpec
CONSTANTS
    Column <- Columns
    BoardOf <- Of
    Watched <- Boards
    Models = {"m1"}
    Workspaces = {"app"}
    Allowed = {"priority"}
    CardCompletion = FALSE
    Postponed = FALSE
    OnChange = FALSE
    Board <- Boards
    Starter <- Starters
    ColumnAt <- At
    CardSets <- Cards
    MaxSetups = 2
    MaxHuman = 1
    MaxFailures = 1

    
PROPERTIES
    
    ConfigHolds
CHECK_DEADLOCK FALSE
