SPECIFICATION Spec
CONSTANTS
    MaxAttempts = 2
    MaxTurns = 2
    Moves = TRUE
    Faults <- AllFaults
    MaxFaults = 2
    MaxHuman = 1
CONSTRAINT Budget
INVARIANT NoStraySession
INVARIANT CompletionMeans
INVARIANT TickLeavesNothing
PROPERTY CleanupSafe
