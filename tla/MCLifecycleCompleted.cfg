SPECIFICATION Spec
CONSTANTS
    MaxAttempts = 2
    MaxTurns = 1
    Moves = FALSE
    Faults <- NoFaults
    MaxFaults = 0
    MaxHuman = 0
PROPERTY CompletedNotRetried
