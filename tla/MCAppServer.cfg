SPECIFICATION Spec
CONSTANTS
    MaxTurns = 2
    MaxLines = 1
    MaxPipe = 1
INVARIANT NoLostWakeup
INVARIANT NoOrphan
PROPERTY KeepsContract
PROPERTY AllEnds
