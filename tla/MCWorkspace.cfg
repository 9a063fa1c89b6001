SPECIFICATION Spec
CONSTANTS
    r1 = r1
    r2 = r2
    Route = {r1, r2}
    MaxCommits = 2
    MaxRuns = 3
    Faults <- AllFaults
    MaxFaults = 2
INVARIANT RunsInWholeCheckout
PROPERTY RefsKept
PROPERTY DirtyKept
PROPERTY MergedWhenRemoved
 
CHECK_DEADLOCK FALSE
