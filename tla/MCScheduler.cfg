SPECIFICATION Spec
CONSTANTS
    spawn1 = spawn1
    spawn2 = spawn2
    noise = noise
    Event = {spawn1, spawn2, noise}
    Ignored = {noise}
    CacheSize = 2
    HintLimit = 3
    MaxDeliveries = 4
INVARIANTS
    NoOverlap
PROPERTIES
    TickLeavesNoNewHint
    PollingUnlessDead
CHECK_DEADLOCK FALSE
