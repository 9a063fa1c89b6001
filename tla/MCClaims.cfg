SPECIFICATION Spec
CONSTANTS
    d1 = d1
    d2 = d2
    Daemon = {d1, d2}
    NoDaemon = NoDaemon
    ClaimId = {1, 2}
    Offset <- SkewedClocks
    MaxClockSkew = 1
    StealGrace = 1
    Lease = 2
    RenewInterval = 1
    MaxTime = 3
    MaxComments = 4
    MaxFaults = 1
CONSTRAINT Budget
INVARIANTS
    ExclusiveUnlessRaced
    
    OverrunBounded
PROPERTY
    StealRespectsGrace
CHECK_DEADLOCK FALSE
