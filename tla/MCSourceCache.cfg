SPECIFICATION SourceSpec
CONSTANTS
    d1 = d1
    d2 = d2
    Daemon = {d1, d2}
    Card = {"k"}
    Source = {"app", "lib"}
    Ref = {"main", "release"}
    RefOf <- Refs
    Surrounded = TRUE
    MaxRevisions = 3
    MaxResolves = 2
    MaxFailures = 2
SYMMETRY Symmetry
INVARIANTS
    FetchedFromRef
    StaysUsable
PROPERTIES
    FailsForCause
CHECK_DEADLOCK FALSE
