SPECIFICATION ReadsSpec
CONSTANTS
    t1 = t1
    t2 = t2
    Task = {t1, t2}
    Resource <- Things
    a = a
    b = b
    Context = {a, b}
    MaxReads = 3
    MaxChanges = 1
    MaxFaults = 1
SYMMETRY Symmetry
INVARIANTS
    FirstPageFresh
PROPERTIES
    FileStaysWhole
CHECK_DEADLOCK FALSE
