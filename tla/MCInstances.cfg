SPECIFICATION MCSpec
CONSTANTS
    p1 = p1
    p2 = p2
    a = a
    b = b
    Proc = {p1, p2}
    Old = old
    Id = {a, b}
    NoOne = noone
    MaxPort = 2
    MaxFaults = 1
INVARIANT ExclusiveUnlessLapsed
INVARIANT LeavesNoRecord
PROPERTY MarksOnlyEnded
PROPERTY RecordRestored
PROPERTY StartsAndStopsEnd
CHECK_DEADLOCK FALSE
