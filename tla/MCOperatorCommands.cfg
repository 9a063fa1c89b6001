SPECIFICATION Spec
CONSTANTS
    q1 = q1
    q2 = q2
    Request = {q1, q2}
    MaxAttempts = 1
    MaxTurns = 2
    MaxFaults = 1
INVARIANTS
    NoSilentLeak
    InterruptedNeverCompletes
PROPERTIES
    CommandTakesHold
CHECK_DEADLOCK FALSE
