SPECIFICATION FairSpec
CONSTANTS
    Slots = {s1}
    Concurrency = 2
    MaxAttempts = 2
    MaxStalls = 1
    MaxFaults = 1
INVARIANTS TypeOK StalenessBounded
PROPERTIES RetryNotUndone LoginHydrates
CHECK_DEADLOCK FALSE
