\* One append that stores its batch and then fails.
SPECIFICATION Spec
CONSTANTS
    Flushers = {"turn"}
    Faults = {"refused", "unacknowledged"}
    MaxSeed = 1
    MaxLog = 3
    MaxFaults = 1
    MaxReloads = 0
INVARIANTS
    StoredOnce
CHECK_DEADLOCK FALSE
