\* A session that starts with up to one event and logs up to three; a policy
\* that flushes, beside the retirement and the disposer; two refused appends
\* and one reload of the plugin.
SPECIFICATION FairSpec
CONSTANTS
    Flushers = {"turn"}
    Faults = {"refused"}
    MaxSeed = 1
    MaxLog = 3
    MaxFaults = 2
    MaxReloads = 1
INVARIANTS
    QueueOK
PROPERTIES
    FlushContract
    RetryHeals
CHECK_DEADLOCK FALSE
