\* Three calls, two at a time; plugins settle, fail and reclassify anywhere.
SPECIFICATION FairSpec
CONSTANTS
    NumCalls = 3
    MaxParallel = 2
INVARIANTS
    ResultsOK
    EveryCallAnswered
    QuietAtExit
PROPERTIES
    LogAccepted
    BarriersHold
    Terminates
CHECK_DEADLOCK FALSE
