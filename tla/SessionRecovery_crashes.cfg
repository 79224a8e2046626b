\* Two turns, two steps among them, up to two calls in each; any number of
\* crashes, of the writer and of the repair.
SPECIFICATION Spec
CONSTANTS
    MaxTurn = 2
    MaxStep = 2
    MaxCalls = 2
INVARIANTS
    RecoveryOK
    AlwaysAccepted
    CallsAnsweredOnce
    RunIsNeverNotStarted
CHECK_DEADLOCK FALSE
