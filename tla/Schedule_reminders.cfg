\* Three inputs of the user - tool calls, cancels, clock steps back, faults,
\* crashes - over three ticks of the clock.
SPECIFICATION Spec
CONSTANTS
    Delays = {1}
    Interval = 1
    MaxTime = 3
    MaxInputs = 3
INVARIANTS
    DeliveredOnce
    LogFolds
    ConfirmedSurvives
    ActiveIsAttended
CHECK_DEADLOCK FALSE
