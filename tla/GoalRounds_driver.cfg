\* Goals of one or two rounds, five inputs - commands, messages, cancels,
\* maintenances, refused flushes and hooks - with and without a hook around
\* the driver's.
SPECIFICATION Spec
CONSTANTS
    OuterHooks = {TRUE, FALSE}
    Caps = {1, 2}
    MaxInputs = 5
INVARIANTS
    RoundsReplay
    SteersKept
    ArmedIsDriven
PROPERTIES
    HaltStops
CHECK_DEADLOCK FALSE
