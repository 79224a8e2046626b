\* Expected to fail: a hook around the driver's awaits after it.
SPECIFICATION Spec
CONSTANTS
    OuterHooks = {TRUE}
    Caps = {2}
    MaxInputs = 4
INVARIANTS
    SecondCheckHolds
CHECK_DEADLOCK FALSE
