\* Two messages, listeners calling back two calls deep, one maintenance task.
SPECIFICATION Spec
CONSTANTS
  MaxMessage = 2
  MaxStep = 2
  MaxMaintenance = 1
  MaxDepth = 2
  Listening = {"send", "cancel", "start", "status", "error"}
  DisposeInAppend = TRUE
INVARIANTS
  TypeOK
  OneDriver
  RestIsBalanced
  LatchIsEarned
  HonestOutcome
  NothingStranded
PROPERTIES
  InputServed
  LogAccepted
  AbortSeals
CHECK_DEADLOCK FALSE
