\* Waking sends and cancels out of the listeners of every call but cancel.
SPECIFICATION FairSpec
CONSTANTS
  MaxMessage = 2
  MaxStep = 1
  MaxMaintenance = 1
  MaxDepth = 2
  Listening = {"send", "start", "status", "error"}
  DisposeInAppend = FALSE
INVARIANTS
  OnlyLateWorkRuns
PROPERTIES
  LateWakeServed
  DisposalConverges
CHECK_DEADLOCK FALSE
