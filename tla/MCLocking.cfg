CONSTANTS
  None = None
  Threads = {"event", "controller", "helper"}
  Duties = {"recalculate", "dispatch", "exit"}
SPECIFICATION LockingSpec
INVARIANTS
  LockingTypeOK
  NeverWaitsForItsClient
PROPERTIES
  ReturnsUnlessStalled
CHECK_DEADLOCK FALSE
