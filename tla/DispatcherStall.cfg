CONSTANTS
  None = None
  Threads = {"event", "controller"}
  Duties = {"dispatch"}
SPECIFICATION LockingSpec
INVARIANT DispatcherReturns
CHECK_DEADLOCK FALSE
