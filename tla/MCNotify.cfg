CONSTANTS
  None = None
  Workspaces = {"one"}
  Enqueuers = {"event","dispatcher"}
  Configured <- MCConfigured
  DefaultDebounce = 1
  MaxDebounce = 1
  MaxGeneration = 3
SPECIFICATION NotifySpec
INVARIANTS
  NotifyTypeOK
  NothingLost
  SleepsOnlyWhenIdle
PROPERTIES
  ReportsEveryChange
  StopReturns
