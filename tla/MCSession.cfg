CONSTANTS
  None = None
  Clients <- MCClients
  Workspaces = {"one", "two"}
  KindsOf <- MCKindsOf
  Options = {}
  Faults = {}
  UserActions = {"open", "close", "move", "focus", "retitle", "float"}
  QueueBound = 1
  Commands = {"manage-workspace", "unmanage-workspace", "request-state", "set-layout", "set-selected-client", "set-input-mode", "seed-client"}
  Races = {}
SPECIFICATION SessionSpec
INVARIANTS
  SessionTypeOK
  HiddenIsRecorded
PROPERTIES
  EnforcedAtRest
  RestoredOnDisconnect
  HidesPlainWindows
