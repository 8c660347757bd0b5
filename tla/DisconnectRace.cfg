CONSTANTS
  None = None
  Clients <- MCClients
  Workspaces = {"one"}
  KindsOf <- MCKindsOf
  Options = {}
  Faults = {}
  UserActions = {"open", "focus"}
  QueueBound = 2
  Commands = {"manage-workspace", "set-layout"}
  Races = {"overlap"}
SPECIFICATION SessionSpec
INVARIANT
  DisconnectedIsNative
