CONSTANTS
  None = None
  Clients <- MCClients
  Workspaces = {"one"}
  KindsOf <- MCKindsOf
  Options = {}
  Faults = {}
  UserActions = {"open"}
  QueueBound = 2
  Commands = {"manage-workspace", "unmanage-workspace"}
  Races = {}
SPECIFICATION SessionSpec
INVARIANT
  UnmanagedIsNative
