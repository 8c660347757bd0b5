CONSTANTS
  None = None
  Clients <- MCClients
  Workspaces = {"one"}
  KindsOf <- MCKindsOf
  Options = {}
  Faults = {}
  UserActions = {"open"}
  QueueBound = 2
  Commands = {"manage-workspace", "seed-client"}
  Races = {}
SPECIFICATION SessionSpec
INVARIANT
  NewlyManagedHidden
