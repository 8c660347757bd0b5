CONSTANTS
  None = None
  Clients <- MCClients
  Workspaces = {"one"}
  KindsOf <- MCKindsOf
  Options = {}
  Faults = {}
  UserActions = {"open", "close", "move"}
  QueueBound = 1
  Commands = {"manage-workspace", "set-layout", "set-input-mode"}
  Races = {"overlap", "tryLock"}
SPECIFICATION HistorySpec
INVARIANTS
  RecordedUnlessOvertaken
PROPERTIES
  RestoredUnlessLate
  EnforcedUnlessDisturbed
