CONSTANTS
  None = None
  Clients <- MCClients
  Workspaces = {"one", "two"}
  KindsOf <- MCKindsOf
  Options = {"animations:enabled"}
  Faults = {"query"}
SPECIFICATION Spec
INVARIANT
  PolicyRestored
