CONSTANTS
  None = None
  Clients <- MCClients
  Workspaces = {"one", "two"}
  KindsOf <- MCKindsOf
  Options = {"animations:enabled"}
  Faults = {}
SPECIFICATION Spec
INVARIANTS
  TypeOK
  ManagedIffEligible
  LayoutAgrees
  ManagingEmacsValid
  NoStaleManagedState
  PolicyFollowsManagement
  LeaseFollowsManagement
PROPERTIES
  VisibilityComesFromEmacs
  ManagingEmacsStable
  EveryTilingReported
