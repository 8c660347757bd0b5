----------------------------- MODULE MCSession -----------------------------
(* One application window that may turn into a popup, two workspaces.      *)
EXTENDS ManagedSession

MCClients == 1 .. 1
MCKindsOf == [c \in MCClients |-> {"plain", "popup"}]
=============================================================================
