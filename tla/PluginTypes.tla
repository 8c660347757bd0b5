----------------------------- MODULE PluginTypes -----------------------------
(* What the plugin's modules share: names, optional values, clients.       *)
EXTENDS Naturals

CONSTANTS
  Clients,     \* window addresses; numbers, because the code orders them
  Workspaces,  \* workspace ids a window can be on
  None,        \* std::nullopt, and the absence of a record
  Faults       \* which of {"query", "dispatch"} the compositor may fail

\* Where hide_client parks a window (workspace -98, special:hyprmacs-hidden).
HiddenWorkspace == "special:hyprmacs-hidden"

ASSUME ClientsAssumption == Clients \subseteq Nat
ASSUME HiddenAssumption == HiddenWorkspace \notin Workspaces
ASSUME NoneAssumption == None \notin Clients /\ None \notin Workspaces
ASSUME FaultsAssumption == Faults \subseteq {"query", "dispatch"}

Maybe(S) == S \cup {None}
=============================================================================
