------------------------------ MODULE MCPolicy ------------------------------
(* The policy lease with a compositor that may not answer and not obey; no  *)
(* windows, since no window changes what happens to the policy.             *)
EXTENDS WorkspaceManager

MCClients == {}
MCKindsOf == [c \in MCClients |-> {}]
=============================================================================
