--------------------------- MODULE ClientRegistry ---------------------------
(***************************************************************************)
(* The window registry of the plugin (class ClientRegistry), a table that  *)
(* WorkspaceManager keeps and mutates under its mutex.  It is a passive    *)
(* object, so its methods are operators from registry to registry.         *)
(*                                                                         *)
(* Data abstraction: app_id and title only matter through the classifier,  *)
(* so a record holds the "kind" they classify to.  "eligible" is cached by *)
(* the code, and every method that changes one of its inputs recomputes it *)
(* in the same call; it is the operator Eligible here.                     *)
(***************************************************************************)
EXTENDS PluginTypes

Kinds == {"emacs", "popup", "plain"}

CONSTANT KindsOf   \* what each window's app id and titles can classify to

ASSUME KindsOfAssumption == KindsOf \in [Clients -> SUBSET Kinds]

ClientRecord == [ws: Workspaces, kind: Kinds, floating: BOOLEAN, managed: BOOLEAN]

ASSUME NoneIsNoRecord == None \notin ClientRecord

Registry == [client: [Clients -> Maybe(ClientRecord)],
             selected: Maybe(Clients)]

EmptyRegistry == [client |-> [c \in Clients |-> None], selected |-> None]

-----------------------------------------------------------------------------
(* Classifier and queries.                                                 *)

Known(reg, c) == reg.client[c] # None

\* is_client_eligible: Emacs frames (and child frames), popups and transient
\* windows are never eligible, and neither is a floating window.
Eligible(r) == ~r.floating /\ r.kind = "plain"

ManagedClients(reg) == {c \in Clients : Known(reg, c) /\ reg.client[c].managed}

IsManaged(reg, c) == c \in ManagedClients(reg)

EmacsClients(reg, w) ==
  {c \in Clients : /\ Known(reg, c)
                   /\ reg.client[c].ws = w
                   /\ reg.client[c].kind = "emacs"}

Lowest(S) == CHOOSE c \in S : \A d \in S : c =< d

\* snapshot() is sorted by id, and the first Emacs frame in it wins.
FindEmacs(reg, w) ==
  IF EmacsClients(reg, w) = {} THEN None ELSE Lowest(EmacsClients(reg, w))

-----------------------------------------------------------------------------
(* Mutators.  All but UpsertOpen ignore a window the registry lacks.       *)

\* A window opened again keeps its floating and managed flags.
UpsertOpen(reg, c, w, k) ==
  [reg EXCEPT !.client[c] =
     [ws |-> w, kind |-> k,
      floating |-> Known(reg, c) /\ reg.client[c].floating,
      managed  |-> Known(reg, c) /\ reg.client[c].managed]]

Erase(reg, c) ==
  [client   |-> [reg.client EXCEPT ![c] = None],
   selected |-> IF reg.selected = c THEN None ELSE reg.selected]

UpdateWorkspace(reg, c, w) ==
  IF Known(reg, c) THEN [reg EXCEPT !.client[c].ws = w] ELSE reg

UpdateTitle(reg, c, k) ==
  IF Known(reg, c) THEN [reg EXCEPT !.client[c].kind = k] ELSE reg

SetFloating(reg, c, f) ==
  IF Known(reg, c) THEN [reg EXCEPT !.client[c].floating = f] ELSE reg

\* Any known window can be the selected one, managed or not.
SetFocus(reg, c) ==
  IF Known(reg, c) THEN [reg EXCEPT !.selected = c] ELSE reg

\* What the managed flag of a window must be while w is the managed workspace.
ShouldManage(r, w) == w # None /\ r.ws = w /\ Eligible(r)

ReconcileManagement(reg, w) ==
  LET marked == [c \in Clients |->
                   IF Known(reg, c)
                   THEN [reg.client[c] EXCEPT !.managed = ShouldManage(reg.client[c], w)]
                   ELSE None]
      kept == {c \in Clients : Known(reg, c) /\ marked[c].managed}
  IN  [client |-> marked,
       selected |-> IF reg.selected \in kept THEN reg.selected ELSE None]
=============================================================================
