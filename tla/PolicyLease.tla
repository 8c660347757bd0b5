----------------------------- MODULE PolicyLease -----------------------------
(***************************************************************************)
(* What managing a workspace does to the compositor's configuration, and   *)
(* how it is undone: the tiled layout of the workspace, saved per          *)
(* workspace, and the policy options (animations:enabled and               *)
(* misc:focus_on_activate), saved once under a lease count.  The methods   *)
(* run under WorkspaceManager's mutex, inside manage, unmanage and the     *)
(* disconnect transition, so they are operators from policy to policy.     *)
(*                                                                         *)
(* A query of the compositor may get no answer and a dispatch may fail:    *)
(* the code goes on without looking.                                       *)
(***************************************************************************)
EXTENDS PluginTypes

CONSTANT Options   \* the compositor options the policy profile turns off

ASSUME NoneIsNoName ==
  None \notin {"user", "off", "general", "dwindle", "hyprmacs"}

\* A query or dispatch that is not about an option concerns the tiled layout.
ASSUME OptionsAssumption == {"tiledLayout", "general:layout"} \cap Options = {}

OptionValues == {"user", "off"}   \* the user's value, or what the plugin sets
Layouts == {"user", "general", "dwindle", "hyprmacs"}

Policy == [option:      [Options -> OptionValues],             \* compositor
           layout:      [Workspaces -> Layouts],               \* compositor
           savedLayout: [Workspaces -> Maybe(Layouts)],
           savedOption: [Options -> Maybe(OptionValues)],
           lease:       Nat]

InitPolicy == [option      |-> [o \in Options |-> "user"],
               layout      |-> [w \in Workspaces |-> "user"],
               savedLayout |-> [w \in Workspaces |-> None],
               savedOption |-> [o \in Options |-> None],
               lease       |-> 0]

Queries    == Options \cup {"tiledLayout", "general:layout"}
Dispatches == Options \cup {"tiledLayout"}

\* The sets of queries that are answered, and of dispatches that are done.
Answered == IF "query" \in Faults THEN SUBSET Queries ELSE {Queries}
Done == IF "dispatch" \in Faults THEN SUBSET Dispatches ELSE {Dispatches}

-----------------------------------------------------------------------------
\* The dispatch "keyword workspace <w>,layout:<l>", whose result is ignored.
DispatchLayout(p, w, l, done) ==
  IF "tiledLayout" \in done THEN [p EXCEPT !.layout[w] = l] ELSE p

\* The workspace's own layout, else the configured default, else dwindle.
QueryLayout(p, w, answered) ==
  IF "tiledLayout" \in answered THEN p.layout[w]
  ELSE IF "general:layout" \in answered THEN "general" ELSE "dwindle"

AcquireLease(p, answered, done) ==
  IF p.lease # 0 THEN [p EXCEPT !.lease = @ + 1]
  ELSE [p EXCEPT
         !.lease = 1,
         !.savedOption = [o \in Options |->
            IF o \in answered THEN p.option[o] ELSE None],
         !.option = [o \in Options |-> IF o \in done THEN "off" ELSE p.option[o]]]

ReleaseLease(p, done) ==
  IF p.lease # 1 THEN [p EXCEPT !.lease = IF @ = 0 THEN 0 ELSE @ - 1]
  ELSE [p EXCEPT
         !.lease = 0,
         !.savedOption = [o \in Options |-> None],
         !.option = [o \in Options |->
            IF o \in done /\ p.savedOption[o] # None
            THEN p.savedOption[o] ELSE p.option[o]]]

\* The layout in force is saved unless one is saved for w already.
ApplyManagedLayout(p, w, answered, done) ==
  LET saved == IF p.savedLayout[w] # None THEN p
               ELSE [p EXCEPT !.savedLayout[w] = QueryLayout(p, w, answered)]
  IN  AcquireLease(DispatchLayout(saved, w, "hyprmacs", done), answered, done)

\* Plausible mistakes in RestoreManagedLayout, kept to show that
\* PolicyFollowsManagement and LeaseFollowsManagement notice them.
RestoreDefaultLayout(p, w, done) ==
  ReleaseLease([DispatchLayout(p, w, "dwindle", done) EXCEPT !.savedLayout[w] = None],
               done)

RestoreKeepingSavedLayout(p, w, done) ==
  LET back == IF p.savedLayout[w] # None THEN p.savedLayout[w] ELSE "dwindle"
  IN  ReleaseLease(DispatchLayout(p, w, back, done), done)

RestoreManagedLayout(p, w, done) ==
  LET back == IF p.savedLayout[w] # None THEN p.savedLayout[w] ELSE "dwindle"
      restored == DispatchLayout(p, w, back, done)
  IN  ReleaseLease([restored EXCEPT !.savedLayout[w] = None], done)
=============================================================================
