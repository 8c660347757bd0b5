-------------------------- MODULE WorkspaceManager --------------------------
(***************************************************************************)
(* Class WorkspaceManager: which workspace Emacs manages, what the plugin  *)
(* believes about its windows, and the layout Emacs last committed.        *)
(*                                                                         *)
(* Two threads drive it.  The event thread turns compositor events into    *)
(* calls of handle_line; the controller thread serves Emacs's commands     *)
(* between set_controller_connected(true) and (false).  (Dispatchers on    *)
(* the compositor's thread also call set_input_mode.)  Every method holds  *)
(* mutex_ throughout, so one call is one action; what handle_line reports  *)
(* to the IPC server it reports after unlocking, so that report is a       *)
(* variable, notice, consumed by a later step.                             *)
(*                                                                         *)
(* Data abstraction: a committed layout keeps, for its three lists that    *)
(* set-layout validates to name the same windows (visible_client_ids,      *)
(* stacking_order, the keys of the rectangles), one set, visible.          *)
(* layout_version, which nothing reads, is left out.                       *)
(***************************************************************************)
EXTENDS ClientRegistry, PolicyLease

InputModes == {"emacs-control", "client-control"}

VARIABLES
  registry,        \* client_registry_
  managedWs,       \* managed_workspace_id_
  inputMode,       \* input_mode_
  lastActive,      \* last_active_client_id_
  managingEmacs,   \* managing_emacs_client_id_
  layout,          \* managed_layout_snapshot_
  seen,            \* managed_client_seen_
  overlayPending,  \* overlay_float_pending_clients_
  connected,       \* controller_connected_
  policy,          \* the policy lease and the compositor options it changes
  notice           \* the notifier call handle_line is about to make

vars == <<registry, managedWs, inputMode, lastActive, managingEmacs, layout,
          seen, overlayPending, connected, policy, notice>>

Layout == [ws: Workspaces, visible: SUBSET Clients, hidden: SUBSET Clients,
           selected: Maybe(Clients), inputMode: Maybe(InputModes),
           managingEmacs: Maybe(Clients)]

Notice == [type: {"state-changed"}, ws: Workspaces]
            \cup [type: {"became-floating", "became-tiled"},
                  ws: Workspaces, client: Clients]

\* The answer of query_client_floating_locked: floating, tiled or no answer.
Answers == {TRUE, FALSE, None}

Init ==
  /\ registry = EmptyRegistry
  /\ managedWs = None /\ inputMode = None
  /\ lastActive = None /\ managingEmacs = None
  /\ layout = None
  /\ seen = {} /\ overlayPending = {}
  /\ connected = FALSE
  /\ policy = InitPolicy
  /\ notice = None

-----------------------------------------------------------------------------
(* Private helpers, as functions of the state they read.                   *)

\* Two plausible mistakes in RefreshManagingEmacs: trusting the cached frame,
\* and following the focus.  ManagingEmacsValid and ManagingEmacsStable notice.
RefreshTrustingCache(reg, w, current, last) ==
  LET candidates == EmacsClients(reg, w)
  IN  IF w = None THEN None
      ELSE IF current # None THEN current
      ELSE IF last \in candidates THEN last
      ELSE IF reg.selected \in candidates THEN reg.selected
      ELSE FindEmacs(reg, w)

RefreshFollowingFocus(reg, w, current, last) ==
  LET candidates == EmacsClients(reg, w)
  IN  IF w = None THEN None
      ELSE IF last \in candidates THEN last
      ELSE IF current \in candidates THEN current
      ELSE IF reg.selected \in candidates THEN reg.selected
      ELSE FindEmacs(reg, w)

\* refresh_managing_emacs_client_locked: the managing Emacs frame keeps its
\* role while it stays on the managed workspace w; else the frame last
\* focused, else the selected one, else the lowest id takes over.
RefreshManagingEmacs(reg, w, current, last) ==
  LET candidates == EmacsClients(reg, w)
  IN  IF w = None THEN None
      ELSE IF current \in candidates THEN current
      ELSE IF last \in candidates THEN last
      ELSE IF reg.selected \in candidates THEN reg.selected
      ELSE FindEmacs(reg, w)

SelectedManaged(reg, w) ==
  IF /\ reg.selected # None
     /\ IsManaged(reg, reg.selected)
     /\ reg.client[reg.selected].ws = w
  THEN reg.selected ELSE None

\* Two plausible mistakes in SyncLayout: only pruning, and showing what became
\* managed.  LayoutAgrees and VisibilityComesFromEmacs notice.
SyncPruningOnly(lay, reg, w, mode, emacs) ==
  LET active == {c \in ManagedClients(reg) :
                   reg.client[c].ws = w /\ Eligible(reg.client[c])}
  IN  IF lay = None \/ w = None \/ lay.ws # w THEN lay
      ELSE [ws |-> lay.ws,
            visible |-> lay.visible \cap active,
            hidden |-> lay.hidden \cap active,
            selected |-> SelectedManaged(reg, w),
            inputMode |-> mode,
            managingEmacs |-> emacs]

SyncShowingNewClients(lay, reg, w, mode, emacs) ==
  LET active == {c \in ManagedClients(reg) :
                   reg.client[c].ws = w /\ Eligible(reg.client[c])}
  IN  IF lay = None \/ w = None \/ lay.ws # w THEN lay
      ELSE [ws |-> lay.ws,
            visible |-> active \ lay.hidden,
            hidden |-> lay.hidden \cap active,
            selected |-> SelectedManaged(reg, w),
            inputMode |-> mode,
            managingEmacs |-> emacs]

\* sync_committed_layout_snapshot_locked: drop what is no longer managed,
\* hide what became managed, and copy the manager's own fields.
SyncLayout(lay, reg, w, mode, emacs) ==
  LET active == {c \in ManagedClients(reg) :
                   reg.client[c].ws = w /\ Eligible(reg.client[c])}
      visible == lay.visible \cap active
  IN  IF lay = None \/ w = None \/ lay.ws # w THEN lay
      ELSE [ws |-> lay.ws,
            visible |-> visible,
            hidden |-> (lay.hidden \cap active)
                         \cup (active \ (visible \cup lay.hidden)),
            selected |-> SelectedManaged(reg, w),
            inputMode |-> mode,
            managingEmacs |-> emacs]

\* should_ignore_overlay_floating_update_locked: the float that set-layout
\* requested itself is swallowed once; ConsumeToken is its side effect.
IgnoresFloat(lay, pending, c, f) ==
  f /\ lay # None /\ c \in lay.visible /\ c \in pending

ConsumeToken(lay, pending, c, f) ==
  IF ~f \/ IgnoresFloat(lay, pending, c, f) THEN pending \ {c} ELSE pending

\* refresh_workspace_floating_state_locked.  It asks about one window after
\* the other, and what it does to one does not affect the others.
RefreshTargets(reg, w, all) ==
  {c \in Clients : /\ Known(reg, c)
                   /\ reg.client[c].ws = w
                   /\ all \/ ~reg.client[c].managed}

Refloated(reg, w, all, answers, lay, pending) ==
  {c \in RefreshTargets(reg, w, all) :
     /\ answers[c] # None
     /\ ~IgnoresFloat(lay, pending, c, answers[c])
     /\ answers[c] # reg.client[c].floating}

RefreshTokens(reg, w, all, answers, lay, pending) ==
  {c \in pending :
     c \in RefreshTargets(reg, w, all) /\ answers[c] # None
       => c \in ConsumeToken(lay, pending, c, answers[c])}

\* The registry after the windows in S took on the answers, mw being managed.
RefreshRegistry(reg, S, answers, mw) ==
  IF S = {} THEN reg
  ELSE ReconcileManagement(
         [reg EXCEPT !.client = [c \in Clients |->
            IF c \in S THEN [reg.client[c] EXCEPT !.floating = answers[c]]
            ELSE reg.client[c]]],
         mw)

\* A window whose floating state was refreshed is seen iff it is managed now.
RefreshSeen(reg, S) == (seen \ S) \cup (S \cap ManagedClients(reg))

-----------------------------------------------------------------------------
(* Compositor events: handle_line on the event thread, which makes the     *)
(* notifier call of one event before it reads the next.                    *)

QueryApplies(reg, c, f) ==
  Known(reg, c) /\ f # None /\ f # reg.client[c].floating

\* refresh_floating_from_query: ask the compositor whether c floats.
Queried(reg, c, f) ==
  IF QueryApplies(reg, c, f) /\ ~IgnoresFloat(layout, overlayPending, c, f)
  THEN ReconcileManagement(SetFloating(reg, c, f), managedWs) ELSE reg

QueriedTokens(reg, c, f) ==
  IF QueryApplies(reg, c, f)
  THEN ConsumeToken(layout, overlayPending, c, f) ELSE overlayPending

BecameFloating(before, after, c) == IsManaged(before, c) /\ ~IsManaged(after, c)

\* A plausible mistake in BecameTiled: forgetting managed_client_seen_, which
\* alone knows of the window an event other than a float made managed.
BecameTiledByFloat(before, after, c) ==
  IsManaged(after, c) /\ ~IsManaged(before, c)

BecameTiled(before, after, c) ==
  IsManaged(after, c) /\ (~IsManaged(before, c) \/ c \notin seen)

\* A plausible mistake in NoticeOf: telling of a state change of no workspace.
NoticeOfNothing(before, after, c, mutated) ==
  LET transition(type) == [type |-> type, ws |-> managedWs, client |-> c]
  IN  IF BecameFloating(before, after, c) THEN transition("became-floating")
      ELSE IF BecameTiled(before, after, c) THEN transition("became-tiled")
      ELSE IF mutated /\ connected
           THEN [type |-> "state-changed", ws |-> managedWs]
      ELSE None

\* maybe_set_transition, and else the state-change notification.
NoticeOf(before, after, c, mutated) ==
  LET transition(type) == [type |-> type, ws |-> managedWs, client |-> c]
  IN  IF BecameFloating(before, after, c) THEN transition("became-floating")
      ELSE IF BecameTiled(before, after, c) THEN transition("became-tiled")
      ELSE IF mutated /\ connected /\ managedWs # None
           THEN [type |-> "state-changed", ws |-> managedWs]
      ELSE None

\* sync_managed_seen_for_client.
SeenAfter(reg, c) == IF IsManaged(reg, c) THEN seen \cup {c} ELSE seen \ {c}

\* What every event that mutates state ends with.  A change of c's floating
\* state took the registry from before to after; without one they are equal.
Settle(c, before, after, tokens, last) ==
  LET emacs == RefreshManagingEmacs(after, managedWs, managingEmacs, last)
  IN  /\ notice = None
      /\ registry' = after
      /\ overlayPending' = tokens
      /\ lastActive' = last
      /\ seen' = SeenAfter(after, c)
      /\ managingEmacs' = emacs
      /\ layout' = SyncLayout(layout, after, managedWs, inputMode, emacs)
      /\ notice' = NoticeOf(before, after, c, TRUE)
      /\ UNCHANGED <<managedWs, inputMode, connected, policy>>

OpenWindow(c, w, k, f) ==
  LET opened == ReconcileManagement(UpsertOpen(registry, c, w, k), managedWs)
  IN  Settle(c, opened, Queried(opened, c, f), QueriedTokens(opened, c, f),
             lastActive)

CloseWindow(c) ==
  LET closed == ReconcileManagement(Erase(registry, c), managedWs)
  IN  Settle(c, closed, closed, overlayPending \ {c},
             IF lastActive = c THEN None ELSE lastActive)

\* A plausible mistake in MoveWindow: leaving the managed flag as it was.
MoveUnreconciled(c, target) ==
  LET moved == UpdateWorkspace(registry, c, target)
  IN  /\ target # HiddenWorkspace
      /\ Settle(c, moved, moved, overlayPending, lastActive)

\* The move that hiding a window causes is not a move of the window.
MoveWindow(c, target) ==
  LET moved == ReconcileManagement(UpdateWorkspace(registry, c, target), managedWs)
  IN  /\ target # HiddenWorkspace
      /\ Settle(c, moved, moved, overlayPending, lastActive)

FocusWindow(c, f) ==
  LET focused == SetFocus(registry, c)
  IN  Settle(c, focused, Queried(focused, c, f), QueriedTokens(focused, c, f), c)

\* "activewindowv2" without an address: no window has the focus.
FocusNothing == Settle(None, registry, registry, overlayPending, None)

\* A plausible mistake in RetitleWindow: what the window has become is noted,
\* and it stays managed.
RetitleUnreconciled(c, k, f) ==
  LET titled == UpdateTitle(registry, c, k)
  IN  Settle(c, titled, Queried(titled, c, f), QueriedTokens(titled, c, f),
             lastActive)

RetitleWindow(c, k, f) ==
  LET titled == ReconcileManagement(UpdateTitle(registry, c, k), managedWs)
  IN  Settle(c, titled, Queried(titled, c, f), QueriedTokens(titled, c, f),
             lastActive)

ChangeFloating(c, f) ==
  LET tokens == ConsumeToken(layout, overlayPending, c, f)
      floated == ReconcileManagement(SetFloating(registry, c, f), managedWs)
  IN  \/ /\ ~IgnoresFloat(layout, overlayPending, c, f)
         /\ Settle(c, registry, floated, tokens, lastActive)
      \/ /\ IgnoresFloat(layout, overlayPending, c, f)
         /\ notice = None
         /\ overlayPending' = tokens
         /\ seen' = SeenAfter(registry, c)
         /\ notice' = NoticeOf(registry, registry, c, FALSE)
         /\ UNCHANGED <<registry, managedWs, inputMode, lastActive,
                        managingEmacs, layout, connected, policy>>

-----------------------------------------------------------------------------
(* Calls of the controller thread, and the notifier's call back.           *)

\* refresh_workspace_floating_state_from_query.
RefreshFloating(w, all, answers) ==
  LET S == Refloated(registry, w, all, answers, layout, overlayPending)
      reg == RefreshRegistry(registry, S, answers, managedWs)
      emacs == RefreshManagingEmacs(reg, managedWs, managingEmacs, lastActive)
  IN  /\ overlayPending' =
           RefreshTokens(registry, w, all, answers, layout, overlayPending)
      /\ registry' = reg
      /\ seen' = RefreshSeen(reg, S)
      /\ IF S = {} THEN UNCHANGED <<managingEmacs, layout>>
         ELSE /\ managingEmacs' = emacs
              /\ layout' = SyncLayout(layout, reg, managedWs, inputMode, emacs)
      /\ UNCHANGED <<managedWs, inputMode, lastActive, connected, policy>>

\* The IPC server's answer to a notice refreshes the windows not managed,
AnswerNotice(answers) ==
  /\ notice # None
  /\ notice' = None
  /\ RefreshFloating(notice.ws, FALSE, answers)

\* unless it finds no controller to tell of a transition.
DropNotice ==
  /\ notice # None /\ notice.type # "state-changed"
  /\ notice' = None
  /\ UNCHANGED <<registry, managedWs, inputMode, lastActive, managingEmacs,
                 layout, seen, overlayPending, connected, policy>>

RequestState(w, answers) ==
  connected /\ RefreshFloating(w, TRUE, answers) /\ UNCHANGED notice

\* manage_workspace.  Managing w again only refreshes; managing another
\* workspace first gives the old one its layout and policy back.
ManageWorkspace(w, answers, undone, answered, done) ==
  LET changed == managedWs # w
      switched == changed /\ managedWs # None
      lay == IF switched THEN None ELSE layout
      S == Refloated(registry, w, TRUE, answers, lay, overlayPending)
      reg == ReconcileManagement(RefreshRegistry(registry, S, answers, w), w)
      emacs == RefreshManagingEmacs(reg, w, managingEmacs, lastActive)
      restored == IF switched THEN RestoreManagedLayout(policy, managedWs, undone)
                  ELSE policy
  IN  /\ connected
      /\ managedWs' = w
      /\ inputMode' = "emacs-control"
      /\ registry' = reg
      /\ managingEmacs' = emacs
      /\ layout' = SyncLayout(lay, reg, w, "emacs-control", emacs)
      /\ policy' = IF changed THEN ApplyManagedLayout(restored, w, answered, done)
                 ELSE policy
      /\ seen' = IF changed THEN ManagedClients(reg) ELSE RefreshSeen(reg, S)
      /\ overlayPending' =
           IF changed THEN {}
           ELSE RefreshTokens(registry, w, TRUE, answers, lay, overlayPending)
      /\ UNCHANGED <<lastActive, connected, notice>>

\* A plausible mistake in ClearManagement: a field that is not cleared.
ClearKeepingTokens(w, undone) ==
  /\ policy' = RestoreManagedLayout(policy, w, undone)
  /\ managedWs' = None
  /\ inputMode' = None
  /\ lastActive' = None
  /\ managingEmacs' = None
  /\ registry' = ReconcileManagement(registry, None)
  /\ seen' = {}
  /\ UNCHANGED overlayPending

\* The fields unmanage_workspace and a disconnect clear.
ClearManagement(w, undone) ==
  /\ policy' = RestoreManagedLayout(policy, w, undone)
  /\ managedWs' = None
  /\ inputMode' = None
  /\ lastActive' = None
  /\ managingEmacs' = None
  /\ registry' = ReconcileManagement(registry, None)
  /\ seen' = {}
  /\ overlayPending' = {}

UnmanageWorkspace(w, undone) ==
  /\ connected
  /\ managedWs = w
  /\ ClearManagement(w, undone)
  /\ layout' = None
  /\ UNCHANGED <<connected, notice>>

Connect ==
  /\ ~connected
  /\ connected' = TRUE
  /\ UNCHANGED <<registry, managedWs, inputMode, lastActive, managingEmacs,
                 layout, seen, overlayPending, policy, notice>>

Disconnect(undone) ==
  /\ connected
  /\ connected' = FALSE
  /\ layout' = None
  /\ \/ managedWs # None /\ ClearManagement(managedWs, undone)
     \/ /\ managedWs = None
        /\ UNCHANGED <<registry, managedWs, inputMode, lastActive,
                       managingEmacs, seen, overlayPending, policy>>
  /\ UNCHANGED notice

SetSelectedClient(w, c) ==
  /\ connected
  /\ IsManaged(registry, c) /\ registry.client[c].ws = w
  /\ registry' = SetFocus(registry, c)
  /\ layout' = SyncLayout(layout, registry', managedWs, inputMode, managingEmacs)
  /\ UNCHANGED <<managedWs, inputMode, lastActive, managingEmacs, seen,
                 overlayPending, connected, policy, notice>>

\* Also the effect of the dispatcher hyprmacs:set-emacs-control-mode.
SetInputMode(w, mode) ==
  /\ managedWs = w
  /\ inputMode' = mode
  /\ layout' = SyncLayout(layout, registry, w, mode, managingEmacs)
  /\ UNCHANGED <<registry, managedWs, lastActive, managingEmacs, seen,
                 overlayPending, connected, policy, notice>>

SeedClient(c, w, k, f) ==
  LET opened == SetFloating(UpsertOpen(registry, c, w, k), c, f)
      reg == ReconcileManagement(opened, managedWs)
      emacs == RefreshManagingEmacs(reg, managedWs, managingEmacs, lastActive)
  IN  /\ connected
      /\ registry' = reg
      /\ managingEmacs' = emacs
      /\ layout' = SyncLayout(layout, reg, managedWs, inputMode, emacs)
      /\ UNCHANGED <<managedWs, inputMode, lastActive, seen, overlayPending,
                     connected, policy, notice>>

\* apply_managed_layout_snapshot.  The caller validated the two lists against
\* an earlier state, so they may name windows that are gone since.
ApplyLayout(w, visible, hidden) ==
  LET emacs == RefreshManagingEmacs(registry, w, managingEmacs, lastActive)
      committed == [ws |-> w, visible |-> visible, hidden |-> hidden,
                    selected |-> None, inputMode |-> None, managingEmacs |-> None]
  IN  /\ connected
      /\ managedWs = w
      /\ visible \cap hidden = {}
      /\ managingEmacs' = emacs
      /\ layout' = SyncLayout(committed, registry, w, inputMode, emacs)
      /\ UNCHANGED <<registry, managedWs, inputMode, lastActive, seen,
                     overlayPending, connected, policy, notice>>

NoteOverlayFloatRequest(w, c) ==
  /\ connected
  /\ layout # None /\ layout.ws = w /\ c \in layout.visible
  /\ overlayPending' = overlayPending \cup {c}
  /\ UNCHANGED <<registry, managedWs, inputMode, lastActive, managingEmacs,
                 layout, seen, connected, policy, notice>>

-----------------------------------------------------------------------------
CompositorEvent ==
  \/ FocusNothing
  \/ \E c \in Clients :
       \/ CloseWindow(c)
       \/ \E target \in Workspaces \cup {HiddenWorkspace} : MoveWindow(c, target)
       \/ \E f \in BOOLEAN : ChangeFloating(c, f)
       \/ \E f \in Answers :
            \/ \E w \in Workspaces, k \in KindsOf[c] : OpenWindow(c, w, k, f)
            \/ \E k \in KindsOf[c] : RetitleWindow(c, k, f)
            \/ FocusWindow(c, f)

Command ==
  \/ \E w \in Workspaces, answers \in [Clients -> Answers] :
       \/ RequestState(w, answers)
       \/ \E undone, done \in Done, answered \in Answered :
            ManageWorkspace(w, answers, undone, answered, done)
  \/ \E w \in Workspaces, undone \in Done : UnmanageWorkspace(w, undone)
  \/ \E w \in Workspaces, mode \in InputModes : SetInputMode(w, mode)
  \/ \E w \in Workspaces, visible \in SUBSET Clients, hidden \in SUBSET Clients :
       ApplyLayout(w, visible, hidden)
  \/ \E c \in Clients, w \in Workspaces :
       \/ SetSelectedClient(w, c)
       \/ NoteOverlayFloatRequest(w, c)
       \/ \E k \in KindsOf[c], f \in BOOLEAN : SeedClient(c, w, k, f)

Next ==
  \/ CompositorEvent
  \/ \E answers \in [Clients -> Answers] : AnswerNotice(answers)
  \/ DropNotice
  \/ Command
  \/ Connect
  \/ \E undone \in Done : Disconnect(undone)

Spec == Init /\ [][Next]_vars

-----------------------------------------------------------------------------
(* Properties.                                                             *)

\* Every variable has its type.
TypeOK ==
  /\ registry \in Registry
  /\ managedWs \in Maybe(Workspaces)
  /\ inputMode \in Maybe(InputModes)
  /\ lastActive \in Maybe(Clients)
  /\ managingEmacs \in Maybe(Clients)
  /\ layout \in Maybe(Layout)
  /\ seen \in SUBSET Clients
  /\ overlayPending \in SUBSET Clients
  /\ connected \in BOOLEAN
  /\ policy \in Policy
  /\ notice \in Maybe(Notice)

\* The managed flag of every known window is right after every call: set on
\* exactly the eligible windows of the managed workspace.  The code caches it
\* and has to reconcile after whatever changes the workspace, the floating
\* state, the title or the managed workspace itself.
ManagedIffEligible ==
  \A c \in Clients :
    Known(registry, c) =>
      (registry.client[c].managed <=> ShouldManage(registry.client[c], managedWs))

\* The committed layout never lags behind the registry: it is for the managed
\* workspace, places every managed window and no other one, each either
\* visible or hidden, and repeats the manager's selection, mode and frame.
LayoutAgrees ==
  layout # None =>
    /\ layout.ws = managedWs
    /\ layout.visible \cup layout.hidden = ManagedClients(registry)
    /\ layout.visible \cap layout.hidden = {}
    /\ layout.selected = SelectedManaged(registry, managedWs)
    /\ layout.inputMode = inputMode
    /\ layout.managingEmacs = managingEmacs

\* While a workspace is managed, the managing frame is an Emacs frame on that
\* workspace, and there is one whenever the workspace has an Emacs frame.
ManagingEmacsValid ==
  /\ managingEmacs # None => managingEmacs \in EmacsClients(registry, managedWs)
  /\ managedWs # None /\ EmacsClients(registry, managedWs) # {}
       => managingEmacs # None

\* Without a controller nothing is managed, and without a managed workspace no
\* managed flag, layout, mode, frame, seen window or overlay token is left
\* ("without leaving stale managed state behind", v1-scope.org).
NoStaleManagedState ==
  /\ ~connected => managedWs = None
  /\ managedWs = None =>
       /\ ManagedClients(registry) = {}
       /\ inputMode = None /\ layout = None /\ managingEmacs = None
       /\ seen = {} /\ overlayPending = {}

\* One lease per managed workspace and one saved layout, for that workspace,
\* whatever queries and dispatches failed.
LeaseFollowsManagement ==
  /\ policy.lease = IF managedWs = None THEN 0 ELSE 1
  /\ \A w \in Workspaces : policy.savedLayout[w] # None <=> w = managedWs
  /\ managedWs = None => \A o \in Options : policy.savedOption[o] = None

\* With a compositor that answers and obeys: the managed workspace has the
\* hyprmacs layout and the options are off, and at all other times and on all
\* other workspaces the user's own values are in force.
PolicyFollowsManagement ==
  /\ \A w \in Workspaces :
       policy.layout[w] = IF w = managedWs THEN "hyprmacs" ELSE "user"
  /\ \A o \in Options :
       policy.option[o] = IF managedWs = None THEN "user" ELSE "off"

\* "restore prior policy values" on unmanage and disconnect (ADR 0003).
PolicyRestored ==
  managedWs = None => \A o \in Options : policy.option[o] = "user"

VisibleClients == IF layout = None THEN {} ELSE layout.visible

\* Only a layout committed by Emacs makes a window visible; compositor events,
\* seeding and re-management can only take windows out of it.
VisibilityComesFromEmacs ==
  [][\/ VisibleClients' \subseteq VisibleClients
     \/ \E w \in Workspaces, visible \in SUBSET Clients,
          hidden \in SUBSET Clients : ApplyLayout(w, visible, hidden)]_vars

\* The managing frame keeps its role until it closes, moves away or stops
\* being an Emacs frame: focusing another frame does not take it over.
ManagingEmacsStable ==
  [][managingEmacs # None /\ managingEmacs' # managingEmacs
       => managingEmacs \notin EmacsClients(registry', managedWs')]_vars

\* An event that makes a window managed reports it as became-tiled, which is
\* what hides it, as long as seen named only managed windows before it.
EveryTilingReported ==
  [][\A c \in ManagedClients(registry') \ ManagedClients(registry) :
       seen \subseteq ManagedClients(registry) /\ CompositorEvent =>
         notice' = [type |-> "became-tiled", ws |-> managedWs, client |-> c]]_vars
=============================================================================
