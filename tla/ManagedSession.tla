--------------------------- MODULE ManagedSession ---------------------------
(***************************************************************************)
(* The plugin at work: the event thread and the controller thread of the   *)
(* IPC server drive one WorkspaceManager and one LayoutApplier, while a    *)
(* user drives the compositor.  Each call of the manager is one step, for  *)
(* the manager's mutex; between two calls a thread holds nothing, so the   *)
(* other thread and the user get in between.                               *)
(***************************************************************************)
EXTENDS WorkspaceManager, LayoutApplier, SequencesExt

CONSTANTS
  Commands,  \* the commands the controller sends, out of AllCommands
  Races      \* of {"overlap", "tryLock"}: whether the two threads may be at
             \* work at the same time, and whether try_lock may find the mutex
             \* taken (by the event thread, or by the compositor's own)

AllCommands == {"manage-workspace", "unmanage-workspace", "request-state",
                "set-layout", "set-selected-client", "set-input-mode",
                "seed-client"}

ASSUME SessionAssumption ==
  Commands \subseteq AllCommands /\ Races \subseteq {"overlap", "tryLock"}

ASSUME FiniteAssumption == IsFiniteSet(Clients)

VARIABLE fd   \* controller_fd_ >= 0

sessionVars == <<vars, window, queue, applierVars, fd>>

SessionInit == Init /\ CompositorInit /\ ApplierInit /\ fd = FALSE

MayStart(t) == Idle(t) /\ ("overlap" \in Races \/ \A u \in Threads : Idle(u))

\* Several calls of the same kind, one for each window of S.
ForEach(S, op, w) ==
  LET cs == SetToSeq(S) IN [i \in 1 .. Len(cs) |-> Call(op, cs[i], w)]

ManagedOn(w) == {c \in ManagedClients(registry) : registry.client[c].ws = w}

\* managed_layout_snapshot(w) has one.
Committed(w) == layout # None /\ layout.ws = w

NothingElse == UNCHANGED <<window, queue, hiddenFrom, fd>>

-----------------------------------------------------------------------------
(* The event thread.                                                       *)

\* What on_client_transition and on_workspace_state_changed will do.
Duties(n) ==
  IF n = None THEN <<>>
  ELSE CASE n.type = "became-floating" ->
              <<Call("show", n.client, n.ws), Call("answer", None, n.ws)>>
         [] n.type = "became-tiled" ->
              <<Call("hide", n.client, n.ws), Call("answer", None, n.ws)>>
         [] n.type = "state-changed" -> <<Call("answer", None, n.ws)>>

HandleEvent ==
  LET e == Head(queue)
      c == e.client
  IN  /\ MayStart("event") /\ queue # <<>>
      /\ queue' = Tail(queue)
      /\ \/ e.name = "close" /\ CloseWindow(c)
         \/ e.name = "move" /\ MoveWindow(c, e.ws)
         \/ e.name = "float" /\ ChangeFloating(c, e.floating)
         \/ e.name = "focus" /\ c = None /\ FocusNothing
         \/ \E answers \in FloatingAnswers :
              \/ e.name = "open" /\ OpenWindow(c, e.ws, e.kind, answers[c])
              \/ e.name = "retitle" /\ RetitleWindow(c, e.kind, answers[c])
              \/ e.name = "focus" /\ c # None /\ FocusWindow(c, answers[c])
      /\ todo' = [todo EXCEPT !["event"] = Duties(notice')]
      /\ UNCHANGED <<window, hiddenFrom, fd>>

Answer ==
  /\ Doing("event", "answer")
  /\ \/ /\ fd \/ notice.type = "state-changed"
        /\ \E answers \in FloatingAnswers : AnswerNotice(answers)
        /\ Goes("event", <<Call("enforce", None, notice.ws)>>)
     \/ /\ ~fd
        /\ DropNotice
        /\ Finishes("event")
  /\ NothingElse

\* A plausible mistake in Enforce: hide_client for hide_client_force, which
\* skips a window that the user brought back.  EnforcedAtRest notices.
EnforceOnce ==
  LET w == Head(todo["event"]).ws
  IN  /\ Doing("event", "enforce")
      /\ IF Committed(w) /\ layout.inputMode = "emacs-control"
         THEN Goes("event", ForEach(layout.hidden, "hide", w))
         ELSE Finishes("event")
      /\ NothingElse /\ UNCHANGED vars

\* In Emacs control every hidden window of the layout is hidden again.
Enforce ==
  LET w == Head(todo["event"]).ws
  IN  /\ Doing("event", "enforce")
      /\ IF Committed(w) /\ layout.inputMode = "emacs-control"
         THEN Goes("event", ForEach(layout.hidden, "force", w))
         ELSE Finishes("event")
      /\ NothingElse /\ UNCHANGED vars

-----------------------------------------------------------------------------
(* The controller thread: connection.                                      *)

Accept ==
  /\ ~fd /\ MayStart("controller")
  /\ fd' = TRUE
  /\ todo' = [todo EXCEPT !["controller"] = <<Call("online", None, None)>>]
  /\ UNCHANGED <<vars, window, queue, hiddenFrom>>

GoOnline ==
  Doing("controller", "online") /\ Connect /\ Finishes("controller") /\ NothingElse

HangUp ==
  /\ fd /\ MayStart("controller")
  /\ fd' = FALSE
  /\ todo' = [todo EXCEPT !["controller"] = <<Call("clean-up", None, None)>>]
  /\ UNCHANGED <<vars, window, queue, hiddenFrom>>

\* restore_workspace_on_disconnect shows what was hidden from the managed
\* workspace, unless it cannot read which one that is.
CleanUp ==
  /\ Doing("controller", "clean-up")
  /\ \/ /\ managedWs # None
        /\ Goes("controller", <<Call("scan", None, managedWs)>>)
     \/ /\ managedWs = None \/ "tryLock" \in Races
        /\ Goes("controller", <<Call("offline", None, None)>>)
  /\ NothingElse /\ UNCHANGED vars

\* A plausible mistake in Scan: restoring the managed windows only, and not
\* a hidden one that stopped being managed.  RestoredOnDisconnect and
\* RestoredUnlessLate notice.
ScanManaged ==
  LET w == Head(todo["controller"]).ws
      held == {c \in Clients : hiddenFrom[c] = w} \cap ManagedClients(registry)
  IN  /\ Doing("controller", "scan")
      /\ Goes("controller", ForEach(held, "restore", w) \o <<Call("offline", None, None)>>)
      /\ NothingElse /\ UNCHANGED vars

\* restore_workspace_to_native lists what it will show.
Scan ==
  LET w == Head(todo["controller"]).ws
      held == {c \in Clients : hiddenFrom[c] = w}
  IN  /\ Doing("controller", "scan")
      /\ Goes("controller", ForEach(held, "restore", w) \o <<Call("offline", None, None)>>)
      /\ NothingElse /\ UNCHANGED vars

GoOffline ==
  /\ Doing("controller", "offline")
  /\ \E undone \in Done : Disconnect(undone)
  /\ Finishes("controller") /\ NothingElse

-----------------------------------------------------------------------------
(* The controller thread: commands (route_command_for_tests).              *)

Receives(command) ==
  /\ command \in Commands /\ fd /\ MayStart("controller")
  /\ Len(queue) < QueueBound

Then(calls) == todo' = [todo EXCEPT !["controller"] = calls]

ManageCommand(w) ==
  /\ Receives("manage-workspace")
  /\ \E undone, done \in Done, answered \in Answered, answers \in FloatingAnswers :
       ManageWorkspace(w, answers, undone, answered, done)
  /\ Then(<<Call("hide-managed", None, w)>>) /\ NothingElse

HideManaged ==
  LET w == Head(todo["controller"]).ws
  IN  /\ Doing("controller", "hide-managed")
      /\ Goes("controller", ForEach(ManagedOn(w), "hide", w))
      /\ NothingElse /\ UNCHANGED vars

UnmanageCommand(w) ==
  /\ Receives("unmanage-workspace")
  /\ \E undone \in Done : UnmanageWorkspace(w, undone)
  /\ NothingElse /\ UNCHANGED todo

RequestStateCommand(w) ==
  /\ Receives("request-state")
  /\ \E answers \in FloatingAnswers : RequestState(w, answers)
  /\ NothingElse /\ UNCHANGED todo

SeedCommand(c) ==
  /\ Receives("seed-client")
  /\ Exists(c) /\ window[c].ws \in Workspaces
  /\ SeedClient(c, window[c].ws, window[c].kind, window[c].floating)
  /\ NothingElse /\ UNCHANGED todo

\* The lists are validated against one state dump and committed after another.
SetLayoutCommand(w, visible, hidden, chosen, mode) ==
  /\ Receives("set-layout")
  /\ visible \cup hidden \subseteq ManagedOn(w) /\ visible \cap hidden = {}
  /\ Then(<<[op |-> "commit", ws |-> w, visible |-> visible, hidden |-> hidden,
             chosen |-> chosen, mode |-> mode]>>)
  /\ NothingElse /\ UNCHANGED vars

CommitLayout ==
  LET set == Head(todo["controller"])
  IN  /\ Doing("controller", "commit")
      /\ \/ /\ ApplyLayout(set.ws, set.visible, set.hidden)
            /\ Goes("controller",
                 ForEach(set.hidden, "hide", set.ws)
                   \o ForEach(set.visible, "show", set.ws)
                   \o (IF set.chosen = None THEN <<>>
                       ELSE <<Call("select", set.chosen, set.ws)>>)
                   \o (IF set.mode = None THEN <<>>
                       ELSE <<Call(set.mode, None, set.ws)>>)
                   \o ForEach(set.visible, "overlay", set.ws))
         \/ /\ managedWs # set.ws
            /\ Finishes("controller")
            /\ UNCHANGED vars
      /\ NothingElse

Select ==
  LET call == Head(todo["controller"])
  IN  /\ Doing("controller", "select")
      /\ IF call.client \in ManagedOn(call.ws)
         THEN SetSelectedClient(call.ws, call.client) ELSE UNCHANGED vars
      /\ Finishes("controller") /\ NothingElse

SwitchMode(mode) ==
  /\ Doing("controller", mode)
  /\ SetInputMode(Head(todo["controller"]).ws, mode)
  /\ Finishes("controller") /\ NothingElse

\* apply_managed_overlay_commands: note the request, then make it float.
Overlay ==
  LET call == Head(todo["controller"])
  IN  /\ Doing("controller", "overlay")
      /\ IF Committed(call.ws) /\ call.client \in layout.visible
         THEN NoteOverlayFloatRequest(call.ws, call.client) ELSE UNCHANGED vars
      /\ Goes("controller", <<Call("setfloating", call.client, call.ws)>>)
      /\ NothingElse

SelectCommand(w, c) ==
  /\ Receives("set-selected-client")
  /\ SetSelectedClient(w, c)
  /\ Then(<<Call("reveal", None, w)>>) /\ NothingElse

\* The selected window is shown if it has a place; the others are hidden.
Reveal ==
  LET w == Head(todo["controller"]).ws
      shown == {c \in ManagedOn(w) : /\ c = SelectedManaged(registry, w)
                                     /\ Committed(w) /\ c \in layout.visible}
  IN  /\ Doing("controller", "reveal")
      /\ IF SelectedManaged(registry, w) = None THEN Finishes("controller")
         ELSE Goes("controller", ForEach(shown, "show", w)
                                   \o ForEach(ManagedOn(w) \ shown, "hide", w))
      /\ NothingElse /\ UNCHANGED vars

ModeCommand(w, mode) ==
  /\ Receives("set-input-mode")
  /\ SetInputMode(w, mode)
  /\ Then(<<Call(IF mode = "client-control" THEN "select-first" ELSE "overlay-all",
                 None, w)>>)
  /\ NothingElse

SelectFirst ==
  LET w == Head(todo["controller"]).ws
  IN  /\ Doing("controller", "select-first")
      /\ IF SelectedManaged(registry, w) = None /\ ManagedOn(w) # {}
         THEN Goes("controller", <<Call("select", Lowest(ManagedOn(w)), w)>>)
         ELSE Finishes("controller")
      /\ NothingElse /\ UNCHANGED vars

OverlayAll ==
  LET w == Head(todo["controller"]).ws
  IN  /\ Doing("controller", "overlay-all")
      /\ IF Committed(w) THEN Goes("controller", ForEach(layout.visible, "overlay", w))
         ELSE Finishes("controller")
      /\ NothingElse /\ UNCHANGED vars

-----------------------------------------------------------------------------
EventThread == HandleEvent \/ Answer \/ Enforce

Connection == Accept \/ GoOnline \/ HangUp \/ CleanUp \/ Scan \/ GoOffline

CommandReceived ==
  \E w \in Workspaces :
    \/ ManageCommand(w) \/ UnmanageCommand(w) \/ RequestStateCommand(w)
    \/ \E mode \in InputModes : ModeCommand(w, mode)
    \/ \E c \in Clients : SelectCommand(w, c)
    \/ \E visible \in SUBSET ManagedOn(w), hidden \in SUBSET ManagedOn(w) :
         \E chosen \in Maybe(ManagedOn(w)), mode \in Maybe(InputModes) :
           SetLayoutCommand(w, visible, hidden, chosen, mode)

CommandStep ==
  \/ HideManaged \/ CommitLayout \/ Select \/ Overlay \/ Reveal
  \/ SelectFirst \/ OverlayAll
  \/ \E mode \in InputModes : SwitchMode(mode)

SessionNext ==
  \/ EventThread
  \/ Connection
  \/ CommandReceived
  \/ \E c \in Clients : SeedCommand(c)
  \/ CommandStep
  \/ \E t \in Threads : ApplierStep(t) /\ UNCHANGED <<vars, fd>>
  \/ UserStep /\ UNCHANGED <<vars, applierVars, fd>>

SessionSpec == SessionInit /\ [][SessionNext]_sessionVars

-----------------------------------------------------------------------------
(* Properties.                                                             *)

\* Every variable of the session has its type.
SessionTypeOK ==
  /\ TypeOK /\ CompositorType
  /\ hiddenFrom \in [Clients -> Maybe(Workspaces)]
  /\ \A t \in Threads : \A i \in DOMAIN todo[t] : todo[t][i].ws \in Maybe(Workspaces)
  /\ fd \in BOOLEAN

\* No window gets lost: whatever is on the hidden workspace has a record of
\* where it belongs (layout_applier.cpp), or its hide_client_force is about to
\* write one.  Closing, reopening, moving and failed shows come in between.
HiddenIsRecorded ==
  \A c \in HiddenWindows :
    \/ hiddenFrom[c] # None
    \/ \E t \in Threads : Doing(t, "record") /\ Head(todo[t]).client = c

\* When the event thread comes to rest in Emacs control, every window that the
\* layout hides is hidden, although the user may have brought one back and the
\* map still calls it hidden (on_workspace_state_changed forces it).
EnforcedAtRest ==
  [][/\ ~Idle("event") /\ todo'["event"] = <<>> /\ queue' = <<>>
     /\ layout' # None /\ layout'.inputMode = "emacs-control"
     => \A c \in layout'.hidden : window'[c] = None \/ c \in HiddenWindows']_sessionVars

\* The end of a connection leaves no window hidden from the workspace that was
\* managed (restore_workspace_on_disconnect runs before the manager forgets
\* which one that is), one that was managed no longer included.
RestoredOnDisconnect ==
  [][connected /\ ~connected' /\ managedWs # None
       => \A c \in HiddenWindows' : hiddenFrom'[c] # managedWs]_sessionVars

\* A window that has become a popup or a dialog is hidden only as long as the
\* plugin has not read the event that says so: what it has read reaches the
\* committed layout, and each list of windows to hide that is taken from then on
\* (by an event or a command that starts when no other is under way).
HidesPlainWindows ==
  [][\A c \in HiddenWindows' \ HiddenWindows :
       \/ window[c].kind = "plain"
       \/ \E i \in DOMAIN queue :
            queue[i].client = c /\ queue[i].kind = window[c].kind]_sessionVars

\* Popups, dialogs and Emacs frames are left alone, whichever thread acts on
\* whatever snapshot ("native floating/transient/popup surfaces remain outside
\* hyprmacs-managed control", ADR 0003).
NativeSurfacesUntouched ==
  \A c \in Clients :
    "plain" \notin KindsOf[c] => c \notin HiddenWindows /\ hiddenFrom[c] = None
=============================================================================
