# hyprmacs in TLA+

hyprmacs lets Emacs lay out the windows of one Hyprland workspace.  A plugin in
the compositor watches window events, decides which windows are *managed*,
hides and shows them and serves a controller, an Emacs package, over a Unix
socket.  This directory models both: TLA+ modules translated from `src/plugin/`
and `src/emacs/`, TLC configurations that check them on small instances, and
proofs that TLAPS checks.

## The system

| Part | State | Operations | Interacts with |
|---|---|---|---|
| Client classifier and registry (`client_classifier.cpp`, `client_registry.cpp`) | per window: workspace, title and app id, floating, eligible, managed; the selected window | open, close, move, retitle, float, focus, reconcile | owned by the workspace manager, under its mutex |
| Workspace manager (`workspace_manager.cpp`) | managed workspace, input mode, managing Emacs frame, last active window, committed layout, windows seen as managed, overlay float tokens, controller flag, policy lease | compositor events (`handle_line`), commands, connect and disconnect | queries and configures the compositor; notifies the IPC server after each event |
| Policy lease (in the manager) | saved tiled layout per workspace, saved options, lease count | acquire on manage, release on unmanage, switch and disconnect | compositor options |
| Layout applier (`layout_applier.cpp`) | which windows are hidden, and the workspace each goes back to | hide, force-hide, show, restore a workspace, validate rectangles | dispatches to the compositor; called by the event thread and the controller thread without a lock |
| IPC server (`ipc_server.cpp`) | controller connection and its generation, pending state dumps with deadlines | route a command, answer a notice, publish a debounced state dump, accept, disconnect, stop | everything above, and the socket |
| Focus controller, dispatchers | none | focus and z-order commands; `hyprmacs:set-emacs-control-mode` | compositor, manager, IPC server |
| Plugin entry point and layout algorithm (`plugin_main.cpp`) | the Hyprland handles | init, exit, `recalculate`, command socket | compositor thread, manager |
| Protocol codec (`protocol.cpp`) | none | JSON frames | IPC server |
| Emacs package (`emacs/*.el`) | session, one mirror of the plugin's state (not one per workspace), buffers of windows, debounce timer | connect, manage, set layout, adopt windows, reconnect | the socket |

The plugin's threads: the *event thread* reads the compositor's event socket,
calls `handle_line` under the manager's mutex and then, with the mutex released,
the notifiers of the IPC server; the *accept (controller) thread* serves one
controller at a time; the *state-notify thread* sends debounced state dumps; the
*compositor's main thread* runs dispatchers, `recalculate` and the other end of
the command socket.  The layout applier is shared by the first two without a
lock.

### What is hard, and what makes each part correct

| Part | Hard behaviour | Correct when |
|---|---|---|
| Registry, manager | cached facts (managed flag, managing frame, committed layout, seen windows, tokens) that many call paths must keep up to date | every cached fact equals what it caches after every call |
| Policy lease | three ways to stop managing; queries without an answer, dispatches that fail | one lease and one saved layout for the managed workspace; the user's values come back |
| Layout applier and session | two threads and a user act between any two steps; windows close, move and come back; the controller hangs up in the middle | no hidden window is lost; what the layout hides is hidden; a disconnect restores the workspace |
| State notification | debounce deadlines, connection generations, stop while waiting | every change is followed by a dump that shows it, unless its connection ends; the notifier never sleeps through one; stop returns |
| Command socket | a thread waits for the compositor with the mutex held, and the compositor for the mutex | no wait cycle |
| Emacs package | sentinel, timer and frames interleave | the state of a dropped session is not used in the next |

`PROJECT.json` lists each of these hazards at its line, with the properties that
watch it.

## The modules

| Module | Models | State | Actions |
|---|---|---|---|
| `PluginTypes` | names and optional values the others share | | |
| `ClientRegistry` | `ClientRegistry` and the classifier | | operators from registry to registry, one per method |
| `PolicyLease` | the policy and layout lease of the manager | | operators from policy to policy |
| `WorkspaceManager` | `WorkspaceManager` on its own, in an environment that may call anything in any order with any answer | one variable per field, plus `notice`, the notifier call that `handle_line` makes after it unlocks | one per event of `handle_line` (`OpenWindow`, `CloseWindow`, `MoveWindow`, `FocusWindow`, `FocusNothing`, `RetitleWindow`, `ChangeFloating`), per public method that changes state, and per way a notice ends |
| `Compositor` | Hyprland as the plugin's code counts on it (external) | `window`, and `queue`, the events under way | what a user does, and the two dispatches |
| `LayoutApplier` | `LayoutApplier` | `hiddenFrom` (the map), `todo` (the calls each thread still has to make) | the halves of a hide and of a show, restoring, floating |
| `ManagedSession` | the IPC server driving one manager and one applier under a compositor | all of the above and `fd` | the event thread, the connection, one action per command and per stretch of it between two calls of the manager |
| `SessionHistory` | `ManagedSession` with three history variables, and the properties that hold however the threads overlap | `overtaken`, `late`, `disturbed` (none of them code) | those of `ManagedSession` |
| `SessionClaims` | what the documents promise of a session and the code does not keep | | |
| `StateReporting` | the promise of the notifications: a change is shown to the connection it happened in, or noted as lost, or that ends | `open`, `owed`, `lost` | `Open`, `Close`, `Change`, `Report`, `Lose` |
| `StateNotify` | the threads of the IPC server and the debounced dumps | `running`, `fd`, `generation`, `pending`, `debounce`, `connected`, what each thread holds in locals (`until`, `due`, `job`) and a program counter per thread; `owed` and `lost` are history | one per section under a mutex, per sleep of the notifier, per step of `accept_loop` and of `stop` |
| `CommandSocketLocking` | who waits for whom: the manager's mutex, the command socket, the joins | `holder`, the rest of each thread's call, the requests that wait for an answer, what the compositor's thread is at | lock, unlock, ask, serve, reply, try, join; the dispatcher, a recalculation, the exit |
| `EmacsSession` | the Emacs package against a plugin reduced to its answers | the session, the buffers, the windows, the timers; both directions of the socket; the plugin's management, selection and layout | one per command, frame, hook and timer; one per request the plugin serves |
| `WorkspaceManagerProofs`, `ManagedSessionProofs`, `StateNotifyProofs`, `CommandSocketLockingProofs`, `EmacsSessionProofs` | the theorems about the modules they are named after | | |
| `HiddenWindowsProofs` | the theorems about `SessionHistory` | | |

`WorkspaceManager` extends `ClientRegistry` and `PolicyLease`; `ManagedSession`
extends `WorkspaceManager` and `LayoutApplier`, which extends `Compositor`.
`SessionHistory` extends `ManagedSession` and changes nothing of what it does.
`StateNotify` instantiates `StateReporting`.  `StateNotify`, `CommandSocketLocking`
and `EmacsSession` stand on their own: each looks at one boundary (threads and
clock, threads and compositor, plugin and Emacs) and reduces the other side to what
crosses it.  The
calls of a thread are atomic where a mutex makes them so.  The mutex of the
manager is held for a whole call, so a call is one action; the applier has none,
so its dispatch and its map update are two.  A thread in the middle of a command
keeps the rest of it in `todo`, as a list of calls with their arguments: what it
read before, it acts on later, as the code does with its local copies.

Definitions keep the names of the code (`RefreshManagingEmacs` is
`refresh_managing_emacs_client_locked`); the `map` in `PROJECT.json` gives the
lines each one stands for.  Definitions introduced by a comment "a plausible
mistake" are not part of the model: each is a wrong version of the definition
that follows, kept to show that a property notices the mistake.

Data is abstracted as follows.

- Title and app id become the `kind` they classify to.  `KindsOf` says what kinds
  each window may take.
- Rectangles, stacking order and the visible list of a committed layout, which
  `set-layout` validates to name the same windows, become the set `visible`.
  Coordinates are left out, and so are the stacking dispatches.
- `eligible` is recomputed in every call that changes its inputs; it is an
  operator.
- Focus commands that the plugin sends are part of what the user may do: a focus
  event may arrive at any time.
- A dispatch takes effect when it is sent.  The events it causes arrive later, in
  order, through `queue`.
- Time in `StateNotify` is a count of ticks that each deadline still has to run; a
  dump is whether it was built after the change that is owed.  `notify_one` only
  reaches a thread that sleeps already, so the test of a condition and the sleep
  after it are two steps, between which the mutex is held.
- A call in `CommandSocketLocking` is the list of what it does to the mutex and the
  socket; what it computes is left out.
- `EmacsSession` has one workspace and no input mode.  The windows of a layout are
  which client each one shows; a killed buffer is replaced by any other.

## What the runs check

All constants are in the `.cfg` files.  `KindsOf` and `Clients` are defined in the
module that the run names.

| Run | Instance | Shows |
|---|---|---|
| `windows` | an Emacs frame and a window that may turn into a second frame, two workspaces, one option | the managed flags, the committed layout, the managing frame, the notices, the lease, the policy and the absence of stale state agree after any events and commands in any order; only Emacs makes a window visible; the managing frame changes only when it must |
| `policy_leak` | no windows, two workspaces, one option, queries may fail | *finding*: an option that was not captured stays off |
| `session` | one window that may turn into a popup, two workspaces, every user action and command, threads take turns | no hidden window is lost, Emacs control is enforced, a disconnect restores the workspace, a popup is hidden only as long as the event that it is one is unread |
| `overlap` | one window that opens, moves and closes, one workspace, `manage-workspace`, `set-layout` and `set-input-mode`, both threads at work at once, `try_lock` may fail | a hidden window is recorded unless it was overtaken; a disconnect restores what was not hidden late; the layout is enforced unless a command interferes |
| `unmanage_leaves_hidden`, `disconnect_race`, `seeded_not_hidden` | the smallest constants that leave one cause | *findings*, see below |
| `notify` | two connections, one workspace, the event thread and the dispatcher enqueue, the option is absent, negative or too large | a change is forgotten only where a late entry supplants its own; every other one is reported, or its connection ends; the notifier does not sleep over an entry; `stop` returns |
| `locking` | event, controller and helper thread, every duty of the compositor's thread | each call returns unless one of the three stalls happens that the module names; a recalculation does not wait for the client being served |
| `dispatcher_stall` | event and controller thread, the dispatcher only | *finding* |
| `emacs` | one client, two windows, three commands, one change | buffers and windows follow the mirror; the exchange of layouts and answers ends; the plugin ends up with the arrangement of the windows |
| `emacs_drop` | one client, one window | *finding* |

**Fairness.**  `NotifySpec` assumes weak fairness of each thread and of time: a
thread that can run does, and the clock does not stop.  Nobody has to change
anything, to connect, to hang up or to stop.  `LockingSpec` assumes strong fairness
of locking, of serving and of ending, because a mutex or a main loop that others
use now and then is free again and again without being free for good: the
scheduler lets every waiting thread in eventually.  It assumes nothing of
`Start`, so a thread may stay between two calls for ever, except that one that was
told to end does: it sees `running_` after finitely many calls.  The event thread
is left out of that, since only a further event takes it out of `recv`
(`EventStall`).  `EmacsSpec` has the weakest fairness there is for it: as long as a
frame, a timer, redisplay, a request or a notification has something to do, one of
them does it (`Works`), in any order and with any of them neglected.  Emacs's loop
and two threads of the plugin justify that and more.  No command has to be given,
and no client and no plugin to come or go.

**Refinement.**  `ReportsEveryChange` says that `NotifySpec` implements
`StateReporting!Spec`, where `open` is that the descriptor is set and the manager
knows of the controller, and `owed` is a history variable that follows one change
(the oldest not reported, or any later one) until a dump built after it is sent.
`lost` takes over a change at the one step that forgets it, an insertion for an
older connection in place of the entry that carried it, and only if nobody else
carries it.  A loss that this does not name breaks `NothingLost`, and with it the
refinement.  That a dump goes to its own connection only is not claimed: one for a
connection that has closed may reach the next (*Notifications* below).
The fairness of `Report` is part of what is implemented.

**Bounds.**  `CHECK_DEADLOCK FALSE` stands in the runs of two modules: in
`CommandSocketLocking` because the plugin exits and because the stalls are states
without a next step, and in `EmacsSession` because commands and changes run out.
`MaxGeneration` ends the connections of `notify` after the second, which meets all
that the first left behind; `DefaultDebounce` and `MaxDebounce` are a tick, which is enough for a
deadline to pass before, while and after the notifier looks, and for the notifier to
wake for a deadline that has been replaced since; all five properties also hold with
a maximum of two ticks (474 thousand states, 3 minutes).  `MaxCommands` and
`MaxChanges` bound a session of `emacs`: three commands are a connection, a
management and one command in its wake.  Temporal properties and two windows leave
room for one client there.  All three properties were also checked with two clients
(3.9 million states, 8 minutes), where selections can cross; `PluginFollowsWindows`,
with four commands, two changes and one window as well (50 million states), before it
was proved for all.  `Clients`, `Workspaces` and `Options` are as small as the cases need.
Two windows are enough for whatever relates a window to another one: the frame
and the window it manages, or two frames in competition; two workspaces for a
move and for a switch of management.  What the properties of a session say of a
window does not depend on another window while the threads take turns.  `QueueBound` holds back the user and
the controller, not the plugin's own dispatches, so the queue may grow beyond it.
With 1, every window event still meets every step of both threads.  (`session`
also holds with a bound of 2, which takes several times as long.)

`Races` is the one constant that describes the schedule rather than the size:
without `"overlap"` a thread starts only when the other is idle, while the user still
acts between any two steps.  No lock of the code makes the threads take turns, so the
project asks two questions.  `session` asks what holds if they happen to:
`HiddenIsRecorded`, `EnforcedAtRest`, `RestoredOnDisconnect` and `HidesPlainWindows`,
with every command and every user action and without exceptions.  `overlap` asks what
is left of the first three if they do not, and the answer is
`RecordedUnlessOvertaken`, `EnforcedUnlessDisturbed` and `RestoredUnlessLate`: each
names the interleavings that break the promise through a history variable and denies
that there are others.  These three are proved for all constants.  (In an overlap,
`HidesPlainWindows` fails: a command hides what it listed before the event thread read
that it became a popup.  What holds then, `NativeSurfacesUntouched`, is proved: a
window that can only be a popup is never hidden.)

In the run, `HiddenIsRecorded` fails with overlaps, and `RestoredOnDisconnect` with
overlaps and with a failing `try_lock`, each without its exception.
`EnforcedUnlessDisturbed` differs from `EnforcedAtRest` in two ways.  It speaks only of
the time that a controller is connected, since one may hang up in the middle of a
round.  And it has two exceptions, which do not occur with the one application window
of the run.  A failing dispatch, left to the proofs, matters even when the threads take
turns.  A command matters in an overlap with two application windows, an instance too
large for a run: in the shortest trace, of 31 states, `set-layout` commits a layout
that hides the other window while the event thread enforces the one before.

### Findings

Each is a claim of a document, quoted in `PROJECT.json`, that a run refutes.

1. `policy_leak`: an option whose prior value the compositor did not report is
   switched off and never restored.
2. `unmanage_leaves_hidden`: `unmanage-workspace` shows none of the windows that
   `manage-workspace` hid.  Even a later disconnect does not, since nothing is
   managed by then.
3. `disconnect_race`: the event thread hides a window after the disconnect has
   restored the workspace.
4. `seeded_not_hidden`: `hyprmacs.el` seeds windows after `manage-workspace`; they
   become managed and stay on the screen.
5. `dispatcher_stall`: `hyprmacs:set-emacs-control-mode` waits on the compositor's
   thread for the manager's mutex, while the thread that holds it waits for the
   compositor to answer a query.  `managed_workspace()` was made to try the mutex
   for this reason; `set_input_mode`, `emacs_client` and
   `managed_layout_snapshot` were not.
6. `emacs_drop`: when the plugin closes the connection, Emacs reports "connection
   broken by remote peer", which the sentinel does not match, and the session
   looks connected for ever after.

Further behaviour that the same modules show and that no run is kept for:

*Windows and layouts*
- The map of hidden windows keeps the address of one that closed while hidden; a
  new window at that address is never hidden (`NewlyManagedHidden` with
  `UserActions = {"open", "close"}` and `Commands = {"manage-workspace"}`).
- A `try_lock` of `managed_workspace()` that fails makes the clean-up after a
  disconnect restore nothing (`Races = {"tryLock"}` refutes
  `DisconnectedIsNative`).
- With both threads at work, a hide between the two halves of a show leaves a
  hidden window without a record (`Races = {"overlap"}` refutes
  `HiddenIsRecorded`; `overtaken` in `SessionHistory` names the window).
- The plugin makes visible windows float and holds one token for each.  Once the
  token is consumed, the next query takes the answer for the user's wish, and the
  window is no longer managed.
- `manage-workspace` of the managed workspace, and `set-selected-client`, hide
  windows that the committed layout shows, and leave the layout as it is.

*Notifications*
- An enqueue that read the old generation and inserts late replaces the entry that
  the other enqueuing thread made for the new connection, and the change of that
  entry is lost.  `notify` has this loss, noted in `lost`.
- A dump of a closed connection may be sent on a descriptor that the next
  connection got, past the check of the generation.
- `stop` notifies without `state_notify_mutex_`.  Without a controller the wake-up
  can fall between the notifier's test and its sleep, and the join never returns;
  with one, `accept_loop`'s clean-up takes the mutex after `running_` is false,
  which is why `StopReturns` holds.
- `state_notify_debounce_ms_` is a plain `int` shared by threads.  The model reads
  the old or the new value.

*Threads and the compositor*
- `PLUGIN_EXIT` joins on the compositor's thread: a thread that waits for an answer
  of that thread (`JoinStall`), or the event thread in `recv` (`EventStall`), is
  never joined.
- The mutex of `send_message` is held while a slow reader blocks `send`; it is not
  modelled.

*Emacs*
- Two layouts under way with different selections: each answer selects the other
  window, which publishes again, for ever.  `AnswersSettle` excepts runs in which
  two selections cross again and again.
- A client of the layout that floats and is tiled again within the debounce time
  leaves the plugin's layout, is hidden, and Emacs hears nothing that changes its
  windows: a window goes on showing the buffer of a hidden client until something
  else is published.  Likewise, when an unmanage and a manage follow each other
  fast, or an old dump says that nothing is managed, Emacs empties its windows while
  it takes the workspace for unmanaged, publishes nothing, and the plugin keeps the
  layout it has.  The history variable `unpublished` names these clients, and
  `PluginFollowsWindows` excepts them.
- An answer selects the window of the selected client even after the user has gone
  to another one.
- A layout that was rejected, because a client in it had gone, is not sent again
  until something in the windows changes.  Enabling the synchronisation publishes
  nothing by itself.
- A dump that the notifier built before an answer may be sent after it; Emacs keeps
  the older state.
- Everything sent after the peer has closed is lost in silence, and
  `hyprmacs-manage-current-workspace` does not reconnect, for the session still
  has a process.
- The mirror is not kept per workspace: a dump of another workspace makes Emacs
  drop the buffers of the managed one.  (Read in the code; the model has one
  workspace.)

## What is proved

`WorkspaceManagerProofs`, for every set of windows, workspaces and options and, but
for `PolicyInForce`, any compositor faults:

| Theorem | States |
|---|---|
| `TypeCorrect` | `Spec => []TypeOK` |
| `ManagedFlagsRight` | `Spec => []ManagedIffEligible` |
| `LayoutInStep` | `Spec => []LayoutAgrees` |
| `ManagingFrameRight` | `Spec => []ManagingEmacsValid` |
| `NothingStale` | `Spec => []NoStaleManagedState` |
| `LeaseBalanced` | `Spec => []LeaseFollowsManagement` |
| `PolicyInForce` | `Spec => []PolicyFollowsManagement`, where the compositor answers and obeys |
| `EmacsDecidesVisibility` | `Spec => VisibilityComesFromEmacs` |
| `ManagingFrameStays` | `Spec => ManagingEmacsStable` |
| `TilingIsReported` | `Spec => EveryTilingReported` |

The assumptions are those of the constants: window addresses are natural numbers
(the code orders them), the hidden workspace is not one a window belongs to,
`None` is no client, workspace, record or name, and the options are not called
like the two layout queries.

All but `PolicyInForce` follow from one inductive invariant, `IInv`.  None of its parts is
inductive alone.  A layout agrees with the registry after a move only if the
managed flags were right; they are right after a disconnect only if nothing was
managed before a connection; the managing frame is copied into the layout, and
the lease follows the managed workspace.  So `IInv` is their conjunction, with
`Reconciled`, `Agrees` and `RightFrame` stated of any registry and layout, so that
lemmas about the helpers (`ReconcileFacts`, `SyncLayoutFacts`,
`RefreshManagingEmacsFacts`) apply before and after a step.  The events of
`handle_line` share one lemma, `SettleStep`, about what all of them end with;
every other action has a lemma of its own.  That the lowest frame exists
(`LowestIsMember`) comes from the well-foundedness of the naturals.

The three action properties need `IInv` before and after the step.  `StepFacts`
says that every step but a commit by Emacs only synchronises or drops the layout,
and refreshes the managing frame; neither shows a window or relieves a frame that
can stay.  `OnlyItsOwn` says that an event, whose methods change the record of one
window (`SameElse`), can only have made that one managed, because the flags are
right before and after; so the one notice of `handle_line` is enough.

`LeaseBalanced` holds for every set of unanswered queries and failing dispatches;
the run has a compositor that answers and obeys.  `PolicyInForce` assumes such a
one: the first finding is what happens without.  Its invariant is that the whole
policy is a function of the managed workspace (`PolicyFor`), saved values and lease
count included, since what a release restores is what the acquisition saved.

`StateNotifyProofs`, for every set of workspaces, every debounce range and option,
any enqueuers and any number of connections:

| Theorem | States |
|---|---|
| `NotifyTypeCorrect` | `NotifySpec => []NotifyTypeOK` |
| `SleepsOnlyWhenIdleHolds` | `NotifySpec => []SleepsOnlyWhenIdle` |
| `ImplementsReporting` | `NotifySpec => Reporting!Init /\ [][Reporting!Next]_(Reporting!vars)` |
| `NothingIsLost` | `NotifySpec => []NothingLost` |

- `NType` adds where the threads are, and that a thread that is about to enqueue
  knows a workspace.
- `SInv` adds that nothing is pending while the notifier is about to sleep: it
  holds the mutex from its test on, and an insertion needs the mutex.
- `CInv` relates the two views of a connection.  A change is owed, or lost, only while the
  descriptor is open and the manager knows of the controller; the manager knows
  of one only from `GoOnline` to `GoOffline`; a descriptor that was closed is not
  open again before the next `accept`.  From it every step is an open, a close, a
  change, a report or a loss of `StateReporting`, or invisible to it.
- `LInv` adds that the notifier has nothing in hand when it looks for what is due
  (`GInv`), and `NothingLost` itself.  Who carries a change is split into threads
  and entries; a step keeps what its own thread and the entries carry, hands it on,
  or settles it, and leaves the other threads alone (`OneSenderActs`).  An insertion
  takes away an entry of the present connection only as `Supplants` says
  (`NotesLostFacts`), and every other loss of an entry or a thread comes when nothing
  is owed: outside a connection, or once `running_` is false.

`CommandSocketLockingProofs`, for all subsets of the threads and of the
compositor's duties:

| Theorem | States |
|---|---|
| `LockingTypeCorrect` | `LockingSpec => []LockingTypeOK` |
| `NeverWaits` | `LockingSpec => []NeverWaitsForItsClient` |

The invariant is that while a request is served the compositor's thread is at most
recalculating, and once it is past its try of the mutex the requester does not
hold it: it could only lock after its answer.

`ManagedSessionProofs`, for every set of windows (finite: `FiniteAssumption`),
workspaces and options, any schedule of the threads and any failures:

| Theorem | States |
|---|---|
| `SessionImplementsManager` | `SessionSpec => Spec` |
| `SessionTypeCorrect` | `SessionSpec => []SessionTypeOK` |
| `NativeSurfacesLeftAlone` | `SessionSpec => []NativeSurfacesUntouched` |

`WorkspaceManager` lets its environment call anything in any order with any answer;
the first theorem says that the event thread and the controller thread are such an
environment, so that every theorem of `WorkspaceManagerProofs` holds of a session.
The invariant is `TInv`: the manager's own, and that what the threads have left to
call has arguments of the right types, and that only a window that may be a plain one
is named by a hide, by the map or is on the hidden workspace.  The calls that a thread
carries on its list, from what it read earlier, are why this takes an invariant.

`HiddenWindowsProofs`, again for every set of windows, workspaces and options, any
schedule of the threads, including overlaps and a failing `try_lock`, and any failures:

| Theorem | States |
|---|---|
| `HiddenWindowsRecorded` | `HistorySpec => []RecordedUnlessOvertaken` |
| `DisconnectRestores` | `HistorySpec => RestoredUnlessLate` |
| `LayoutEnforced` | `HistorySpec => EnforcedUnlessDisturbed` |

The exceptions are no convenience: the code breaks each property without them
(finding 3, and *Bounds* above).  What they leave is the promise: a
record is lost in two situations and no third, a disconnect restores everything that
was hidden in time, and user moves, queued events and failing dispatches of other
windows never keep the event thread from hiding what the layout hides.  `HInv` says
that a hidden window is recorded, about to be, or overtaken, and that a hidden window
whose record is about to be dropped has been overtaken; the second half is what makes
it inductive, since a show of one thread has two halves and the other thread's hide
may fall between them.  `RInv` follows the controller thread from the hang-up to the
call that tells the manager (`Closing`): once it has listed what it restores, each
window recorded for the managed workspace is on its list or late.  `EInv` follows the
event thread through its phases, from the answer to a notice to the forced hides; in
the last one every window that the layout hides is hidden, gone, the subject of an
unread event, still on the thread's list, or disturbed.  `HistoryIsSession` says that
the history adds no behaviour, so that the theorems of `ManagedSessionProofs` apply.

`EmacsSessionProofs`, for every set of clients and windows and any number of
commands, changes and connections:

| Theorem | States |
|---|---|
| `EmacsTypeCorrect` | `EmacsSpec => []EmacsTypeOK` |
| `LayoutFollowsWindows` | `EmacsSpec => []PluginFollowsWindows` |

The property speaks of a state at rest, the invariant, `SessionInv`, of all others.
Which layout will be in force once the plugin has read what was sent depends on the
last set-layout among the requests, or on the end of the connection if that comes
after it: the last word.  When Emacs has no reason to publish again (`Settled`), the
last word agrees with the windows but for the `unpublished` clients, and if all is
said the committed layout does.  A request to manage is followed by a layout, in the
queue or due by the initial timer (`Follows`); without it a layout of an earlier
time could be revived.  A connection that Emacs can no longer reach has ended in the
queue already (`CutOff`).  The assumption that `None` is no set of clients only
keeps "no layout" apart from a layout.

The proof was also a test of the model.  An earlier form of the property without
`unpublished` passed TLC with one change and three commands and is false: the first
case above (*Emacs*) takes two changes, the second more commands.

Model-checked only is what is out of the proof system's reach: liveness under
fairness (the rest of `ReportsEveryChange`, `StopReturns`, `ReturnsUnlessStalled`,
`AnswersSettle`).  `ENABLED` and induction over data are out of its reach too.

## Not modelled

- `debug-hide-client` and `debug-show-client`, which call the applier directly; the
  z-order dispatches, which keep no state.
- Geometry (`recalculate`'s boxes, work areas, rectangles and their validation) and
  JSON text.
- What a failing or blocking `::send` does (`StateNotify`): a dump that is sent counts
  as delivered.  The peer of a failing one has hung up, and its connection ends.
- `accept` and the assignment of the descriptor are one step, and so are the reads of
  `running_`, the debounce time and the descriptor in `enqueue_debounced_state_dump`.
- In `CommandSocketLocking`: more than one focus thread at a time, and the restore and
  disconnect requests that `stop` makes when all threads are joined, of which only the
  mutex is left.
- In `EmacsSession`: the error that `process-send-string` may signal after the plugin
  has closed, which ends `hyprmacs-manage-current-workspace` half way; the second of
  two initial timers; layouts that fail the validation of their rectangles and are not
  sent; the seeds of `hyprmacs-manage-current-workspace` and the dumps that answer
  them.
- That two threads in an `unordered_map` at once may corrupt it: the model lets
  them take effect one after the other, which already shows the lost record.
- A seed that is older than the window it describes: `ManagedSession` seeds from
  the compositor's state; `WorkspaceManager` alone accepts any seed.
- Windows left on the hidden workspace by an earlier load of the plugin.
- In Emacs: names and titles of buffers, the input mode, more than one workspace or
  frame, and the test commands at the end of `hyprmacs.el`.
- A thread that fails to start, and a socket that cannot be opened.

## Plan

Done, in this order:

1. `ClientRegistry`, `PolicyLease`, `WorkspaceManager`, with proofs.
2. `Compositor`, `LayoutApplier`, `ManagedSession`, `SessionClaims`.
3. `StateReporting`, `StateNotify`.
4. `CommandSocketLocking`.
5. `EmacsSession`.

6. Proofs of the safety properties of `ManagedSession` and `EmacsSession`.

Left:

7. `LayoutValidation`: `validate_non_overlapping` and the list checks of
   `set-layout` as operators, against reference definitions, with 32-bit
   coordinates.
8. `LayoutAuthority`: the abstract promise of the plugin (Emacs decides what is
   visible, the plugin only takes away) that `WorkspaceManager` implements, with
   the refinement proved.
