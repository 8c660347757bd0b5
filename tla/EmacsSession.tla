---------------------------- MODULE EmacsSession ----------------------------
(***************************************************************************)
(* The session as Emacs keeps it: the connection, the mirror of the        *)
(* plugin's state, one buffer for every managed client, and the layouts    *)
(* that Emacs publishes when its windows change.  Emacs runs one thing at a*)
(* time: a command, a timer, a frame from the socket, or redisplay, which  *)
(* calls the hooks.  At the other end of the socket is the plugin, reduced *)
(* to what its answers depend on (WorkspaceManager has the rest).  There is*)
(* one workspace, and the input mode is left out.                          *)
(***************************************************************************)
EXTENDS Integers, Sequences, FiniteSets, SequencesExt

CONSTANTS
  None,
  Clients,
  Windows,       \* of the Emacs frame
  MaxCommands,   \* bounds the user's commands
  MaxChanges     \* bounds what happens to the clients and the plugin

ASSUME EmacsAssumption ==
  /\ None \notin Clients /\ (\A S \in SUBSET Clients : S # None) /\ Windows # {}
  /\ MaxCommands \in Nat /\ MaxChanges \in Nat

VARIABLES
  process,         \* hyprmacs-session--process: "none", "live" or "dead";
                   \* :connection-status is connected unless it is "none"
  managed,         \* :managed
  managedClients,  \* :managed-clients
  selected,        \* :selected-client
  buffers,         \* hyprmacs-buffer-table: the clients that have a live buffer
  window,          \* the client whose buffer a window shows, or None
  point,           \* the selected window
  changed,         \* the windows changed since the last redisplay
  syncEnabled,     \* hyprmacs-layout-sync-enabled
  syncTimer,       \* hyprmacs--layout-sync-timer is armed
  initialTimer,    \* the timer of hyprmacs-manage-current-workspace
  unpublished,     \* history: the clients whose place in the windows or in the layout
                   \* has changed with no set-layout after it
  commands         \* history: how many commands there were

VARIABLES
  toPlugin,  \* what the plugin has to read, a connection after the other:
             \* "eof" is where one ends
  toEmacs    \* what Emacs has to read from this connection

VARIABLES
  pluginUp,
  owner,     \* the workspace is managed: managed_workspace_id_
  tiled,     \* the eligible clients, which are managed if the workspace is
  focus,     \* the registry's selected client
  layout,    \* the visible clients of the committed layout, None without one
  refused,   \* history: the last set-layout was rejected
  notify,    \* a notification is pending
  built,     \* the dump that the notifier is about to send, or None
  changes    \* history: how many changes there were

connectionVars == <<process, toEmacs>>
mirrorVars == <<managed, managedClients, selected, buffers>>
displayVars == <<window, point, changed>>
syncVars == <<syncEnabled, syncTimer, initialTimer>>
countVars == <<commands, changes>>
historyVars == <<unpublished, countVars>>
pluginVars == <<pluginUp, owner, tiled, focus, layout, refused, notify, built>>
emacsVars == <<process, mirrorVars, displayVars, syncVars, toPlugin, toEmacs,
               pluginVars, historyVars>>

EmacsInit ==
  /\ process = "none" /\ managed = FALSE /\ managedClients = {} /\ selected = None
  /\ buffers = {} /\ window = [w \in Windows |-> None] /\ point \in Windows
  /\ changed = FALSE
  /\ syncEnabled = FALSE /\ syncTimer = FALSE /\ initialTimer = FALSE
  /\ unpublished = {} /\ commands = 0 /\ changes = 0
  /\ toPlugin = <<>> /\ toEmacs = <<>>
  /\ pluginUp = TRUE /\ owner = FALSE /\ tiled \in SUBSET Clients /\ focus = None
  /\ layout = None /\ refused = FALSE /\ notify = FALSE /\ built = None

Request(type) == [type |-> type]
Frame(type) == [type |-> type]

-----------------------------------------------------------------------------
(* The socket, as Emacs sees it.                                           *)

\* What is sent when the plugin has closed its end is lost, in silence (an error
\* that process-send-string may signal is not modelled).
Reaches == process = "live" /\ pluginUp /\ Frame("eof") \notin Range(toEmacs)

Send(messages) == toPlugin' = IF Reaches THEN toPlugin \o messages ELSE toPlugin

-----------------------------------------------------------------------------
(* Windows and buffers.                                                    *)

Showing(c, win) == {w \in Windows : win[w] = c}
Shown == {window[w] : w \in Windows} \ {None}

\* A window whose buffer is killed shows another one.
WithoutBuffers(rest) ==
  {win \in [Windows -> rest \cup {None}] :
     \A w \in Windows : window[w] \in rest \cup {None} => win[w] = window[w]}

\* Redisplay notices a change of what a window shows, and of the selected window.
Display(win, w) ==
  /\ window' = win /\ point' = w
  /\ changed' = (changed \/ win # window \/ w # point)

\* A plausible mistake in ActivateSelected: the next window is taken although the
\* selected one shows the client.  AnswersSettle notices.
ActivateAnother(c, win, live) ==
  LET others == Showing(c, win) \ {point}
  IN  IF c \in live /\ others # {} THEN others ELSE {point}

\* hyprmacs-session--activate-selected-client-buffer: get-buffer-window prefers
\* the selected window.
ActivateSelected(c, win, live) ==
  IF c \notin live \/ Showing(c, win) = {} \/ win[point] = c
    THEN {point} ELSE Showing(c, win)

\* hyprmacs-session--handle-transport-drop.
TransportDrop ==
  /\ managed' = FALSE /\ managedClients' = {} /\ selected' = None
  /\ buffers' = {} /\ Display([w \in Windows |-> None], point)

-----------------------------------------------------------------------------
(* Frames from the plugin: hyprmacs-session-handle-frame.                  *)

Receives(type) == toEmacs # <<>> /\ Head(toEmacs).type = type

WorkspaceManaged ==
  /\ Receives("workspace-managed") /\ toEmacs' = Tail(toEmacs)
  /\ managed' = TRUE
  /\ UNCHANGED <<process, managedClients, selected, buffers, displayVars,
                 syncVars, toPlugin, pluginVars, historyVars>>

WorkspaceUnmanaged ==
  /\ Receives("workspace-unmanaged") /\ toEmacs' = Tail(toEmacs)
  /\ managed' = FALSE /\ managedClients' = {} /\ buffers' = {}
  /\ Display([w \in Windows |-> None], point)
  /\ UNCHANGED <<process, selected, syncVars, toPlugin, pluginVars, historyVars>>

LayoutApplied ==
  /\ Receives("layout-applied") /\ toEmacs' = Tail(toEmacs)
  /\ selected' = Head(toEmacs).selected
  /\ \E w \in ActivateSelected(selected', window, buffers) : Display(window, w)
  /\ UNCHANGED <<process, managed, managedClients, buffers, syncVars, toPlugin,
                 pluginVars, historyVars>>

\* A plausible mistake in SyncManaged: buffers of other clients are kept.
\* EmacsTypeOK notices.
SyncKeeping(clients) == buffers \cup clients

\* hyprmacs-buffer-sync-managed: one buffer for every managed client, no other.
SyncManaged(clients) == clients

StateDump ==
  /\ Receives("state-dump") /\ toEmacs' = Tail(toEmacs)
  /\ LET dump == Head(toEmacs) IN
       /\ managed' = dump.managed /\ managedClients' = dump.clients
       /\ selected' = dump.selected
       /\ buffers' = SyncManaged(dump.clients)
       /\ \E win \in WithoutBuffers(buffers') :
          \E w \in ActivateSelected(dump.selected, win, buffers') : Display(win, w)
  /\ UNCHANGED <<process, syncVars, toPlugin, pluginVars, historyVars>>

\* The plugin closed the connection.  The event is "connection broken by remote
\* peer", which the sentinel does not take for a drop.
PeerClosed ==
  /\ Receives("eof") /\ toEmacs' = <<>> /\ process' = "dead"
  /\ UNCHANGED <<mirrorVars, displayVars, syncVars, toPlugin, pluginVars,
                 historyVars>>

-----------------------------------------------------------------------------
(* Layouts.                                                                *)

\* A plausible mistake in VisibleClients: every buffer counts, not only what the
\* windows show.  PluginFollowsWindows notices.
EveryBuffer == buffers

\* hyprmacs-layout-visible-rectangles, without duplicates.
VisibleClients == Shown

\* hyprmacs-layout-build-payload.
SetLayout ==
  [type |-> "set-layout",
   visible |-> VisibleClients, hidden |-> managedClients \ VisibleClients,
   selected |-> IF selected \in managedClients THEN selected ELSE None]

\* hyprmacs-sync-layout.  Rectangles are left out, and with them the layouts that
\* fail their validation and are not sent.
Publish == Send(<<SetLayout>>) /\ unpublished' = {}

Eligible == syncEnabled /\ process # "none" /\ managed

\* The hooks of hyprmacs-enable-layout-sync; a timer that is armed is replaced.
Redisplay ==
  /\ changed /\ changed' = FALSE
  /\ syncTimer' = (syncTimer \/ Eligible)
  /\ unpublished' = IF Eligible THEN unpublished ELSE Clients
  /\ UNCHANGED <<connectionVars, mirrorVars, window, point, syncEnabled,
                 initialTimer, toPlugin, pluginVars, countVars>>

\* hyprmacs--run-auto-sync-layout.
RunAutoSyncLayout ==
  /\ syncTimer /\ syncTimer' = FALSE
  /\ IF Eligible THEN Publish ELSE unpublished' = Clients /\ UNCHANGED toPlugin
  /\ UNCHANGED <<connectionVars, mirrorVars, displayVars, syncEnabled,
                 initialTimer, pluginVars, countVars>>

\* hyprmacs-sync-layout, whatever the state of the session.  One flag stands for
\* the timers of several manage commands, each of which would publish once.
InitialSync ==
  /\ initialTimer /\ initialTimer' = FALSE
  /\ Publish
  /\ UNCHANGED <<connectionVars, mirrorVars, displayVars, syncEnabled, syncTimer,
                 pluginVars, countVars>>

-----------------------------------------------------------------------------
(* Commands of the user.                                                   *)

Command ==
  /\ commands < MaxCommands /\ commands' = commands + 1
  /\ UNCHANGED <<unpublished, changes>>

\* hyprmacs-session-disconnect.  delete-process runs the sentinel, which hears
\* "deleted", but only a process that lives is deleted.
CloseOwn ==
  /\ toEmacs' = <<>>
  /\ Send(<<Request("eof")>>)
  /\ IF process = "live" THEN TransportDrop ELSE UNCHANGED <<mirrorVars, displayVars>>

\* hyprmacs-connect: it closes a connection that exists first.
Connect ==
  /\ Command
  /\ CloseOwn
  /\ process' = IF pluginUp THEN "live" ELSE "none"
  /\ UNCHANGED <<syncVars, pluginVars>>

Disconnect ==
  /\ Command
  /\ CloseOwn
  /\ process' = "none"
  /\ UNCHANGED <<syncVars, pluginVars>>

\* hyprmacs-manage-current-workspace.  It connects if that was not done.  The
\* request stands for the seeds too: the plugin knows the clients already.
ManageCurrentWorkspace ==
  /\ Command
  /\ process # "none" \/ pluginUp
  /\ process' = IF process = "none" THEN "live" ELSE process
  /\ toPlugin' =
       IF Reaches \/ process = "none"
       THEN toPlugin \o <<Request("manage-workspace"), Request("request-state")>>
       ELSE toPlugin
  /\ syncEnabled' = TRUE /\ initialTimer' = TRUE
  /\ UNCHANGED <<mirrorVars, displayVars, syncTimer, toEmacs, pluginVars>>

\* hyprmacs-unmanage-workspace and hyprmacs-request-state.
SendRequest(type) ==
  /\ Command /\ Reaches
  /\ Send(<<Request(type)>>)
  /\ UNCHANGED <<connectionVars, mirrorVars, displayVars, syncVars, pluginVars>>

\* hyprmacs-select-managed-client.
SelectManagedClient(c) ==
  /\ Command /\ Reaches /\ c \in managedClients
  /\ Send(<<[type |-> "set-selected-client", selected |-> c]>>)
  /\ UNCHANGED <<connectionVars, mirrorVars, displayVars, syncVars, pluginVars>>

ShowBuffer(c, w) ==
  /\ Command /\ c \in (buffers \cup {None}) \ {window[w]}
  /\ Display([window EXCEPT ![w] = c], point)
  /\ UNCHANGED <<connectionVars, mirrorVars, syncVars, toPlugin, pluginVars>>

SelectWindow(w) ==
  /\ Command /\ w # point
  /\ Display(window, w)
  /\ UNCHANGED <<connectionVars, mirrorVars, syncVars, toPlugin, pluginVars>>

\* kill-buffer, when hyprctl fails: otherwise the buffer stays until the client
\* is gone, if it goes.
KillBuffer(c) ==
  /\ Command /\ c \in buffers
  /\ buffers' = buffers \ {c}
  /\ \E win \in WithoutBuffers(buffers') : Display(win, point)
  /\ UNCHANGED <<connectionVars, managed, managedClients, selected, syncVars,
                 toPlugin, pluginVars>>

DisableLayoutSync ==
  /\ Command /\ syncEnabled
  /\ syncEnabled' = FALSE /\ syncTimer' = FALSE
  /\ UNCHANGED <<connectionVars, mirrorVars, displayVars, initialTimer, toPlugin,
                 pluginVars>>

-----------------------------------------------------------------------------
(* The plugin: IpcServer::serve_controller and route_command.              *)

Dump(own, clients, foc) ==
  [type |-> "state-dump", managed |-> own,
   clients |-> IF own THEN clients ELSE {},
   selected |-> IF own /\ foc \in clients THEN foc ELSE None]

\* The clients that the committed layout shows.
Arranged == IF layout = None THEN {} ELSE layout

Applied(c) == [type |-> "layout-applied", selected |-> c]

\* Nobody reads the answers to a connection that is over.
Answer(rest, frames) ==
  toEmacs' = IF process = "live" /\ Request("eof") \notin Range(rest)
             THEN toEmacs \o frames ELSE toEmacs

Serves(type) ==
  /\ toPlugin # <<>> /\ Head(toPlugin).type = type
  /\ toPlugin' = Tail(toPlugin)

ServeManage ==
  /\ Serves("manage-workspace")
  /\ owner' = TRUE
  /\ Answer(toPlugin', <<Frame("workspace-managed"), Dump(TRUE, tiled, focus)>>)
  /\ UNCHANGED <<pluginUp, tiled, focus, layout, refused, notify, built>>

ServeUnmanage ==
  /\ Serves("unmanage-workspace")
  /\ owner' = FALSE /\ layout' = None
  /\ Answer(toPlugin', <<Frame("workspace-unmanaged"), Dump(FALSE, tiled, focus)>>)
  /\ UNCHANGED <<pluginUp, tiled, focus, refused, notify, built>>

ServeState ==
  /\ Serves("request-state")
  /\ Answer(toPlugin', <<Dump(owner, tiled, focus)>>)
  /\ UNCHANGED pluginVars

\* layout-applied names the client that was asked for, managed or not.
ServeSelected ==
  /\ Serves("set-selected-client")
  /\ LET c == Head(toPlugin).selected IN
       /\ focus' = IF owner /\ c \in tiled THEN c ELSE focus
       /\ Answer(toPlugin', <<Applied(c), Dump(owner, tiled, focus')>>)
  /\ UNCHANGED <<pluginUp, owner, tiled, layout, refused, notify, built>>

\* All of a layout or nothing: every client in it must be managed.
ServeLayout ==
  /\ Serves("set-layout")
  /\ LET m == Head(toPlugin)
         ok == owner /\ m.visible \cup m.hidden \subseteq tiled
     IN  /\ layout' = IF ok THEN m.visible ELSE layout
         /\ focus' = IF ok /\ m.selected \in tiled THEN m.selected ELSE focus
         /\ refused' = ~ok
         /\ LET dump == Dump(owner, tiled, focus')
            IN  Answer(toPlugin', <<Applied(dump.selected), dump>>)
  /\ UNCHANGED <<pluginUp, owner, tiled, notify, built>>

\* The controller is gone: clear_controller and disconnect_controller.
ServeEof ==
  /\ Serves("eof")
  /\ owner' = FALSE /\ layout' = None /\ notify' = FALSE /\ built' = None
  /\ UNCHANGED <<toEmacs, pluginUp, tiled, focus, refused>>

Serve ==
  /\ \/ ServeManage \/ ServeUnmanage \/ ServeSelected \/ ServeLayout \/ ServeEof
     \/ ServeState
  /\ UNCHANGED <<process, mirrorVars, displayVars, syncVars, historyVars>>

\* The notifier: StateNotify has its details.  It builds a dump and sends it
\* later, when the connection's thread may have answered in between.
BuildNotice ==
  /\ notify /\ built = None
  /\ notify' = FALSE /\ built' = Dump(owner, tiled, focus)
  /\ UNCHANGED <<process, mirrorVars, displayVars, syncVars, toPlugin, toEmacs,
                 pluginUp, owner, tiled, focus, layout, refused, historyVars>>

SendNotice ==
  /\ built # None /\ built' = None
  /\ Answer(toPlugin, <<built>>)
  /\ UNCHANGED <<process, mirrorVars, displayVars, syncVars, toPlugin, pluginUp,
                 owner, tiled, focus, layout, refused, notify, historyVars>>

-----------------------------------------------------------------------------
(* What happens to the clients and to the plugin.                          *)

Happens ==
  /\ changes < MaxChanges /\ changes' = changes + 1 /\ UNCHANGED commands

\* A client opens or is tiled again.
Enter(c) ==
  /\ Happens /\ pluginUp /\ c \notin tiled
  /\ tiled' = tiled \cup {c} /\ notify' = (notify \/ owner)
  /\ UNCHANGED <<process, mirrorVars, displayVars, syncVars, toPlugin, toEmacs,
                 pluginUp, owner, focus, layout, refused, built, unpublished>>

\* It closes, or it floats and remains the selected one.
Leave(c) ==
  /\ Happens /\ pluginUp /\ c \in tiled
  /\ tiled' = tiled \ {c} /\ notify' = (notify \/ owner)
  /\ layout' = IF layout = None THEN None ELSE layout \ {c}
  /\ unpublished' = IF c \in Arranged THEN unpublished \cup {c} ELSE unpublished
  /\ focus' \in {focus, IF focus = c THEN None ELSE focus}
  /\ UNCHANGED <<process, mirrorVars, displayVars, syncVars, toPlugin, toEmacs,
                 pluginUp, owner, refused, built>>

Focus(c) ==
  /\ Happens /\ pluginUp /\ c \in tiled \ {focus}
  /\ focus' = c /\ notify' = (notify \/ owner)
  /\ UNCHANGED <<process, mirrorVars, displayVars, syncVars, toPlugin, toEmacs,
                 pluginUp, owner, tiled, layout, refused, built, unpublished>>

\* The plugin is unloaded, and loaded again.
PluginExit ==
  /\ Happens /\ pluginUp /\ pluginUp' = FALSE
  /\ owner' = FALSE /\ layout' = None /\ notify' = FALSE /\ built' = None
  /\ toPlugin' = <<>>
  /\ toEmacs' = IF Reaches THEN Append(toEmacs, Frame("eof")) ELSE toEmacs
  /\ UNCHANGED <<process, mirrorVars, displayVars, syncVars, tiled, focus,
                 refused, unpublished>>

PluginInit ==
  /\ ~pluginUp /\ pluginUp' = TRUE
  /\ UNCHANGED <<process, mirrorVars, displayVars, syncVars, toPlugin, toEmacs,
                 owner, tiled, focus, layout, refused, notify, built, historyVars>>

HandleFrame ==
  WorkspaceManaged \/ WorkspaceUnmanaged \/ LayoutApplied \/ StateDump \/ PeerClosed

UserStep ==
  \/ Connect \/ Disconnect \/ ManageCurrentWorkspace \/ DisableLayoutSync
  \/ SendRequest("unmanage-workspace") \/ SendRequest("request-state")
  \/ \E c \in Clients : SelectManagedClient(c) \/ KillBuffer(c)
  \/ \E w \in Windows : SelectWindow(w) \/ \E c \in Clients \cup {None} : ShowBuffer(c, w)

\* Emacs, the connection's thread or the notifier does what it has to do, in any
\* order.  Nobody has to give a command, no client and no plugin to come or go.
Works ==
  HandleFrame \/ Redisplay \/ RunAutoSyncLayout \/ InitialSync \/ Serve
    \/ BuildNotice \/ SendNotice

EmacsNext ==
  \/ UserStep \/ Works
  \/ \E c \in Clients : Enter(c) \/ Leave(c) \/ Focus(c)
  \/ PluginExit \/ PluginInit

EmacsSpec == EmacsInit /\ [][EmacsNext]_emacsVars /\ WF_emacsVars(Works)

-----------------------------------------------------------------------------
(* Properties.                                                             *)

\* Every variable has its type; a buffer is of a client that the mirror holds,
\* and so is what the windows show.
EmacsTypeOK ==
  /\ process \in {"none", "live", "dead"}
  /\ {managed, changed, syncEnabled, syncTimer, initialTimer, pluginUp, owner, refused,
      notify} \subseteq BOOLEAN
  /\ managedClients \subseteq Clients /\ tiled \subseteq Clients
  /\ {selected, focus} \subseteq Clients \cup {None}
  /\ buffers \subseteq managedClients /\ Shown \subseteq buffers
  /\ point \in Windows
  /\ layout = None \/ layout \subseteq tiled
  /\ unpublished \subseteq Clients

\* Nothing is under way, in Emacs, on the wire or in the plugin.
Quiet ==
  /\ toPlugin = <<>> /\ toEmacs = <<>>
  /\ ~changed /\ ~syncTimer /\ ~initialTimer /\ ~notify /\ built = None

\* The selections that Emacs, the plugin, and the frames between them speak of.
Selections ==
  {m.selected : m \in {f \in Range(toPlugin) \cup Range(toEmacs) \cup {built} :
                        f # None /\ "selected" \in DOMAIN f}}
    \cup {focus, selected}

\* Two of them are different.
Crossing == \E c, d \in Selections \ {None} : c # d

\* When the user and the clients leave them alone, Emacs and the plugin come to
\* rest: an answer may select a window, which publishes a layout, which is
\* answered in turn, but that ends, unless two selections chase each other.
AnswersSettle == <>[]Quiet \/ []<>Crossing

\* Layouts are published, and the plugin takes them.
Operative == Reaches /\ owner /\ managed /\ syncEnabled

\* The plugin ends up with the arrangement of the windows, unless it rejected the
\* last one: across the hooks, the two timers, frames and layouts that cross, and
\* connections that end.  Excepted are the clients that Emacs had no occasion to
\* publish again.
PluginFollowsWindows ==
  Quiet /\ Operative /\ ~refused
    => Shown \ unpublished = Arranged \ unpublished

\* "On process sentinel drop, Emacs clears managed snapshots and associated
\* buffers" (ADR 0005): after the plugin has closed the connection, none is left.
DropClearsSession == process = "dead" => managedClients = {} /\ buffers = {}
=============================================================================
