------------------------ MODULE CommandSocketLocking ------------------------
(***************************************************************************)
(* Who waits for whom.  The plugin's threads take the manager's mutex and  *)
(* send requests to the compositor's command socket, some of them with the *)
(* mutex held.  The compositor's thread answers the requests one after     *)
(* another; it takes the same mutex when it lays out a workspace or runs   *)
(* the plugin's dispatcher, and joins the threads when the plugin exits.   *)
(*                                                                         *)
(* Between two calls a thread holds nothing, so that a handler is any      *)
(* sequence of the calls that its thread makes; what the calls compute is  *)
(* in ManagedSession.  A call is the list of what is left of it: to "lock" *)
(* and "unlock" the mutex, to wait for the answer to a "request", or for   *)
(* the compositor to "recalculate".  One request stands for several.       *)
(***************************************************************************)
EXTENDS Sequences

CONSTANTS
  None,
  Threads,  \* of {"event", "controller", "notifier", "helper"}
  Duties    \* of {"recalculate", "dispatch", "exit"}: what occupies the
            \* compositor's thread besides the requests

ASSUME LockingAssumption ==
  /\ Threads \subseteq {"event", "controller", "notifier", "helper"}
  /\ Duties \subseteq {"recalculate", "dispatch", "exit"}
  /\ None \notin Threads

VARIABLES
  holder,    \* the thread that holds WorkspaceManager::mutex_
  todo,      \* per thread, the rest of its call
  asked,     \* the threads that wait for an answer on the command socket
  served,    \* whose request the compositor's thread is at
  mainTodo,  \* what that thread has to do first: "try" the mutex, "take" it,
             \* start the "helper", or join a thread
  leaving,   \* the threads that were told to end (running_ is false)
  ended      \* those that did, and the helper while it is not started

lockingVars == <<holder, todo, asked, served, mainTodo, leaving, ended>>

-----------------------------------------------------------------------------
(* The calls.                                                              *)

\* build_state_dump, set_input_mode and the others that only compute.
Compute == <<"lock", "unlock">>

\* handle_line, manage_workspace, unmanage_workspace, set_controller_connected
\* and refresh_workspace_floating_state_from_query ask with the mutex held.
AskLocked == <<"lock", "request", "unlock">>

\* The layout applier, the focus controller, and plugin_option_int.
AskUnlocked == <<"request">>

\* request_workspace_recalc_marshaled.
AskRecalc == <<"recalculate">>

CallsOf(t) ==
  CASE t = "event" -> {Compute, AskLocked, AskUnlocked}
    [] t = "controller" -> {Compute, AskLocked, AskUnlocked, AskRecalc}
    [] t = "notifier" -> {Compute}
    [] t = "helper" -> {AskUnlocked, AskRecalc}

LockingInit ==
  /\ holder = None /\ asked = {} /\ served = None /\ mainTodo = <<>>
  /\ todo = [t \in Threads |-> <<>>]
  /\ leaving = {} /\ ended = Threads \cap {"helper"}

Does(t, op) == todo[t] # <<>> /\ Head(todo[t]) = op
Goes(t) == todo' = [todo EXCEPT ![t] = Tail(@)]

Start(t) ==
  /\ todo[t] = <<>> /\ t \notin ended
  /\ \E call \in CallsOf(t) : todo' = [todo EXCEPT ![t] = call]
  /\ UNCHANGED <<holder, asked, served, mainTodo, leaving, ended>>

Lock(t) ==
  /\ Does(t, "lock") /\ holder = None
  /\ holder' = t /\ Goes(t)
  /\ UNCHANGED <<asked, served, mainTodo, leaving, ended>>

Unlock(t) ==
  /\ Does(t, "unlock")
  /\ holder' = None /\ Goes(t)
  /\ UNCHANGED <<asked, served, mainTodo, leaving, ended>>

\* send_hypr_command_via_socket: connect, send, and then recv.
Ask(t) ==
  /\ Does(t, "request") \/ Does(t, "recalculate")
  /\ t \notin asked /\ asked' = asked \cup {t}
  /\ UNCHANGED <<holder, todo, served, mainTodo, leaving, ended>>

\* The socket cannot be had: nullopt at once.
AskFails(t) ==
  /\ Does(t, "request") \/ Does(t, "recalculate")
  /\ t \notin asked /\ Goes(t)
  /\ UNCHANGED <<holder, asked, served, mainTodo, leaving, ended>>

\* The helper ends by itself; the accept thread and the notifier see running_.
End(t) ==
  /\ todo[t] = <<>> /\ t \in leaving \ ended
  /\ ended' = ended \cup {t}
  /\ UNCHANGED <<holder, todo, asked, served, mainTodo, leaving>>

\* event_loop looks at running_ only when recv returns, so with a line that is
\* already there.
EventEnds == "event" \in Threads /\ End("event")

-----------------------------------------------------------------------------
(* The compositor's thread.                                                *)

MainIdle == served = None /\ mainTodo = <<>>
Exiting == "controller" \in leaving

\* A plausible mistake in Recalculation: managed_workspace() waits for the mutex.
\* NeverWaitsForItsClient notices.
WaitingRecalculation == <<"take", "take">>

\* CHyprmacsAlgorithm::recalculate: managed_workspace(), which only tries, and
\* managed_layout_snapshot().
Recalculation == <<"try", "take">>

\* dispatch_set_emacs_control_mode, with a workspace or without, the thread that
\* focuses Emacs, and the dump if there is no debounce time.
SetEmacsControlMode ==
  {workspace \o <<"take", "take", "helper">> \o dump :
     workspace \in {<<>>, <<"try">>}, dump \in {<<>>, <<"take">>}}

\* PLUGIN_EXIT: IpcServer::stop and WorkspaceManager::stop_event_tap.
Exit == <<"controller", "notifier", "take", "end-tap", "event">>

\* Moving a window or changing a layout recalculates, and so does request-recalc
\* unless the workspace is gone.
Serve(t) ==
  /\ MainIdle /\ t \in asked
  /\ served' = t
  /\ mainTodo' \in {<<>>, Recalculation}
  /\ UNCHANGED <<holder, todo, asked, leaving, ended>>

\* Plausible mistakes in Reply: it comes before the recalculation is done
\* (LockingTypeOK notices); a caller that holds the mutex is put off
\* (ReturnsUnlessStalled).
ReplyEarly ==
  /\ served # None
  /\ asked' = asked \ {served} /\ Goes(served)
  /\ served' = IF mainTodo = <<>> THEN None ELSE served
  /\ UNCHANGED <<holder, mainTodo, leaving, ended>>

ReplyUnlocked ==
  /\ served # None /\ mainTodo = <<>> /\ holder # served
  /\ asked' = asked \ {served} /\ Goes(served) /\ served' = None
  /\ UNCHANGED <<holder, mainTodo, leaving, ended>>

Reply ==
  /\ served # None /\ mainTodo = <<>>
  /\ asked' = asked \ {served} /\ Goes(served) /\ served' = None
  /\ UNCHANGED <<holder, mainTodo, leaving, ended>>

\* The user opens, closes or moves a window, or runs the dispatcher.
Recalculate ==
  /\ "recalculate" \in Duties /\ MainIdle /\ ~Exiting
  /\ mainTodo' = Recalculation
  /\ UNCHANGED <<holder, todo, asked, served, leaving, ended>>

Dispatch ==
  /\ "dispatch" \in Duties /\ MainIdle /\ ~Exiting
  /\ mainTodo' \in SetEmacsControlMode
  /\ UNCHANGED <<holder, todo, asked, served, leaving, ended>>

PluginExit ==
  /\ "exit" \in Duties /\ MainIdle /\ ~Exiting
  /\ mainTodo' = Exit
  /\ leaving' = leaving \cup {"controller", "notifier"}
  /\ UNCHANGED <<holder, todo, asked, served, ended>>

MainDoes(op) == mainTodo # <<>> /\ Head(mainTodo) = op

\* Nothing is managed, or try_lock finds the mutex taken.
TryMutex ==
  /\ MainDoes("try")
  /\ \/ mainTodo' = <<>>
     \/ holder = None /\ mainTodo' = Tail(mainTodo)
  /\ UNCHANGED <<holder, todo, asked, served, leaving, ended>>

\* Taken and released.  Without a layout, or for a workspace that is not managed,
\* that was all, unless the plugin exits.
TakeMutex ==
  /\ MainDoes("take") /\ holder = None
  /\ \/ mainTodo' = Tail(mainTodo)
     \/ ~Exiting /\ mainTodo' = <<>>
  /\ UNCHANGED <<holder, todo, asked, served, leaving, ended>>

EndTap ==
  /\ MainDoes("end-tap")
  /\ mainTodo' = Tail(mainTodo) /\ leaving' = leaving \cup {"event"}
  /\ UNCHANGED <<holder, todo, asked, served, ended>>

StartHelper ==
  /\ MainDoes("helper")
  /\ mainTodo' = Tail(mainTodo)
  /\ leaving' = leaving \cup {"helper"} /\ ended' = ended \ {"helper"}
  /\ UNCHANGED <<holder, todo, asked, served>>

Join(t) ==
  /\ MainDoes(t) /\ (t \in Threads => t \in ended)
  /\ mainTodo' = Tail(mainTodo)
  /\ UNCHANGED <<holder, todo, asked, served, leaving, ended>>

MainStep ==
  \/ Reply \/ TryMutex \/ TakeMutex \/ StartHelper \/ EndTap
  \/ Join("controller") \/ Join("notifier") \/ Join("event")

CallStep(t) == Lock(t) \/ Unlock(t) \/ Ask(t)

LockingNext ==
  \/ \E t \in Threads : Start(t) \/ CallStep(t) \/ AskFails(t) \/ Serve(t)
  \/ \E t \in Threads \ {"event"} : End(t)
  \/ EventEnds
  \/ Recalculate \/ Dispatch \/ PluginExit
  \/ MainStep

\* A mutex and a socket that are free again and again are had in the end, and a
\* thread that is told to end makes finitely many calls before it does.
LockingFairness ==
  /\ \A t \in Threads : SF_lockingVars(CallStep(t)) /\ SF_lockingVars(Serve(t))
  /\ \A t \in Threads \ {"event"} : SF_lockingVars(End(t))
  /\ SF_lockingVars(MainStep)

LockingSpec == LockingInit /\ [][LockingNext]_lockingVars /\ LockingFairness

-----------------------------------------------------------------------------
(* Properties.                                                             *)

\* Every variable has its type, and a thread that waits for an answer has asked.
LockingTypeOK ==
  /\ holder \in Threads \cup {None} /\ asked \subseteq Threads
  /\ served \in asked \cup {None}
  /\ \A t \in asked : Does(t, "request") \/ Does(t, "recalculate")
  /\ \A t \in Threads : \A i \in DOMAIN todo[t] :
       todo[t][i] \in {"lock", "unlock", "request", "recalculate"}
  /\ ended \subseteq leaving \cup {"helper"}

MainWaits == MainDoes("take") /\ holder # None

\* While it serves a request, the compositor's thread does not wait for a mutex
\* that the requester holds (managed_workspace() only tries: "to avoid waiting on
\* manager mutex during command-socket dispatch paths").
NeverWaitsForItsClient == MainWaits => holder # served

\* The compositor's thread waits for a mutex whose holder waits for it, ...
MutexStall == MainWaits /\ holder \in asked

\* ... or to join a thread that does, or that holds or awaits such a mutex ...
JoinStall ==
  \E t \in Threads : /\ MainDoes(t) /\ t \notin ended
                     /\ \/ t \in asked
                        \/ Does(t, "lock") /\ holder \in asked

\* ... or to join the event thread, which waits for the next event.
EventStall == MainDoes("event") /\ "event" \in Threads /\ todo["event"] = <<>>

Stalled == MutexStall \/ JoinStall \/ EventStall

\* Every call returns unless that happens: there is no other circular wait.
ReturnsUnlessStalled ==
  /\ \A t \in Threads : todo[t] # <<>> ~> todo[t] = <<>> \/ Stalled
  /\ mainTodo # <<>> ~> mainTodo = <<>> \/ Stalled

\* "ALT+E dispatcher returns emacs-control without focus deadlock"
\* (manual-smoke-tests.org).
DispatcherReturns == ~MutexStall
=============================================================================
