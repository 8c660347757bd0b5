---------------------------- MODULE StateNotify ----------------------------
(***************************************************************************)
(* The threads of the IPC server and the debounced state dumps.            *)
(*                                                                         *)
(* accept_thread_ serves one controller after another, state_notify_thread_*)
(* sends the dumps that have become due, the enqueuers (the event thread,  *)
(* the compositor's dispatchers) leave a deadline behind for each change,  *)
(* and the compositor's thread stops it all.                               *)
(*                                                                         *)
(* Sections under controller_mutex_, and those under state_notify_mutex_   *)
(* that do not wait, are one step.  The notifier keeps state_notify_mutex_ *)
(* from its test of a condition until it sleeps, which are two steps:      *)
(* notify_one and notify_all only reach a thread that sleeps already.      *)
(***************************************************************************)
EXTENDS Integers, FiniteSetsExt

CONSTANTS
  None,             \* std::nullopt
  Workspaces,
  Enqueuers,        \* of {"event", "dispatcher"}
  Configured,       \* values of the plugin's option, None when it has none
  DefaultDebounce,  \* kDefaultStateNotifyDebounceMs, in ticks
  MaxDebounce,      \* kMaxStateNotifyDebounceMs, in ticks
  MaxGeneration     \* bounds the connections: no new one at this generation

ASSUME NotifyAssumption ==
  /\ Enqueuers \subseteq {"event", "dispatcher"}
  /\ Configured \subseteq Int \cup {None}
  /\ MaxDebounce \in Nat \ {0} /\ DefaultDebounce \in 1 .. MaxDebounce
  /\ MaxGeneration \in Nat

VARIABLES
  running,     \* running_
  fd,          \* controller_fd_ >= 0
  generation,  \* controller_generation_
  pending,     \* pending_state_notify_deadlines_: one entry per workspace
  debounce,    \* state_notify_debounce_ms_
  connected,   \* the manager's flag (set_controller_connected)
  until,       \* ticks to the deadline the notifier sleeps for
  due,         \* due_workspaces, local to the notifier
  job,         \* per thread, what it is about to enqueue, build or send
  pc,
  owed,        \* history: workspaces with a change the controller has not seen
  lost         \* history: workspaces with a change it is not going to be told

notifyVars == <<running, fd, generation, pending, debounce, connected, until, due,
                job, pc, owed, lost>>

Senders == Enqueuers \cup {"notifier"}
Threads == Senders \cup {"accept", "stop"}

Entry(w, g, left) == [ws |-> w, gen |-> g, left |-> left]

\* covers: the dump was built after the change that the controller is owed.
Job(w, g, left, covers) == [ws |-> w, gen |-> g, left |-> left, covers |-> covers]
NoJob == Job(None, 0, 0, FALSE)

NotifyInit ==
  /\ running = TRUE /\ fd = FALSE /\ generation = 0
  /\ pending = {} /\ debounce = DefaultDebounce
  /\ connected = FALSE
  /\ until = 0 /\ due = {}
  /\ job = [t \in Senders |-> NoJob]
  /\ pc = [t \in Threads |-> CASE t \in Enqueuers -> "idle"
                               [] t = "notifier" -> "check"
                               [] t = "accept" -> "accepting"
                               [] t = "stop" -> "up"]
  /\ owed = {} /\ lost = {}

\* Only between "publish" and "insert", and until a dump is sent.
Drop(t) == job' = [job EXCEPT ![t] = NoJob]

At(t, label) == pc[t] = label
Goto(t, label) == pc' = [pc EXCEPT ![t] = label]

\* A plausible mistake in MutexFree: the condition is tested before the mutex is
\* taken.  SleepsOnlyWhenIdle notices.
TestedUnlocked == ~At("notifier", "arming")

\* The notifier holds state_notify_mutex_ between two steps.
MutexFree == pc["notifier"] \notin {"parking", "arming"}

\* notify_one and notify_all, for the notifier is the only thread that waits.
Woken(p) ==
  [p EXCEPT !["notifier"] = CASE @ = "blocked" -> "check"
                              [] @ = "timed" -> "woken"
                              [] OTHER -> @]

Established == fd /\ connected

-----------------------------------------------------------------------------
(* A change, and the thread that made it.                                  *)

\* owed follows the oldest change that was not reported, or any later one.
Change(t, w) ==
  /\ At(t, "idle")
  /\ t = "dispatcher" => At("stop", "up")
  /\ \E watched \in BOOLEAN :
       /\ watched => Established /\ owed = {}
       /\ owed' = IF watched THEN owed \cup {w} ELSE owed
       /\ job' = [u \in Senders |->
                    IF u = t THEN Job(w, 0, 0, FALSE)
                    ELSE IF watched /\ job[u].ws = w
                         THEN [job[u] EXCEPT !.covers = FALSE] ELSE job[u]]
  /\ Goto(t, "publish")
  /\ UNCHANGED <<running, fd, generation, pending, debounce, connected, until, due, lost>>

\* The end of on_workspace_state_changed or publish_state_dump_for_workspace, and
\* enqueue_debounced_state_dump up to the mutex.
EnqueueDebouncedStateDump(t) ==
  /\ At(t, "publish")
  /\ \/ ~running /\ Goto(t, "idle") /\ Drop(t)
     \/ running /\ debounce <= 0 /\ Goto(t, "read") /\ UNCHANGED job
     \/ running /\ debounce > 0 /\ ~fd /\ Goto(t, "idle") /\ Drop(t)
     \/ /\ running /\ debounce > 0 /\ fd
        /\ job' = [job EXCEPT ![t] = Job(@.ws, generation, debounce, FALSE)]
        /\ Goto(t, "insert")
  /\ UNCHANGED <<running, fd, generation, pending, debounce, connected, until, due, owed, lost>>

\* A change of w lives on in a thread that is about to enqueue or to send it, or
\* in an entry, and in each case for this connection.
Carried(w) ==
  \/ \E t \in Enqueuers :
       /\ job[t].ws = w
       /\ \/ pc[t] \in {"publish", "read"}
          \/ At(t, "insert") /\ job[t].gen = generation
  \/ \E e \in pending \cup due : e.ws = w /\ e.gen = generation
  \/ \E t \in Senders :
       /\ job[t].ws = w /\ job[t].gen = generation
       /\ At(t, "build") \/ (At(t, "send") /\ job[t].covers)

\* The entry that t inserts is late: it takes the place of one for the present
\* connection, which another thread made.  A change that nobody else carries then
\* is lost.
Supplants(t) ==
  /\ job[t].gen # generation
  /\ \E e \in pending : e.ws = job[t].ws /\ e.gen = generation

NotesLost(t) ==
  LET missed == {w \in owed : w = job[t].ws /\ Supplants(t) /\ ~Carried(w)'}
  IN  owed' = owed \ missed /\ lost' = lost \cup missed

\* Plausible mistakes in Insert: an entry of an older connection is kept
\* (NothingLost notices); the deadline moves with every change
\* (ReportsEveryChange).
InsertUnlessPending(t) ==
  /\ At(t, "insert") /\ MutexFree
  /\ IF \E e \in pending : e.ws = job[t].ws
     THEN Goto(t, "idle") /\ UNCHANGED pending
     ELSE /\ pending' = pending \cup {Entry(job[t].ws, job[t].gen, job[t].left)}
          /\ Goto(t, "wake")
  /\ Drop(t)
  /\ UNCHANGED <<running, fd, generation, debounce, connected, until, due>>
  /\ NotesLost(t)

InsertAfresh(t) ==
  /\ At(t, "insert") /\ MutexFree
  /\ pending' = {e \in pending : e.ws # job[t].ws}
                  \cup {Entry(job[t].ws, job[t].gen, job[t].left)}
  /\ Goto(t, "wake")
  /\ Drop(t)
  /\ UNCHANGED <<running, fd, generation, debounce, connected, until, due>>
  /\ NotesLost(t)

\* The first change of a workspace sets the deadline, the others share it; an
\* entry that belongs to another connection is replaced.
Insert(t) ==
  /\ At(t, "insert") /\ MutexFree
  /\ IF \E e \in pending : e.ws = job[t].ws /\ e.gen = job[t].gen
     THEN Goto(t, "idle") /\ UNCHANGED pending
     ELSE /\ pending' = {e \in pending : e.ws # job[t].ws}
                          \cup {Entry(job[t].ws, job[t].gen, job[t].left)}
          /\ Goto(t, "wake")
  /\ Drop(t)
  /\ UNCHANGED <<running, fd, generation, debounce, connected, until, due>>
  /\ NotesLost(t)

Wake(t) ==
  /\ At(t, "wake")
  /\ pc' = Woken([pc EXCEPT ![t] = "idle"])
  /\ UNCHANGED <<running, fd, generation, pending, debounce, connected, until, due, job, owed, lost>>

-----------------------------------------------------------------------------
(* publish_state_dump_now, in the thread of the change or in the notifier. *)

\* Without a debounce time no generation is expected.
ReadConnection(t) ==
  /\ At(t, "read")
  /\ IF running /\ fd
     THEN /\ job' = [job EXCEPT ![t].gen = generation]
          /\ Goto(t, "build")
     ELSE Goto(t, "idle") /\ Drop(t)
  /\ UNCHANGED <<running, fd, generation, pending, debounce, connected, until, due, owed, lost>>

BuildDump(t) ==
  /\ At(t, "build")
  /\ job' = [job EXCEPT ![t].covers = (@ \/ job[t].ws \in owed)]
  /\ Goto(t, "send")
  /\ UNCHANGED <<running, fd, generation, pending, debounce, connected, until, due, owed, lost>>

\* The descriptor is the one that was read before.  When that connection is
\* over, the number may belong to the next one.  A ::send that fails counts as one
\* that reaches its connection: the peer has hung up, and nothing is owed to it.
SendDump(t) ==
  /\ At(t, "send")
  /\ \E reused \in BOOLEAN :
       owed' = IF job[t].covers /\ fd /\ (job[t].gen = generation \/ reused)
               THEN owed \ {job[t].ws} ELSE owed
  /\ Drop(t)
  /\ Goto(t, IF t = "notifier" THEN "publish" ELSE "idle")
  /\ UNCHANGED <<running, fd, generation, pending, debounce, connected, until, due, lost>>

-----------------------------------------------------------------------------
(* state_notify_loop.                                                      *)

Finish == Goto("notifier", "done") /\ until' = 0

\* Sleep until a deadline, or take what is due.
WaitOrTake(left) ==
  \/ /\ pending # {} /\ left > 0
     /\ until' = left /\ Goto("notifier", "arming")
     /\ UNCHANGED <<pending, due>>
  \/ /\ pending = {} \/ left = 0
     /\ due' = {e \in pending : e.left = 0} /\ pending' = pending \ due'
     /\ until' = 0 /\ Goto("notifier", "publish")

\* Wait until there is a deadline, then for the nearest.
CheckPending ==
  /\ At("notifier", "check")
  /\ \/ ~running /\ Finish /\ UNCHANGED <<pending, due>>
     \/ /\ running /\ pending = {} /\ Goto("notifier", "parking")
        /\ UNCHANGED <<pending, until, due>>
     \/ running /\ pending # {} /\ WaitOrTake(Min({e.left : e \in pending}))
  /\ UNCHANGED <<running, fd, generation, debounce, connected, job, owed, lost>>

Park ==
  /\ At("notifier", "parking") /\ Goto("notifier", "blocked")
  /\ UNCHANGED <<running, fd, generation, pending, debounce, connected, until, due, job, owed, lost>>

\* Everything was cleared, or the time has come, or it was woken for nothing.
CheckDeadline ==
  /\ At("notifier", "woken")
  /\ \/ ~running /\ Finish /\ UNCHANGED <<pending, due>>
     \/ running /\ WaitOrTake(until)
  /\ UNCHANGED <<running, fd, generation, debounce, connected, job, owed, lost>>

Arm ==
  /\ At("notifier", "arming") /\ Goto("notifier", "timed")
  /\ UNCHANGED <<running, fd, generation, pending, debounce, connected, until, due, job, owed, lost>>

TimeOut ==
  /\ At("notifier", "timed") /\ until = 0 /\ Goto("notifier", "woken")
  /\ UNCHANGED <<running, fd, generation, pending, debounce, connected, until, due, job, owed, lost>>

\* What was due for another connection is dropped.
PublishDue ==
  /\ At("notifier", "publish")
  /\ \/ /\ due = {} /\ Goto("notifier", "check") /\ UNCHANGED <<due, job>>
     \/ \E e \in due :
          /\ due' = due \ {e}
          /\ IF running /\ fd /\ e.gen = generation
             THEN /\ job' = [job EXCEPT !["notifier"] = Job(e.ws, e.gen, 0, FALSE)]
                  /\ Goto("notifier", "build")
             ELSE UNCHANGED <<job, pc>>
  /\ UNCHANGED <<running, fd, generation, pending, debounce, connected, until, owed, lost>>

-----------------------------------------------------------------------------
(* accept_loop.                                                            *)

AcceptController ==
  /\ At("accept", "accepting") /\ pc["stop"] \in {"up", "listening"}
  /\ generation < MaxGeneration
  /\ fd' = TRUE /\ generation' = generation + 1
  /\ Goto("accept", "clear")
  /\ UNCHANGED <<running, pending, debounce, connected, until, due, job, owed, lost>>

AcceptFails ==
  /\ At("accept", "accepting") /\ pc["stop"] \notin {"up", "listening"}
  /\ Goto("accept", "done")
  /\ UNCHANGED <<running, fd, generation, pending, debounce, connected, until, due, job, owed, lost>>

\* A plausible mistake in ClearPending: without the mutex.  StopReturns notices.
ClearUnlocked(label, next) ==
  /\ At("accept", label)
  /\ pending' = {}
  /\ Goto("accept", next)
  /\ UNCHANGED <<running, fd, generation, debounce, connected, until, due, job, owed, lost>>

ClearPending(label, next) ==
  /\ At("accept", label) /\ MutexFree
  /\ pending' = {}
  /\ Goto("accept", next)
  /\ UNCHANGED <<running, fd, generation, debounce, connected, until, due, job, owed, lost>>

NotifyCleared(label, next) ==
  /\ At("accept", label)
  /\ pc' = Woken([pc EXCEPT !["accept"] = next])
  /\ UNCHANGED <<running, fd, generation, pending, debounce, connected, until, due, job, owed, lost>>

\* A plausible mistake in Normalize: no bounds.  NotifyTypeOK notices.
Unbounded(value) == IF value = None THEN DefaultDebounce ELSE value

\* normalize_state_notify_debounce_ms.
Normalize(value) ==
  CASE value = None -> DefaultDebounce
    [] value # None /\ value < 0 -> 0
    [] value # None /\ value > MaxDebounce -> MaxDebounce
    [] OTHER -> value

ResolveDebounce ==
  /\ At("accept", "resolve")
  /\ \E value \in Configured : debounce' = Normalize(value)
  /\ Goto("accept", "online")
  /\ UNCHANGED <<running, fd, generation, pending, connected, until, due, job, owed, lost>>

GoOnline ==
  /\ At("accept", "online")
  /\ connected' = TRUE
  /\ Goto("accept", IF running THEN "serving" ELSE "leave")
  /\ UNCHANGED <<running, fd, generation, pending, debounce, until, due, job, owed, lost>>

\* controller_fd_ is closed by whoever comes first, here or in stop().
CloseConnection ==
  /\ fd' = FALSE
  /\ generation' = IF fd THEN generation + 1 ELSE generation
  /\ owed' = {} /\ lost' = {}

LeaveController ==
  /\ CloseConnection /\ Goto("accept", "forget")
  /\ UNCHANGED <<running, pending, debounce, connected, until, due, job>>

\* serve_controller returns: the controller is gone, or stop() shut it out.
ControllerGone == At("accept", "serving") /\ LeaveController

ShutOut == (At("accept", "leave") \/ (At("accept", "serving") /\ ~fd)) /\ LeaveController

GoOffline ==
  /\ At("accept", "offline")
  /\ connected' = FALSE
  /\ Goto("accept", IF running THEN "accepting" ELSE "done")
  /\ UNCHANGED <<running, fd, generation, pending, debounce, until, due, job, owed, lost>>

-----------------------------------------------------------------------------
(* stop(), which the compositor's thread calls when the plugin exits.      *)

StopRunning ==
  /\ At("stop", "up")
  /\ \A t \in Enqueuers \cap {"dispatcher"} : At(t, "idle")
  /\ running' = FALSE
  /\ Goto("stop", "listening")
  /\ UNCHANGED <<fd, generation, pending, debounce, connected, until, due, job, owed, lost>>

CloseListener ==
  /\ At("stop", "listening") /\ Goto("stop", "controller")
  /\ UNCHANGED <<running, fd, generation, pending, debounce, connected, until, due, job, owed, lost>>

ShutController ==
  /\ At("stop", "controller") /\ CloseConnection /\ Goto("stop", "join-accept")
  /\ UNCHANGED <<running, pending, debounce, connected, until, due, job>>

JoinAccept ==
  /\ At("stop", "join-accept") /\ At("accept", "done") /\ Goto("stop", "notify")
  /\ UNCHANGED <<running, fd, generation, pending, debounce, connected, until, due, job, owed, lost>>

NotifyStop ==
  /\ At("stop", "notify")
  /\ pc' = Woken([pc EXCEPT !["stop"] = "join-notifier"])
  /\ UNCHANGED <<running, fd, generation, pending, debounce, connected, until, due, job, owed, lost>>

JoinNotifier ==
  /\ At("stop", "join-notifier") /\ At("notifier", "done")
  /\ pending' = {} /\ connected' = FALSE
  /\ Goto("stop", "stopped")
  /\ UNCHANGED <<running, fd, generation, debounce, until, due, job, owed, lost>>

-----------------------------------------------------------------------------
OneLess(n) == IF n = 0 THEN 0 ELSE n - 1

Tick ==
  /\ \/ until > 0
     \/ \E e \in pending : e.left > 0
     \/ \E t \in Enqueuers : At(t, "insert") /\ job[t].left > 0
  /\ until' = OneLess(until)
  /\ pending' = {[e EXCEPT !.left = OneLess(@)] : e \in pending}
  /\ job' = [t \in Senders |-> [job[t] EXCEPT !.left = OneLess(@)]]
  /\ UNCHANGED <<running, fd, generation, debounce, connected, due, pc, owed, lost>>

EnqueuerStep(t) ==
  \/ EnqueueDebouncedStateDump(t) \/ Insert(t) \/ Wake(t)
  \/ ReadConnection(t) \/ BuildDump(t) \/ SendDump(t)

NotifierStep ==
  \/ CheckPending \/ Park \/ CheckDeadline \/ Arm \/ TimeOut \/ PublishDue
  \/ BuildDump("notifier") \/ SendDump("notifier")

\* Without ControllerGone and AcceptController, which wait for a peer.
AcceptStep ==
  \/ AcceptFails
  \/ ClearPending("clear", "tell") \/ NotifyCleared("tell", "resolve")
  \/ ResolveDebounce \/ GoOnline \/ ShutOut
  \/ ClearPending("forget", "tell-last") \/ NotifyCleared("tell-last", "offline")
  \/ GoOffline

StopStep ==
  CloseListener \/ ShutController \/ JoinAccept \/ NotifyStop \/ JoinNotifier

NotifyNext ==
  \/ \E t \in Enqueuers, w \in Workspaces : Change(t, w)
  \/ \E t \in Enqueuers : EnqueuerStep(t)
  \/ NotifierStep
  \/ AcceptController \/ ControllerGone \/ AcceptStep
  \/ StopRunning \/ StopStep
  \/ Tick

\* Threads that can run do, and time passes.  Nobody has to change anything, to
\* connect, to hang up or to stop.
NotifyFairness ==
  /\ \A t \in Enqueuers : WF_notifyVars(EnqueuerStep(t))
  /\ WF_notifyVars(NotifierStep) /\ WF_notifyVars(AcceptStep)
  /\ WF_notifyVars(StopStep) /\ WF_notifyVars(Tick)

NotifySpec == NotifyInit /\ [][NotifyNext]_notifyVars /\ NotifyFairness

-----------------------------------------------------------------------------
(* Properties.                                                             *)

\* Every variable has its type, and a workspace has one deadline.
NotifyTypeOK ==
  /\ {running, fd, connected} \subseteq BOOLEAN
  /\ generation \in Nat /\ debounce \in 0 .. MaxDebounce /\ until \in 0 .. MaxDebounce
  /\ pending \cup due \subseteq [ws : Workspaces, gen : Nat, left : 0 .. MaxDebounce]
  /\ \A e, f \in pending : e.ws = f.ws => e = f
  /\ job \in [Senders -> [ws : Workspaces \cup {None}, gen : Nat, left : 0 .. MaxDebounce,
                          covers : BOOLEAN]]
  /\ owed \cup lost \subseteq Workspaces

\* No change is forgotten across the two clean-ups of accept_loop, the generation
\* check of publish_state_dump_now and insertions in any order, but where an entry
\* of an older connection supplants the change's own (lost).
NothingLost == running => \A w \in owed : Carried(w)

\* The notifier sleeps without a deadline only while nothing is pending, or a
\* thread is on its way to wake it (state_notify_cv_).
SleepsOnlyWhenIdle ==
  At("notifier", "blocked") /\ running /\ pending # {}
    => \E t \in Enqueuers : At(t, "wake")

Reporting == INSTANCE StateReporting WITH open <- Established

\* The notifier implements StateReporting: what changes in a connection is shown
\* to it, or is lost to a late insertion, or the connection ends, whatever keeps
\* changing meanwhile.
ReportsEveryChange == Reporting!Spec

\* stop() returns when it had a controller to shut out (it notifies without the
\* mutex, and only accept_loop's clean-up makes sure that the notifier hears it).
StopReturns == At("stop", "controller") /\ fd ~> At("stop", "stopped")
=============================================================================
