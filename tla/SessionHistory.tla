---------------------------- MODULE SessionHistory ----------------------------
(***************************************************************************)
(* A session with three history variables, which say what one thread did   *)
(* in the middle of what the other was doing, and which dispatches failed: *)
(* no lock spans an event or a command, so the promises of ManagedSession  *)
(* hold up to what these variables name.  The history is not code.         *)
(***************************************************************************)
EXTENDS ManagedSession

VARIABLES
  overtaken,  \* windows that were hidden again before the other thread's show
              \* of them was done, or that a restore could not show
  late,       \* windows the event thread recorded after the controller thread
              \* had listed what it restores; all of them until it has
  disturbed   \* windows the event thread could not hide in this round; all of
              \* them once the controller thread has changed the manager

historyVars == <<sessionVars, overtaken, late, disturbed>>

HistoryInit == SessionInit /\ overtaken = {} /\ late = Clients /\ disturbed = {}

\* The record of c is about to be dropped.
Forgetting(c) == \E t \in Threads : Doing(t, "forget") /\ Head(todo[t]).client = c

\* A thread hides c while the other one is between the halves of showing it.
HidesBetween(c) == Forgetting(c) /\ \E t \in Threads : HideClientForce(t) /\ Head(todo[t]).client = c

\* Disconnect cleanup drops the record of a window that it cannot show.
GivesUp(c) ==
  /\ hiddenFrom[c] # None
  /\ \E t \in Threads : Doing(t, "restore") /\ ShowClient(t) /\ Head(todo[t]).client = c

\* A window is no longer overtaken when it is visible, or recorded for good.
NotesOvertaken ==
  overtaken' = {c \in HiddenWindows' :
                  \/ HidesBetween(c) \/ GivesUp(c)
                  \/ c \in overtaken /\ (hiddenFrom'[c] = None \/ Forgetting(c)')}

NotesLate ==
  late' = {c \in Clients :
             ~Scan /\ \/ CleanUp \/ c \in late
                      \/ Record("event") /\ Head(todo["event"]).client = c}

Commanded == ~EventThread /\ vars' # vars

Missed(c) ==
  /\ HideClientForce("event") /\ Head(todo["event"]).client = c
  /\ Exists(c)' /\ c \notin HiddenWindows'

NotesDisturbed ==
  disturbed' = {c \in Clients : ~HandleEvent /\ (Commanded \/ Missed(c) \/ c \in disturbed)}

HistoryNext == SessionNext /\ NotesOvertaken /\ NotesLate /\ NotesDisturbed

HistorySpec == HistoryInit /\ [][HistoryNext]_historyVars

-----------------------------------------------------------------------------
(* Properties.                                                             *)

\* A window on the hidden workspace has a record of where it belongs, or is about
\* to get one, whatever the threads do at once and whatever fails: the record is
\* lost only when a hide falls between the move and the erase of the other
\* thread's show_client, or when a restore cannot show the window.
RecordedUnlessOvertaken ==
  \A c \in HiddenWindows :
    \/ hiddenFrom[c] # None
    \/ \E t \in Threads : Doing(t, "record") /\ Head(todo[t]).client = c
    \/ c \in overtaken

\* The end of a connection leaves no window hidden from the managed workspace but
\* those that the event thread hid after restore_workspace_to_native had listed
\* what it restores, or when managed_workspace() did not get the manager's mutex.
RestoredUnlessLate ==
  [][connected /\ ~connected' /\ managedWs # None
       => \A c \in HiddenWindows' : hiddenFrom'[c] = managedWs => c \in late]_historyVars

\* When the event thread comes to rest in Emacs control, with a controller and every
\* event read, each window the layout hides is hidden or gone, although the other
\* thread and the user show windows meanwhile: all but those whose own dispatch
\* failed in this round, unless a command changed the manager during it.
EnforcedUnlessDisturbed ==
  [][/\ ~Idle("event") /\ todo'["event"] = <<>> /\ queue' = <<>> /\ fd
     /\ layout' # None /\ layout'.inputMode = "emacs-control"
     => \A c \in layout'.hidden :
          window'[c] = None \/ c \in HiddenWindows' \/ c \in disturbed']_historyVars
=============================================================================
