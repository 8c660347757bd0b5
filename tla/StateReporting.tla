--------------------------- MODULE StateReporting ---------------------------
(***************************************************************************)
(* What the IPC server promises a controller: as long as the connection    *)
(* lasts, whatever changes on a workspace is followed by a state dump that *)
(* shows it, unless the server forgets it; it knows when it does.          *)
(***************************************************************************)
CONSTANT Workspaces

VARIABLES
  open,  \* a controller is connected, and the manager knows
  owed,  \* the workspaces with a change that no dump has shown yet
  lost   \* those with a change that was forgotten

vars == <<open, owed, lost>>

Init == open = FALSE /\ owed = {} /\ lost = {}

Open == ~open /\ open' = TRUE /\ UNCHANGED <<owed, lost>>

\* A dropped connection takes with it what it was owed.
Close == open /\ open' = FALSE /\ owed' = {} /\ lost' = {}

Change(w) == open /\ owed' = owed \cup {w} /\ UNCHANGED <<open, lost>>

Report(w) == open /\ w \in owed /\ owed' = owed \ {w} /\ UNCHANGED <<open, lost>>

Lose(w) ==
  open /\ w \in owed /\ owed' = owed \ {w} /\ lost' = lost \cup {w} /\ UNCHANGED open

Next ==
  \/ Open \/ Close
  \/ \E w \in Workspaces : Change(w) \/ Report(w) \/ Lose(w)

Spec == Init /\ [][Next]_vars /\ \A w \in Workspaces : WF_vars(Report(w))
=============================================================================
