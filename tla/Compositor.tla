----------------------------- MODULE Compositor -----------------------------
(***************************************************************************)
(* Hyprland as the plugin sees it: windows that a user opens, closes,      *)
(* moves, floats and focuses, a socket that tells of it in order, and the  *)
(* dispatches that move a window or make it float.  None of it is code of  *)
(* the repository; it is what the plugin's code counts on.                 *)
(***************************************************************************)
EXTENDS ClientRegistry, Sequences

CONSTANTS
  UserActions,  \* what the user does, out of AllUserActions
  QueueBound    \* the events that may be under way before a new cause is let in

AllUserActions == {"open", "close", "move", "focus", "retitle", "float"}

ASSUME CompositorAssumption ==
  UserActions \subseteq AllUserActions /\ QueueBound \in Nat \ {0}

VARIABLES
  window,   \* the windows there are: where, of which kind, floating or not
  queue     \* the events the plugin has not read yet

Places == Workspaces \cup {HiddenWorkspace}

Window == [ws: Places, kind: Kinds, floating: BOOLEAN]

\* ws, kind and floating matter for the events that carry them.
Event == [name: AllUserActions, client: Maybe(Clients), ws: Maybe(Workspaces),
          kind: Maybe(Kinds), floating: Maybe(BOOLEAN)]

CompositorType == window \in [Clients -> Maybe(Window)] /\ queue \in Seq(Event)

\* The plugin may be loaded while there are windows, which it is not told of.
CompositorInit ==
  /\ window \in [Clients -> Maybe([ws: Workspaces, kind: Kinds, floating: BOOLEAN])]
  /\ \A c \in Clients : window[c] # None => window[c].kind \in KindsOf[c]
  /\ queue = <<>>

Exists(c) == window[c] # None

HiddenWindows == {c \in Clients : Exists(c) /\ window[c].ws = HiddenWorkspace}

\* What "j/clients" says of the windows; nothing of one that is gone.
FloatingNow == [c \in Clients |-> IF Exists(c) THEN window[c].floating ELSE None]

\* What the plugin gets to know of it: each query may stay without an answer.
FloatingAnswers ==
  {answers \in [Clients -> Maybe(BOOLEAN)] :
     \A c \in Clients :
       answers[c] = FloatingNow[c] \/ (answers[c] = None /\ "query" \in Faults)}

NoDetail == [ws |-> None, kind |-> None, floating |-> None]

EventOf(name, c, detail) == [name |-> name, client |-> c, ws |-> detail.ws,
                             kind |-> detail.kind, floating |-> detail.floating]

Sends(name, c, detail) == queue' = Append(queue, EventOf(name, c, detail))

-----------------------------------------------------------------------------
(* The user.  QueueBound holds the user back, not the plugin's dispatches. *)

May(action) == action \in UserActions /\ Len(queue) < QueueBound

Open(c, w, k, f) ==
  /\ May("open") /\ ~Exists(c)
  /\ window' = [window EXCEPT ![c] = [ws |-> w, kind |-> k, floating |-> f]]
  /\ Sends("open", c, [NoDetail EXCEPT !.ws = w, !.kind = k])

Close(c) ==
  /\ May("close") /\ Exists(c)
  /\ window' = [window EXCEPT ![c] = None]
  /\ Sends("close", c, NoDetail)

\* Also a window that the plugin has hidden.
Move(c, w) ==
  /\ May("move") /\ Exists(c) /\ window[c].ws # w
  /\ window' = [window EXCEPT ![c].ws = w]
  /\ Sends("move", c, [NoDetail EXCEPT !.ws = w])

Focus(c) ==
  /\ May("focus") /\ (c # None => Exists(c))
  /\ Sends("focus", c, NoDetail)
  /\ UNCHANGED window

Retitle(c, k) ==
  /\ May("retitle") /\ Exists(c)
  /\ window' = [window EXCEPT ![c].kind = k]
  /\ Sends("retitle", c, [NoDetail EXCEPT !.kind = k])

\* Events of the floating state are not reliable (docs/adr/0002, line 53).
Float(c) ==
  /\ May("float") /\ Exists(c)
  /\ window' = [window EXCEPT ![c].floating = ~@]
  /\ \/ Sends("float", c, [NoDetail EXCEPT !.floating = window'[c].floating])
     \/ UNCHANGED queue

UserStep ==
  \/ Focus(None)
  \/ \E c \in Clients :
       \/ Close(c)
       \/ Focus(c)
       \/ Float(c)
       \/ \E w \in Workspaces : Move(c, w)
       \/ \E k \in KindsOf[c] : Retitle(c, k)
       \/ \E w \in Workspaces, k \in KindsOf[c], f \in BOOLEAN : Open(c, w, k, f)

-----------------------------------------------------------------------------
(* Dispatches, when they succeed: the window exists.                       *)

\* movetoworkspacesilent.  The event of a move to the hidden workspace is
\* ignored by handle_line, and is not sent here.
MovesTo(c, place) ==
  /\ window' = [window EXCEPT ![c].ws = place]
  /\ IF place = HiddenWorkspace \/ window[c].ws = place THEN UNCHANGED queue
     ELSE Sends("move", c, [NoDetail EXCEPT !.ws = place])

\* setfloating, which does nothing to a window that floats.
MakesFloat(c) ==
  /\ window' = [window EXCEPT ![c].floating = TRUE]
  /\ IF window[c].floating THEN UNCHANGED queue
     ELSE Sends("float", c, [NoDetail EXCEPT !.floating = TRUE])

Fails(c) == ~Exists(c) \/ "dispatch" \in Faults
=============================================================================
