---------------------------- MODULE LayoutApplier ----------------------------
(***************************************************************************)
(* Class LayoutApplier: it hides a window by moving it to the hidden       *)
(* workspace and records where it belongs, so that it can be shown again.  *)
(*                                                                         *)
(* Two threads call it and no lock protects its map.  So each thread has a *)
(* list of the calls it still has to make, todo, and a call that both      *)
(* dispatches to the compositor and updates the map takes one step for     *)
(* each.  Two operations on the map take effect one after the other; that  *)
(* overlapping ones may corrupt an unordered_map is not modelled.          *)
(***************************************************************************)
EXTENDS Compositor

Threads == {"event", "controller"}

VARIABLES
  hiddenFrom,  \* hidden_workspace_by_client_
  todo         \* what each thread has still to do of what it is doing

applierVars == <<hiddenFrom, todo>>

Call(op, c, w) == [op |-> op, client |-> c, ws |-> w]

\* "record" and "forget" are the second halves of a hide and of a show.
ApplierOps == {"hide", "force", "record", "show", "restore", "forget", "setfloating"}

ApplierInit ==
  /\ hiddenFrom = [c \in Clients |-> None]
  /\ todo = [t \in Threads |-> <<>>]

Idle(t) == todo[t] = <<>>

Doing(t, op) == ~Idle(t) /\ Head(todo[t]).op = op

\* Thread t is done with its call, or goes on with the steps in calls instead.
Goes(t, calls) == todo' = [todo EXCEPT ![t] = calls \o Tail(@)]

Finishes(t) == Goes(t, <<>>)

-----------------------------------------------------------------------------
\* hide_client is a hide_client_force of a window that the map does not have.
HideClient(t) ==
  LET call == Head(todo[t])
  IN  /\ Doing(t, "hide")
      /\ IF hiddenFrom[call.client] # None THEN Finishes(t)
         ELSE Goes(t, <<Call("force", call.client, call.ws)>>)
      /\ UNCHANGED <<window, queue, hiddenFrom>>

HideClientForce(t) ==
  LET call == Head(todo[t])
  IN  /\ Doing(t, "force")
      /\ \/ /\ Exists(call.client)
            /\ MovesTo(call.client, HiddenWorkspace)
            /\ Goes(t, <<Call("record", call.client, call.ws)>>)
         \/ /\ Fails(call.client)
            /\ Finishes(t)
            /\ UNCHANGED <<window, queue>>
      /\ UNCHANGED hiddenFrom

\* A plausible mistake in Record: a hide that leaves no way back, which
\* HiddenIsRecorded notices.
RecordNothing(t) ==
  Doing(t, "record") /\ Finishes(t) /\ UNCHANGED <<window, queue, hiddenFrom>>

Record(t) ==
  LET call == Head(todo[t])
  IN  /\ Doing(t, "record")
      /\ hiddenFrom' = [hiddenFrom EXCEPT ![call.client] = call.ws]
      /\ Finishes(t)
      /\ UNCHANGED <<window, queue>>

\* show_client, also as restore_workspace_to_native calls it: that drops the
\* record of a window that cannot be shown.
ShowClient(t) ==
  LET call == Head(todo[t])
      c == call.client
  IN  /\ Doing(t, "show") \/ Doing(t, "restore")
      /\ \/ /\ hiddenFrom[c] = None
            /\ Finishes(t)
            /\ UNCHANGED <<window, queue>>
         \/ /\ hiddenFrom[c] # None /\ Exists(c)
            /\ MovesTo(c, hiddenFrom[c])
            /\ Goes(t, <<Call("forget", c, None)>>)
         \/ /\ hiddenFrom[c] # None /\ Fails(c)
            /\ IF call.op = "restore" THEN Goes(t, <<Call("forget", c, None)>>)
               ELSE Finishes(t)
            /\ UNCHANGED <<window, queue>>
      /\ UNCHANGED hiddenFrom

Forget(t) ==
  /\ Doing(t, "forget")
  /\ hiddenFrom' = [hiddenFrom EXCEPT ![Head(todo[t]).client] = None]
  /\ Finishes(t)
  /\ UNCHANGED <<window, queue>>

EnsureClientFloating(t) ==
  LET c == Head(todo[t]).client
  IN  /\ Doing(t, "setfloating")
      /\ \/ Exists(c) /\ MakesFloat(c)
         \/ Fails(c) /\ UNCHANGED <<window, queue>>
      /\ Finishes(t)
      /\ UNCHANGED hiddenFrom

ApplierStep(t) ==
  \/ HideClient(t) \/ HideClientForce(t) \/ Record(t)
  \/ ShowClient(t) \/ Forget(t)
  \/ EnsureClientFloating(t)
=============================================================================
