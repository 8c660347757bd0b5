--------------------------- MODULE SessionClaims ---------------------------
(***************************************************************************)
(* What the documents promise of a session and the code does not keep in   *)
(* every case.  Each claim is refuted by a run of its own, whose constants *)
(* leave one cause for it to fail.                                         *)
(***************************************************************************)
EXTENDS ManagedSession

MCClients == 1 .. 1
MCKindsOf == [c \in MCClients |-> {"plain"}]

\* Nothing is under way, in either thread or from the compositor.
Settled == queue = <<>> /\ \A t \in Threads : Idle(t)

\* unmanage-workspace makes the workspace "leave hyprmacs-managed mode and
\* return to native Hyprland behavior" (ipc-v1.org): with nothing managed and
\* nothing under way no window is left on the hidden workspace.
UnmanagedIsNative == Settled /\ managedWs = None => HiddenWindows = {}

\* "If Emacs disconnects, the workspace returns to native Hyprland behavior
\* without leaving stale managed state behind" (v1-scope.org): without a
\* controller and with nothing under way no window is left hidden.
DisconnectedIsNative == Settled /\ ~connected => HiddenWindows = {}

\* "Newly managed eligible clients are hidden immediately until Emacs publishes
\* visibility through set-layout" (ADR 0003): with nothing under way, a managed
\* window that no layout shows is hidden.
NewlyManagedHidden ==
  Settled /\ layout = None => ManagedClients(registry) \subseteq HiddenWindows
=============================================================================
