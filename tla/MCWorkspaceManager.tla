------------------------- MODULE MCWorkspaceManager -------------------------
(* Two windows, one an Emacs frame, the other either an application window *)
(* or, after a change of its title, a second frame.                        *)
EXTENDS WorkspaceManager

MCClients == 1 .. 2
MCKindsOf == [c \in 1 .. 2 |-> CASE c = 1 -> {"emacs"}
                                 [] c = 2 -> {"plain", "emacs"}]
=============================================================================
