----------------------------- MODULE MCOverlap -----------------------------
(* One application window, and two threads at work on it at once.          *)
EXTENDS SessionHistory

MCClients == 1 .. 1
MCKindsOf == [c \in MCClients |-> {"plain"}]
=============================================================================
