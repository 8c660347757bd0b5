------------------------------ MODULE MCNotify ------------------------------
(* The option of the plugin: none, one below the range, one above it.      *)
EXTENDS StateNotify

MCConfigured == {None, -1, 3}
=============================================================================
