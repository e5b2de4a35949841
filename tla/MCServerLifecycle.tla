------------------------- MODULE MCServerLifecycle -------------------------
(* A small instance of the life of a server for TLC. *)
EXTENDS ServerLifecycle
=============================================================================
