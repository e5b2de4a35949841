------------------------- MODULE MCExecutionStream -------------------------
(* Small instances of a streamed execution for TLC. *)
EXTENDS ExecutionStream
=============================================================================
