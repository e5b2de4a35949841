------------------------- MODULE MCOutputCollector -------------------------
(* Small instances of the output collector for TLC. *)
EXTENDS OutputCollector

StdoutAndStderr == {"stdout", "stderr"}
OneAndThree == {1, 3}
=============================================================================
