---------------------------- MODULE MCSemaphore ----------------------------
(* The semaphore with more callers than permits, for TLC. *)
EXTENDS Semaphore, TLC

CONSTANTS c1, c2, c3, c4

MCCallers == {c1, c2, c3, c4}
=============================================================================
