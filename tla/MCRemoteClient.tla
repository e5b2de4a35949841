--------------------------- MODULE MCRemoteClient ---------------------------
(* RemoteClient for TLC: the calls are interchangeable for safety only. *)
EXTENDS RemoteClient
=============================================================================
