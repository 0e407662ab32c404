--------------------------- MODULE MCRemoteServer ---------------------------
(* Instances of RemoteServer for TLC. *)
EXTENDS RemoteServer

CONSTANTS c1, c2, b1
=============================================================================
