--------------------------- MODULE MCSocketRing ----------------------------
(* Four ranks, sockets that hold two messages, every program of up to      *)
(* NumCalls barriers and gathers.                                          *)
EXTENDS SocketRing
=============================================================================
