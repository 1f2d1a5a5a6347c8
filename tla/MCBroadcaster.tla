--------------------------- MODULE MCBroadcaster ---------------------------
(* An instance of Broadcaster for TLC: two connections, the engine and the   *)
(* scanner, three messages.                                                  *)
EXTENDS Broadcaster
=============================================================================
