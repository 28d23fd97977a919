------------------------- MODULE MCNetworkingQueue --------------------------
(* NetworkingQueue for TLC. *)
EXTENDS NetworkingQueue
CONSTANTS handler, app
=============================================================================
