---------------------------- MODULE MCFriendship -----------------------------
(* Friendship for TLC. *)
EXTENDS Friendship
CONSTANTS x, y, f, g
=============================================================================
