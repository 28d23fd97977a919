--------------------------- MODULE MCFriendQueue ----------------------------
(* FriendQueue for TLC. *)
EXTENDS FriendQueue
=============================================================================
