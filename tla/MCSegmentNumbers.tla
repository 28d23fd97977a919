-------------------------- MODULE MCSegmentNumbers --------------------------
(* SegmentNumbers for TLC. *)
EXTENDS SegmentNumbers
=============================================================================
