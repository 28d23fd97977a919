------------------------- MODULE MCReliableMessage --------------------------
(* ReliableMessage for TLC. *)
EXTENDS ReliableMessage
CONSTANTS handler, app, n1, n2

Kind(reliable, segmented, dst, rspMax) ==
  [reliable |-> reliable, segmented |-> segmented, dst |-> dst, rspMax |-> rspMax]

\* to one node, reliable or not, in one PDU or in segments; and to both nodes, in one PDU
MCKinds == {Kind(r, s, {n1}, 1) : r, s \in BOOLEAN} \cup {Kind(TRUE, FALSE, {n1, n2}, 2)}
=============================================================================
