--------------------------- MODULE MCSegmentedRx ----------------------------
(* SegmentedRx for TLC: two sources; the second message of each is shorter. *)
EXTENDS SegmentedRx
CONSTANTS handler, gatt

MCSources == {1, 2}
MCSeqAuths == {1, 2}
MCSegN12 == [m \in MCSources \X MCSeqAuths |-> IF m[1] = 1 THEN 1 ELSE 0]
MCUndecryptable == {<<2, 2>>}
MCNone == {}
=============================================================================
