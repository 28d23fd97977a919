----------------------------- MODULE PduChannel -----------------------------
(***************************************************************************)
(* What NetworkingController promises about the network PDUs it prepares:  *)
(* they go on the air in the order they were prepared, each at most once,  *)
(* and none stays behind unless the whole backlog is discarded.            *)
(***************************************************************************)
EXTENDS Naturals, Sequences

CONSTANT Pdus         \* numbers of the PDUs

VARIABLES
  pending,            \* PDUs accepted and not yet on the air
  air                 \* PDUs on the air, oldest first

channel == <<pending, air>>

Init == pending = <<>> /\ air = <<>>

Accept(p) == pending' = Append(pending, p) /\ UNCHANGED air

\* an idle channel passes a PDU through
Pass(p) == pending = <<>> /\ air' = Append(air, p) /\ UNCHANGED pending

Transmit ==
  /\ pending # <<>>
  /\ air' = Append(air, Head(pending))
  /\ pending' = Tail(pending)

Discard == pending' = <<>> /\ UNCHANGED air

Next == (\E p \in Pdus : Accept(p) \/ Pass(p)) \/ Transmit \/ Discard

Spec == Init /\ [][Next]_channel /\ WF_channel(Transmit)
=============================================================================
