--------------------------- MODULE SegmentNumbers ---------------------------
(***************************************************************************)
(* How a segment names the message it belongs to.  A segment carries the   *)
(* low bits of the sequence number of the first segment (SeqZero), and its *)
(* own IV index and sequence number; the receiver computes SeqAuth, the    *)
(* IV index and sequence number of the first segment, from the three.      *)
(* NetworkingController is the sender and the receiver.                    *)
(***************************************************************************)
EXTENDS Integers

CONSTANTS
  SeqZeroSize,   \* SEQ_ZERO_LIMIT + 1, 0x2000 in the code
  SeqSize,       \* number of sequence numbers, 0x1000000 in the code
  IvSize,        \* IV indexes that SeqAuth tells apart, 0x80000000 in the code
  MaxSegN,       \* largest index of a segment, 31 in the code
  MaxIv          \* bound: IV indexes

ASSUME SegmentNumbersAssumption ==
  /\ SeqZeroSize \in Nat \ {0} /\ SeqSize \in Nat \ {0} /\ IvSize \in Nat \ {0}
  /\ SeqSize % SeqZeroSize = 0
  /\ MaxSegN \in Nat /\ MaxSegN < SeqZeroSize
  /\ MaxIv \in Nat /\ MaxIv < IvSize

VARIABLES
  iv,       \* getTransmitIvIndex()
  seqNo,    \* mSequenceNumber
  message,  \* sentSegmentedMessageBuffer: IV index and number of its first segment
  pdu       \* the segment on the air

numbers == <<iv, seqNo, message, pdu>>

\* a segment in a network PDU
Segment(i, seq, first) == [iv |-> i, seq |-> seq, seqZero |-> first % SeqZeroSize]

\* a message of one segment has just been created
NumbersInit ==
  /\ iv \in 0 .. MaxIv /\ seqNo \in 1 .. SeqSize - 1
  /\ message = [iv |-> iv, first |-> seqNo - 1]
  /\ pdu = Segment(iv, seqNo - 1, seqNo - 1)

-----------------------------------------------------------------------------
(* The receiver: parseSegmentedAccessMessage *)

\* variant: a number of the block before is not recognised
BugTransportSeqNo(seq, seqZero) == (seq - (seq % SeqZeroSize)) + seqZero

\* n & 0xFFE000
HigherBits(n) == (n % SeqSize) - ((n % SeqSize) % SeqZeroSize)

TransportSeqNo(seq, seqZero) ==
  IF seq % SeqZeroSize < seqZero
  THEN HigherBits(seq - SeqZeroSize) + seqZero
  ELSE HigherBits(seq) + seqZero

SeqAuth(i, transportSeqNo) == transportSeqNo + (i % IvSize) * SeqSize

-----------------------------------------------------------------------------
(* The sender *)

\* createSegmentedAccessMessage and createNetworkPDU of its segments
CreateSegmentedAccessMessage ==
  \E segN \in 0 .. MaxSegN :
    /\ seqNo + segN + 1 < SeqSize
    /\ message' = [iv |-> iv, first |-> seqNo]
    /\ seqNo' = seqNo + segN + 1
    /\ \E segO \in 0 .. segN : pdu' = Segment(iv, seqNo + segO, seqNo)
    /\ UNCHANGED iv

\* resendSegmentedMessages: the segment, with its SeqZero, in a new network PDU.
\* In BLOCK_ACK_WAITING_TIMEOUT far less than SeqZeroSize PDUs are sent.
ResendSegmentedMessages ==
  /\ seqNo + 1 < SeqSize
  /\ iv = message.iv => seqNo < message.first + SeqZeroSize
  /\ seqNo' = seqNo + 1
  /\ pdu' = Segment(iv, seqNo, message.first)
  /\ UNCHANGED <<iv, message>>

\* any other PDU
CreateNetworkPdu ==
  /\ seqNo + 1 < SeqSize
  /\ seqNo' = seqNo + 1
  /\ UNCHANGED <<iv, message, pdu>>

\* onIvUpdated: the segmented message goes on
OnIvUpdated ==
  /\ iv < MaxIv
  /\ iv' = iv + 1 /\ seqNo' = 0
  /\ UNCHANGED <<message, pdu>>

NumbersNext ==
  \/ CreateSegmentedAccessMessage \/ ResendSegmentedMessages
  \/ CreateNetworkPdu \/ OnIvUpdated

NumbersSpec == NumbersInit /\ [][NumbersNext]_numbers

-----------------------------------------------------------------------------
(* Properties *)

\* The numbers fit their fields.
NumbersOK ==
  /\ iv \in 0 .. MaxIv /\ seqNo \in 0 .. SeqSize - 1
  /\ message \in [iv : 0 .. MaxIv, first : 0 .. SeqSize - 1]
  /\ pdu \in [iv : 0 .. MaxIv, seq : 0 .. SeqSize - 1, seqZero : 0 .. SeqZeroSize - 1]

PduAuth == SeqAuth(pdu.iv, TransportSeqNo(pdu.seq, pdu.seqZero))
MessageAuth == SeqAuth(message.iv, message.first)

\* "check blockAck value, if segmented message missing, resend": the receiver finds
\* that every segment, resent or not, belongs to the message being sent.
SegmentsNameTheirMessage == PduAuth = MessageAuth

\* The same as long as the IV index is the one the message was created with: the
\* receiver assembles the message however late, and across a multiple of SeqZeroSize,
\* a segment is sent again.
SegmentsNameTheirMessageInIv == pdu.iv = message.iv => SegmentsNameTheirMessage
=============================================================================
