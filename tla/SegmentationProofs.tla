------------------------- MODULE SegmentationProofs -------------------------
(***************************************************************************)
(* Proofs about the two modules on segmented messages.                     *)
(*                                                                         *)
(* SegmentNumbers, for every size of SeqZero and of the sequence numbers:  *)
(* the receiver computes the number of the first segment from any segment  *)
(* less than SeqZeroSize numbers later.                                    *)
(*                                                                         *)
(* SegmentedRx, for any sources and messages, the two threads cut at every *)
(* access to what they share: the reassembly buffer never mixes messages,  *)
(* a block ack is truthful, a message that is acknowledged as a whole has  *)
(* been passed on unless clear() or the timeout hit it, only a message     *)
(* that comes while another is being received is refused, and a reception  *)
(* ends.                                                                   *)
(***************************************************************************)
EXTENDS SegmentNumbers, SegmentedRx, FiniteSetTheorems, WellFoundedInduction, TLAPS

-----------------------------------------------------------------------------
(* SegmentNumbers: arithmetic *)

\* A number is its block and its place in the block.
LEMMA Split ==
  ASSUME NEW n \in Nat
  PROVE  \E q \in Nat : /\ n = SeqZeroSize * q + (n % SeqZeroSize)
                        /\ (n % SeqZeroSize) \in 0 .. SeqZeroSize - 1
<1>1. /\ n \div SeqZeroSize \in Nat
      /\ n = SeqZeroSize * (n \div SeqZeroSize) + (n % SeqZeroSize)
      /\ (n % SeqZeroSize) \in 0 .. SeqZeroSize - 1
  BY SegmentNumbersAssumption
<1> QED
  BY <1>1

\* Block and place are unique.
LEMMA Unique ==
  ASSUME NEW q \in Nat, NEW r \in 0 .. SeqZeroSize - 1
  PROVE  (SeqZeroSize * q + r) % SeqZeroSize = r
<1> DEFINE n == SeqZeroSize * q + r
<1>1. SeqZeroSize * q \in Nat /\ n \in Nat
  BY SegmentNumbersAssumption
<1>2. PICK p \in Nat : /\ n = SeqZeroSize * p + (n % SeqZeroSize)
                       /\ (n % SeqZeroSize) \in 0 .. SeqZeroSize - 1
  BY <1>1, Split
<1> DEFINE s == n % SeqZeroSize
<1> HIDE DEF s
<1>3. /\ s \in 0 .. SeqZeroSize - 1
      /\ SeqZeroSize * q + r = SeqZeroSize * p + s
  BY <1>2 DEF s
<1>4. SeqZeroSize * p \in Nat
  BY SegmentNumbersAssumption
<1>5. CASE p < q
  <2>1. SeqZeroSize * (q - p - 1) >= 0
    BY <1>5, SegmentNumbersAssumption
  <2>2. SeqZeroSize * (q - p - 1) = SeqZeroSize * q - SeqZeroSize * p - SeqZeroSize
    BY SegmentNumbersAssumption
  <2> QED
    BY <2>1, <2>2, <1>1, <1>3, <1>4, SegmentNumbersAssumption
<1>6. CASE q < p
  <2>1. SeqZeroSize * (p - q - 1) >= 0
    BY <1>6, SegmentNumbersAssumption
  <2>2. SeqZeroSize * (p - q - 1) = SeqZeroSize * p - SeqZeroSize * q - SeqZeroSize
    BY SegmentNumbersAssumption
  <2> QED
    BY <2>1, <2>2, <1>1, <1>3, <1>4, SegmentNumbersAssumption
<1>7. CASE p = q
  BY <1>7, <1>3, <1>1, SegmentNumbersAssumption DEF s
<1> QED
  BY <1>5, <1>6, <1>7

\* The mask keeps the block of a sequence number.
LEMMA HigherBitsOfBlock ==
  ASSUME NEW q \in Nat, NEW r \in 0 .. SeqZeroSize - 1,
         SeqZeroSize * q + r < SeqSize
  PROVE  HigherBits(SeqZeroSize * q + r) = SeqZeroSize * q
<1> DEFINE n == SeqZeroSize * q + r
<1>1. SeqZeroSize * q \in Nat /\ n \in Nat /\ n < SeqSize
  BY SegmentNumbersAssumption
<1>2. n % SeqZeroSize = r
  BY Unique
<1> HIDE DEF n
<1>3. n % SeqSize = n
  BY <1>1, SegmentNumbersAssumption
<1>4. HigherBits(n) = n - r
  BY <1>2, <1>3 DEF HigherBits
<1> QED
  BY <1>4, <1>1, SegmentNumbersAssumption DEF n

\* What transportSeqNo computes from a segment less than SeqZeroSize numbers after
\* the first one.
THEOREM TransportSeqNoCorrect ==
  ASSUME NEW first \in Nat, NEW seq \in Nat,
         first <= seq, seq < first + SeqZeroSize, seq < SeqSize
  PROVE  TransportSeqNo(seq, first % SeqZeroSize) = first
<1> DEFINE r == first % SeqZeroSize
<1>1. PICK q \in Nat : first = SeqZeroSize * q + r /\ r \in 0 .. SeqZeroSize - 1
  BY Split
<1> DEFINE d == seq - first
           block == SeqZeroSize * q
<1>2. block \in Nat /\ SeqZeroSize * (q + 1) = block + SeqZeroSize
  BY SegmentNumbersAssumption
<1>3. first = block + r /\ r \in 0 .. SeqZeroSize - 1
  BY <1>1
<1> HIDE DEF r
<1>4. CASE r + d < SeqZeroSize
  <2>1. seq = SeqZeroSize * q + (r + d) /\ r + d \in 0 .. SeqZeroSize - 1
    BY <1>4, <1>2, <1>3, SegmentNumbersAssumption
  <2>2. seq % SeqZeroSize = r + d
    BY <2>1, Unique
  <2>3. HigherBits(seq) = block
    BY <2>1, HigherBitsOfBlock
  <2>4. ~(seq % SeqZeroSize < r)
    BY <2>2, <1>3, SegmentNumbersAssumption
  <2>5. TransportSeqNo(seq, r) = block + r
    BY <2>3, <2>4 DEF TransportSeqNo
  <2> QED
    BY <2>5, <1>3 DEF r
<1>5. CASE r + d >= SeqZeroSize
  <2> DEFINE low == r + d - SeqZeroSize
  <2>1. low \in 0 .. SeqZeroSize - 1 /\ low < r
    BY <1>5, <1>3, SegmentNumbersAssumption
  <2>2. seq = SeqZeroSize * (q + 1) + low
    BY <1>2, <1>3, SegmentNumbersAssumption
  <2>3. seq % SeqZeroSize = low
    BY <2>1, <2>2, Unique
  <2>4. seq - SeqZeroSize = SeqZeroSize * q + low /\ seq - SeqZeroSize < SeqSize
    BY <1>2, <2>2, <2>1, SegmentNumbersAssumption
  <2>5. HigherBits(seq - SeqZeroSize) = block
    BY <2>4, <2>1, HigherBitsOfBlock
  <2>6. TransportSeqNo(seq, r) = block + r
    BY <2>1, <2>3, <2>5 DEF TransportSeqNo
  <2> QED
    BY <2>6, <1>3 DEF r
<1>6. r + d \in Int
  BY <1>3, SegmentNumbersAssumption
<1> QED
  BY <1>4, <1>5, <1>6, SegmentNumbersAssumption

-----------------------------------------------------------------------------
(* SegmentNumbers: the specification *)

\* A segment in the IV index of its message is not too late, and carries the low
\* bits of its number.
InWindow ==
  pdu.iv = message.iv =>
    /\ message.first <= pdu.seq /\ pdu.seq < message.first + SeqZeroSize
    /\ pdu.seqZero = message.first % SeqZeroSize

\* Numbers of the current IV index grow: the message is older than what comes next.
FirstBelowNext == message.iv <= iv /\ (message.iv = iv => message.first < seqNo)

NumbersInv == NumbersOK /\ InWindow /\ FirstBelowNext

\* SeqZero is the place of a number in its block.
LEMMA PlaceInBlock ==
  ASSUME NEW n \in Nat
  PROVE  n % SeqZeroSize \in 0 .. SeqZeroSize - 1
BY Split

\* A new segment fits its fields.
LEMMA SegmentType ==
  ASSUME NEW i \in 0 .. MaxIv, NEW seq \in 0 .. SeqSize - 1, NEW first \in 0 .. SeqSize - 1
  PROVE  Segment(i, seq, first) \in
           [iv : 0 .. MaxIv, seq : 0 .. SeqSize - 1, seqZero : 0 .. SeqZeroSize - 1]
BY PlaceInBlock, SegmentNumbersAssumption DEF Segment

\* The invariant holds initially.
LEMMA NumbersInvInit == NumbersInit => NumbersInv
<1> SUFFICES ASSUME NumbersInit PROVE NumbersInv
  OBVIOUS
<1>1. /\ iv \in 0 .. MaxIv /\ seqNo \in 1 .. SeqSize - 1
      /\ message = [iv |-> iv, first |-> seqNo - 1]
      /\ pdu = Segment(iv, seqNo - 1, seqNo - 1)
  BY DEF NumbersInit
<1>2. seqNo - 1 \in 0 .. SeqSize - 1 /\ seqNo \in 0 .. SeqSize - 1
  BY <1>1, SegmentNumbersAssumption
<1>3. NumbersOK
  BY <1>1, <1>2, SegmentType DEF NumbersOK
<1>4. InWindow
  BY <1>1, <1>2, SegmentNumbersAssumption DEF InWindow, Segment
<1>5. FirstBelowNext
  BY <1>1, <1>2, SegmentNumbersAssumption DEF FirstBelowNext
<1> QED
  BY <1>3, <1>4, <1>5 DEF NumbersInv

\* Every step keeps it.
LEMMA NumbersInvStep == NumbersInv /\ [NumbersNext]_numbers => NumbersInv'
<1> SUFFICES ASSUME NumbersInv, [NumbersNext]_numbers PROVE NumbersInv'
  OBVIOUS
<1> USE SegmentNumbersAssumption
<1>0. /\ iv \in 0 .. MaxIv /\ seqNo \in 0 .. SeqSize - 1
      /\ message \in [iv : 0 .. MaxIv, first : 0 .. SeqSize - 1]
      /\ pdu \in [iv : 0 .. MaxIv, seq : 0 .. SeqSize - 1, seqZero : 0 .. SeqZeroSize - 1]
      /\ InWindow /\ FirstBelowNext
  BY DEF NumbersInv, NumbersOK
<1>1. CASE CreateSegmentedAccessMessage
  <2>1. PICK segN \in 0 .. MaxSegN, segO \in 0 .. MaxSegN :
          /\ segO <= segN /\ seqNo + segN + 1 < SeqSize
          /\ message' = [iv |-> iv, first |-> seqNo]
          /\ seqNo' = seqNo + segN + 1
          /\ pdu' = Segment(iv, seqNo + segO, seqNo)
          /\ iv' = iv
    BY <1>1 DEF CreateSegmentedAccessMessage
  <2>2. seqNo + segO \in 0 .. SeqSize - 1 /\ seqNo' \in 0 .. SeqSize - 1
    BY <2>1, <1>0
  <2>3. NumbersOK'
    BY <2>1, <2>2, <1>0, SegmentType DEF NumbersOK
  <2>4. InWindow'
    BY <2>1, <1>0 DEF InWindow, Segment
  <2>5. FirstBelowNext'
    BY <2>1, <1>0 DEF FirstBelowNext
  <2> QED
    BY <2>3, <2>4, <2>5 DEF NumbersInv
<1>2. CASE ResendSegmentedMessages
  <2>1. /\ seqNo + 1 < SeqSize
        /\ iv = message.iv => seqNo < message.first + SeqZeroSize
        /\ seqNo' = seqNo + 1
        /\ pdu' = Segment(iv, seqNo, message.first)
        /\ iv' = iv /\ message' = message
    BY <1>2 DEF ResendSegmentedMessages
  <2>2. seqNo' \in 0 .. SeqSize - 1
    BY <2>1, <1>0
  <2>3. NumbersOK'
    BY <2>1, <2>2, <1>0, SegmentType DEF NumbersOK
  <2>4. InWindow'
    BY <2>1, <1>0 DEF InWindow, FirstBelowNext, Segment
  <2>5. FirstBelowNext'
    BY <2>1, <1>0 DEF FirstBelowNext
  <2> QED
    BY <2>3, <2>4, <2>5 DEF NumbersInv
<1>3. CASE CreateNetworkPdu
  BY <1>3, <1>0 DEF CreateNetworkPdu, NumbersInv, NumbersOK, InWindow, FirstBelowNext
<1>4. CASE OnIvUpdated
  BY <1>4, <1>0 DEF OnIvUpdated, NumbersInv, NumbersOK, InWindow, FirstBelowNext
<1>5. CASE UNCHANGED numbers
  BY <1>5, <1>0 DEF numbers, NumbersInv, NumbersOK, InWindow, FirstBelowNext
<1> QED
  BY <1>1, <1>2, <1>3, <1>4, <1>5 DEF NumbersNext

\* A segment in the window names its message.
LEMMA WindowNames == NumbersInv => SegmentsNameTheirMessageInIv
<1> SUFFICES ASSUME NumbersInv, pdu.iv = message.iv PROVE PduAuth = MessageAuth
  BY DEF SegmentsNameTheirMessageInIv, SegmentsNameTheirMessage
<1>1. /\ message.first \in Nat /\ pdu.seq \in Nat /\ pdu.seq < SeqSize
      /\ message.first <= pdu.seq /\ pdu.seq < message.first + SeqZeroSize
      /\ pdu.seqZero = message.first % SeqZeroSize
  BY SegmentNumbersAssumption DEF NumbersInv, NumbersOK, InWindow
<1>2. TransportSeqNo(pdu.seq, pdu.seqZero) = message.first
  BY <1>1, TransportSeqNoCorrect
<1> QED
  BY <1>2 DEF PduAuth, MessageAuth

\* The numbers always fit their fields.
THEOREM NumbersFit == NumbersSpec => []NumbersOK
<1>1. NumbersInv => NumbersOK
  BY DEF NumbersInv
<1> QED
  BY <1>1, NumbersInvInit, NumbersInvStep, PTL DEF NumbersSpec

\* As long as the IV index does not change under a segmented message, the receiver
\* finds for every segment, however often it is sent again, the message it is of.
THEOREM SegmentsNamed == NumbersSpec => []SegmentsNameTheirMessageInIv
BY NumbersInvInit, NumbersInvStep, WindowNames, PTL DEF NumbersSpec

-----------------------------------------------------------------------------
(* SegmentedRx: the inductive invariant *)

Last == <<lastSegSrc, lastSeqAuth>>
Named == lastSegSrc # 0 /\ lastSeqAuth # 0
At(labels) == pc[Gatt] \in labels

\* What the handler of a segment is at: the message before is still the last one, or
\* is being replaced; the segment is put to the others; all have arrived.
Begun == {"readSrc", "save", "open"}
Renaming == {"setAuth", "setSrc", "empty"}
Filling == {"put", "size", "keepAuth", "check"}
Ending == {"close", "checkNow", "deliver"}

\* what a source may conclude from the ack of the whole message
Passed(m) == m \in delivered \/ m \in Undecryptable \/ m \in interrupted

\* every segment has arrived
Whole(m) == received[m] = Segments(m) \/ m \in interrupted

Complete(m) == Passed(m) /\ Whole(m)

\* the buffer holds one message, the one that has the name when a segment comes, or the
\* one that the handler of the segment is at
OneOK ==
  /\ \A m, n \in InBuffer : m = n
  /\ At({"idle", "setAuth"} \cup Begun) /\ Named => \A m \in InBuffer : m = Last
  /\ At(Filling \cup Ending) => \A m \in InBuffer : m = segment.msg
  /\ At({"setSrc"}) => lastSeqAuth \in {0, segment.msg[2]}
  /\ At({"empty"} \cup Filling \cup Ending)
       => lastSeqAuth \in {0, segment.msg[2]} /\ lastSegSrc \in {0, segment.msg[1]}

\* what is in the buffer has arrived, and a full buffer has been passed on or is in the
\* hands of the handler
BufferOK ==
  /\ ~Idle(Gatt) => segment.segO \in received[segment.msg]
  /\ \A o \in DOMAIN buffer :
       /\ o \in received[buffer[o]]
       /\ DOMAIN buffer = Segments(buffer[o]) => Passed(buffer[o]) \/ At({"size"} \cup Ending)

\* the source that an ack of the buffer goes to
SourceOK ==
  /\ ~unnamed => \A m \in InBuffer : m[1] = ackSrc
  /\ unnamed => At(Filling \cup {"close", "checkNow"})
  /\ At({"idle"}) => lastSegSrc \in {0, ackSrc}
  /\ At(Filling \cup Ending) /\ ~unnamed => ackSrc = segment.msg[1]
  /\ pc[Handler] = "clone" /\ ~overtaken => src = ackSrc /\ ~unnamed

\* where lastSegComplete tells that the last message, or the one at hand, is complete
LastOK ==
  /\ At({"idle"}) /\ lastSegComplete /\ Named => Complete(Last) \/ pc[Handler] = "forgetSrc"
  /\ At({"readSrc"}) /\ Named => Complete(Last)
  /\ At({"save"}) /\ segment.src # 0 /\ lastSeqAuth # 0 => Complete(<<segment.src, lastSeqAuth>>)
  /\ At(Renaming \cup Filling) /\ lastSegComplete => Complete(segment.msg)
  /\ At(Ending) => /\ Whole(segment.msg)
                   /\ DOMAIN buffer = Segments(segment.msg) \/ segment.msg \in interrupted
  /\ At({"checkNow", "deliver"}) => lastSegComplete
  /\ At({"idle", "size", "keepAuth", "check"}) /\ ~lastSegComplete => DOMAIN buffer # {}
  /\ pc[Handler] \in Forgetting /\ ~Idle(Gatt) => segment.msg \in interrupted

CompletedOK == \A m \in Messages : completed[m[1]] = m[2] => Complete(m)

AckOK ==
  ack # NoAck =>
    /\ ack.dst = ack.msg[1] \/ ack.overtaken
    /\ ack.block \subseteq received[ack.msg] \/ ack.msg \in interrupted
    /\ ack.block = Segments(ack.msg)
         => Passed(ack.msg) \/ (At({"size"} \cup Ending) /\ segment.msg = ack.msg)

RxInv == TypeOK /\ OneOK /\ BufferOK /\ SourceOK /\ LastOK /\ CompletedOK /\ AckOK

\* The message of the segment at hand.
LEMMA NameType ==
  ASSUME TypeOK, ~Idle(Gatt)
  PROVE  /\ segment.msg \in Messages /\ segment.msg = <<segment.msg[1], segment.msg[2]>>
         /\ segment.msg[1] \in Sources /\ segment.msg[2] \in SeqAuths
         /\ segment.msg[1] # 0 /\ segment.msg[2] # 0
BY SegmentedRxAssumption DEF TypeOK, Messages

\* A set of segments of a message is the whole message when it has as many
\* elements.
LEMMA FullMeansAll ==
  ASSUME NEW m \in Messages, NEW D \in SUBSET Segments(m)
  PROVE  (Cardinality(D) = SegN[m] + 1) <=> (D = Segments(m))
<1>1. SegN[m] \in Nat
  BY SegmentedRxAssumption
<1>2. IsFiniteSet(Segments(m)) /\ Cardinality(Segments(m)) = SegN[m] + 1
  BY <1>1, FS_Interval DEF Segments
<1>3. Cardinality(D) = Cardinality(Segments(m)) => D = Segments(m)
  BY <1>2, FS_Subset
<1> QED
  BY <1>2, <1>3

\* Numbers are well-ordered, so the smallest segment number in the buffer exists.
LEMMA SmallestElement ==
  ASSUME NEW T \in SUBSET Nat, T # {}
  PROVE  \E o \in T : \A p \in T : o <= p
<1> DEFINE R == {ss \in Nat \X Nat : ss[1] < ss[2]}
<1>1. R = OpToRel(<, Nat)
  BY DEF OpToRel
<1>2. IsWellFoundedOn(R, Nat)
  BY <1>1, NatLessThanWellFounded
<1>3. PICK o \in T : \A p \in T : <<p, o>> \notin R
  <2> HIDE DEF R
  <2> QED
    BY <1>2, WFMin
<1>4. ASSUME NEW p \in T PROVE o <= p
  <2>1. p \in Nat /\ o \in Nat /\ <<p, o>> \in Nat \X Nat
    OBVIOUS
  <2>2. p < o => <<p, o>> \in R
    BY <2>1
  <2> QED
    BY <2>1, <2>2, <1>3
<1> QED
  BY <1>3, <1>4

\* A buffer that is not empty holds segments of one message, which Buffer0 is.
LEMMA Buffer0Type ==
  ASSUME RxInv, DOMAIN buffer # {}
  PROVE  /\ Buffer0 \in InBuffer /\ DOMAIN buffer \subseteq received[Buffer0]
         /\ DOMAIN buffer = Segments(Buffer0) => Passed(Buffer0) \/ At({"size"} \cup Ending)
<1> DEFINE o == CHOOSE o \in DOMAIN buffer : \A p \in DOMAIN buffer : o <= p
<1>1. DOMAIN buffer \in SUBSET Nat
  BY DEF RxInv, BufferOK, TypeOK, InBuffer
<1>2. o \in DOMAIN buffer
  BY <1>1, SmallestElement
<1>3. Buffer0 = buffer[o]
  BY DEF Buffer0
<1> HIDE DEF o
<1>4. \A p \in DOMAIN buffer : buffer[p] = Buffer0
  BY <1>2, <1>3 DEF RxInv, OneOK, InBuffer
<1> QED
  BY <1>2, <1>3, <1>4 DEF RxInv, BufferOK, InBuffer

\* The sender of the message before is read.
LEMMA ReadLastSegSrcStep ==
  ASSUME RxInv, ReadLastSegSrc
  PROVE  RxInv'
<1>1. /\ pc[Gatt] = "readSrc" /\ pc' = [pc EXCEPT ![Gatt] = "save"] /\ ack' = NoAck
      /\ segment'.msg = segment.msg /\ segment'.segO = segment.segO /\ segment'.src = lastSegSrc
      /\ segment' = [segment EXCEPT !.src = lastSegSrc]
      /\ UNCHANGED <<lastSeqAuth, lastSegSrc, lastSegComplete, completed, busy, buffer,
                     timers, ackSrc, src, current, pdus, received, delivered, interrupted,
                        unnamed, overtaken>>
  BY DEF ReadLastSegSrc, Become, Silent, last, history, RxInv, TypeOK
<1>2. pc'[Gatt] = "save" /\ pc'[Handler] = pc[Handler]
  BY <1>1, SegmentedRxAssumption DEF RxInv, TypeOK, Threads
<1>3. TypeOK'
  BY <1>1, <1>2, NameType DEF RxInv, TypeOK, Idle, ParseLabels, TaskLabels, Forgetting,
                              InBuffer, Segments, Threads, NoSegment
<1>4. OneOK' /\ SourceOK'
  BY <1>1, <1>2 DEF RxInv, OneOK, SourceOK, Named, Last, InBuffer, NoSegment, At, Begun,
                    Renaming, Filling, Ending
<1>5. BufferOK' /\ CompletedOK'
  BY <1>1, <1>2 DEF RxInv, BufferOK, CompletedOK, Complete, Passed, Whole, Segments, Idle, At,
                    Begun, Renaming, Filling, Ending
<1>6. LastOK'
  BY <1>1, <1>2 DEF RxInv, LastOK, Named, Last, Complete, Passed, Whole, Segments, Idle,
                    Forgetting, At, Begun, Renaming, Filling, Ending
<1> QED
  BY <1>1, <1>3, <1>4, <1>5, <1>6 DEF RxInv, AckOK

\* The message before is recorded as complete.
LEMMA SaveStep ==
  ASSUME RxInv, SaveCompletedSeqAuth
  PROVE  RxInv'
<1>1. /\ pc[Gatt] = "save" /\ pc' = [pc EXCEPT ![Gatt] = "open"] /\ ack' = NoAck
      /\ completed' = [completed EXCEPT ![segment.src] = lastSeqAuth]
      /\ UNCHANGED <<lastSeqAuth, lastSegSrc, lastSegComplete, busy, buffer, timers, ackSrc,
                     segment, src, current, pdus, received, delivered, interrupted, unnamed,
                        overtaken>>
  BY DEF SaveCompletedSeqAuth, Become, Silent, last, history, RxInv, TypeOK
<1>2. pc'[Gatt] = "open" /\ pc'[Handler] = pc[Handler]
  BY <1>1, SegmentedRxAssumption DEF RxInv, TypeOK, Threads
<1>3. TypeOK'
  BY <1>1, <1>2, NameType DEF RxInv, TypeOK, Idle, ParseLabels, TaskLabels, Forgetting,
                              InBuffer, Segments, Threads, NoSegment
<1>4. OneOK' /\ SourceOK'
  BY <1>1, <1>2 DEF RxInv, OneOK, SourceOK, Named, Last, InBuffer, NoSegment, At, Begun,
                    Renaming, Filling, Ending
<1>5. BufferOK' /\ CompletedOK'
  <2>1. BufferOK'
    BY <1>1, <1>2 DEF RxInv, BufferOK, Passed, Segments, Idle, NoSegment, At, Ending
  <2>2. \A m \in Messages : (Complete(m) => Complete(m)')
    BY <1>1 DEF Complete, Passed, Whole, Segments
  <2>3. segment.src # 0 /\ lastSeqAuth # 0 => Complete(<<segment.src, lastSeqAuth>>)
    BY <1>1 DEF RxInv, LastOK, At
  <2>4. completed \in [Sources \cup {0} -> SeqAuths \cup {0}] /\ segment.src \in Sources \cup {0}
    BY <1>1 DEF RxInv, TypeOK, Idle
  <2>5. ASSUME NEW m \in Messages, completed'[m[1]] = m[2] PROVE Complete(m)
    <3>1. m[1] \in Sources /\ m[1] # 0 /\ m[2] # 0 /\ m = <<m[1], m[2]>>
      BY SegmentedRxAssumption DEF Messages
    <3>2. CASE m[1] = segment.src
      BY <1>1, <2>3, <2>4, <2>5, <3>1, <3>2
    <3>3. CASE m[1] # segment.src
      BY <1>1, <2>4, <2>5, <3>1, <3>3 DEF RxInv, CompletedOK
    <3> QED
      BY <3>2, <3>3
  <2> QED
    BY <2>1, <2>2, <2>5 DEF CompletedOK
<1>6. LastOK'
  BY <1>1, <1>2 DEF RxInv, LastOK, Named, Last, Complete, Passed, Whole, Segments, Idle,
                    Forgetting, At, Begun, Renaming, Filling, Ending
<1> QED
  BY <1>1, <1>3, <1>4, <1>5, <1>6 DEF RxInv, AckOK

\* The buffer is reserved.
LEMMA OpenStep ==
  ASSUME RxInv, Open
  PROVE  RxInv'
<1>1. /\ pc[Gatt] = "open" /\ pc' = [pc EXCEPT ![Gatt] = "setAuth"] /\ ack' = NoAck
      /\ lastSegComplete' = FALSE
      /\ UNCHANGED <<lastSeqAuth, lastSegSrc, completed, busy, buffer, timers, ackSrc,
                     segment, src, current, pdus, received, delivered, interrupted, unnamed,
                        overtaken>>
  BY DEF Open, Become, Silent, last, history, RxInv, TypeOK
<1>2. pc'[Gatt] = "setAuth" /\ pc'[Handler] = pc[Handler]
  BY <1>1, SegmentedRxAssumption DEF RxInv, TypeOK, Threads
<1>3. TypeOK'
  BY <1>1, <1>2, NameType DEF RxInv, TypeOK, Idle, ParseLabels, TaskLabels, Forgetting,
                              InBuffer, Segments, Threads, NoSegment
<1>4. OneOK' /\ SourceOK'
  BY <1>1, <1>2 DEF RxInv, OneOK, SourceOK, Named, Last, InBuffer, NoSegment, At, Begun,
                    Renaming, Filling, Ending
<1>5. BufferOK' /\ CompletedOK'
  BY <1>1, <1>2 DEF RxInv, BufferOK, CompletedOK, Complete, Passed, Whole, Segments, Idle, At,
                    Begun, Renaming, Filling, Ending
<1>6. LastOK'
  BY <1>1, <1>2 DEF RxInv, LastOK, Named, Last, Complete, Passed, Whole, Segments, Idle,
                    Forgetting, At, Begun, Renaming, Filling, Ending
<1> QED
  BY <1>1, <1>3, <1>4, <1>5, <1>6 DEF RxInv, AckOK

\* The new name, first half.
LEMMA SetAuthStep ==
  ASSUME RxInv, SetAuth
  PROVE  RxInv'
<1>1. /\ pc[Gatt] = "setAuth" /\ pc' = [pc EXCEPT ![Gatt] = "setSrc"] /\ ack' = NoAck
      /\ lastSeqAuth' = segment.msg[2]
      /\ UNCHANGED <<lastSegSrc, lastSegComplete, completed, busy, buffer, timers, ackSrc,
                     segment, src, current, pdus, received, delivered, interrupted, unnamed,
                        overtaken>>
  BY DEF SetAuth, Become, Silent, last, history, RxInv, TypeOK
<1>2. pc'[Gatt] = "setSrc" /\ pc'[Handler] = pc[Handler]
  BY <1>1, SegmentedRxAssumption DEF RxInv, TypeOK, Threads
<1>3. TypeOK'
  BY <1>1, <1>2, NameType DEF RxInv, TypeOK, Idle, ParseLabels, TaskLabels, Forgetting,
                              InBuffer, Segments, Threads, NoSegment
<1>4. OneOK' /\ SourceOK'
  BY <1>1, <1>2 DEF RxInv, OneOK, SourceOK, Named, Last, InBuffer, NoSegment, At, Begun,
                    Renaming, Filling, Ending
<1>5. BufferOK' /\ CompletedOK'
  BY <1>1, <1>2 DEF RxInv, BufferOK, CompletedOK, Complete, Passed, Whole, Segments, Idle, At,
                    Begun, Renaming, Filling, Ending
<1>6. LastOK'
  BY <1>1, <1>2 DEF RxInv, LastOK, Named, Last, Complete, Passed, Whole, Segments, Idle,
                    Forgetting, At, Begun, Renaming, Filling, Ending
<1> QED
  BY <1>1, <1>3, <1>4, <1>5, <1>6 DEF RxInv, AckOK

\* The new name, second half.
LEMMA SetSrcStep ==
  ASSUME RxInv, SetSrc
  PROVE  RxInv'
<1>1. /\ pc[Gatt] = "setSrc" /\ pc' = [pc EXCEPT ![Gatt] = "empty"] /\ ack' = NoAck
      /\ lastSegSrc' = segment.msg[1]
      /\ UNCHANGED <<lastSeqAuth, lastSegComplete, completed, busy, buffer, timers, ackSrc,
                     segment, src, current, pdus, received, delivered, interrupted, unnamed,
                        overtaken>>
  BY DEF SetSrc, Become, Silent, last, history, RxInv, TypeOK
<1>2. pc'[Gatt] = "empty" /\ pc'[Handler] = pc[Handler]
  BY <1>1, SegmentedRxAssumption DEF RxInv, TypeOK, Threads
<1>3. TypeOK'
  BY <1>1, <1>2, NameType DEF RxInv, TypeOK, Idle, ParseLabels, TaskLabels, Forgetting,
                              InBuffer, Segments, Threads, NoSegment
<1>4. OneOK' /\ SourceOK'
  BY <1>1, <1>2 DEF RxInv, OneOK, SourceOK, Named, Last, InBuffer, NoSegment, At, Begun,
                    Renaming, Filling, Ending
<1>5. BufferOK' /\ CompletedOK'
  BY <1>1, <1>2 DEF RxInv, BufferOK, CompletedOK, Complete, Passed, Whole, Segments, Idle, At,
                    Begun, Renaming, Filling, Ending
<1>6. LastOK'
  BY <1>1, <1>2 DEF RxInv, LastOK, Named, Last, Complete, Passed, Whole, Segments, Idle,
                    Forgetting, At, Begun, Renaming, Filling, Ending
<1> QED
  BY <1>1, <1>3, <1>4, <1>5, <1>6 DEF RxInv, AckOK

\* The buffer is emptied; the ack task still has the former source.
LEMMA EmptyStep ==
  ASSUME RxInv, Empty
  PROVE  RxInv'
<1>1. /\ pc[Gatt] = "empty" /\ pc' = [pc EXCEPT ![Gatt] = "put"] /\ ack' = NoAck
      /\ buffer' = <<>> /\ unnamed' = TRUE /\ overtaken' \in BOOLEAN
      /\ (pc[Handler] = "clone" => overtaken' = TRUE)
      /\ UNCHANGED <<lastSeqAuth, lastSegSrc, lastSegComplete, completed, busy, timers,
                     ackSrc, segment, src, current, pdus, received, delivered, interrupted>>
  BY DEF Empty, Become, Silent, last, history, RxInv, TypeOK
<1>2. pc'[Gatt] = "put" /\ pc'[Handler] = pc[Handler]
  BY <1>1, SegmentedRxAssumption DEF RxInv, TypeOK, Threads
<1>3. TypeOK'
  BY <1>1, <1>2, NameType DEF RxInv, TypeOK, Idle, ParseLabels, TaskLabels, Forgetting,
                              InBuffer, Segments, Threads, NoSegment
<1>4. OneOK' /\ SourceOK'
  BY <1>1, <1>2 DEF RxInv, OneOK, SourceOK, Named, Last, InBuffer, NoSegment, At, Begun,
                    Renaming, Filling, Ending
<1>5. BufferOK' /\ CompletedOK'
  BY <1>1, <1>2 DEF RxInv, BufferOK, CompletedOK, Complete, Passed, Whole, Segments, Idle, At,
                    Begun, Renaming, Filling, Ending
<1>6. LastOK'
  BY <1>1, <1>2 DEF RxInv, LastOK, Named, Last, Complete, Passed, Whole, Segments, Idle,
                    Forgetting, At, Begun, Renaming, Filling, Ending
<1> QED
  BY <1>1, <1>3, <1>4, <1>5, <1>6 DEF RxInv, AckOK

\* The name is set again.
LEMMA KeepAuthStep ==
  ASSUME RxInv, KeepAuth
  PROVE  RxInv'
<1>1. /\ pc[Gatt] = "keepAuth" /\ pc' = [pc EXCEPT ![Gatt] = "check"] /\ ack' = NoAck
      /\ lastSeqAuth' = segment.msg[2]
      /\ UNCHANGED <<lastSegSrc, lastSegComplete, completed, busy, buffer, timers, ackSrc,
                     segment, src, current, pdus, received, delivered, interrupted, unnamed,
                        overtaken>>
  BY DEF KeepAuth, Become, Silent, last, history, RxInv, TypeOK
<1>2. pc'[Gatt] = "check" /\ pc'[Handler] = pc[Handler]
  BY <1>1, SegmentedRxAssumption DEF RxInv, TypeOK, Threads
<1>3. TypeOK'
  BY <1>1, <1>2, NameType DEF RxInv, TypeOK, Idle, ParseLabels, TaskLabels, Forgetting,
                              InBuffer, Segments, Threads, NoSegment
<1>4. OneOK' /\ SourceOK'
  BY <1>1, <1>2 DEF RxInv, OneOK, SourceOK, Named, Last, InBuffer, NoSegment, At, Begun,
                    Renaming, Filling, Ending
<1>5. BufferOK' /\ CompletedOK'
  BY <1>1, <1>2 DEF RxInv, BufferOK, CompletedOK, Complete, Passed, Whole, Segments, Idle, At,
                    Begun, Renaming, Filling, Ending
<1>6. LastOK'
  BY <1>1, <1>2 DEF RxInv, LastOK, Named, Last, Complete, Passed, Whole, Segments, Idle,
                    Forgetting, At, Begun, Renaming, Filling, Ending
<1> QED
  BY <1>1, <1>3, <1>4, <1>5, <1>6 DEF RxInv, AckOK

\* The ack task gets the new source.
LEMMA CheckStep ==
  ASSUME RxInv, Check
  PROVE  RxInv'
<1>1. /\ pc[Gatt] = "check" /\ pc' = [pc EXCEPT ![Gatt] = "idle"] /\ ack' = NoAck
      /\ ackSrc' = segment.msg[1] /\ unnamed' = FALSE /\ timers' = Tasks /\ segment' = NoSegment
      /\ UNCHANGED <<lastSeqAuth, lastSegSrc, lastSegComplete, completed, busy, buffer, src,
                     current, pdus, received, delivered, interrupted, overtaken>>
  BY DEF Check, Become, Silent, last, history, RxInv, TypeOK, CheckSegmentBlock, Tasks
<1>2. pc'[Gatt] = "idle" /\ pc'[Handler] = pc[Handler]
  BY <1>1, SegmentedRxAssumption DEF RxInv, TypeOK, Threads
<1>3. TypeOK'
  BY <1>1, <1>2, NameType DEF RxInv, TypeOK, Idle, ParseLabels, TaskLabels, Forgetting,
                              InBuffer, Segments, Threads, NoSegment
<1>4. OneOK' /\ SourceOK'
  BY <1>1, <1>2, NameType DEF Idle, RxInv, OneOK, SourceOK, Named, Last, InBuffer, NoSegment,
                              At, Begun, Renaming, Filling, Ending
<1>5. BufferOK' /\ CompletedOK'
  BY <1>1, <1>2 DEF RxInv, BufferOK, CompletedOK, Complete, Passed, Whole, Segments, Idle, At,
                    Begun, Renaming, Filling, Ending
<1>6. LastOK'
  BY <1>1, <1>2, NameType DEF OneOK, RxInv, LastOK, Named, Last, Complete, Passed, Whole,
                              Segments, Idle, Forgetting, At, Begun, Renaming, Filling, Ending
<1> QED
  BY <1>1, <1>3, <1>4, <1>5, <1>6 DEF RxInv, AckOK

\* The message is complete.
LEMMA CloseStep ==
  ASSUME RxInv, Close
  PROVE  RxInv'
<1>1. /\ pc[Gatt] = "close" /\ pc' = [pc EXCEPT ![Gatt] = "checkNow"] /\ ack' = NoAck
      /\ lastSegComplete' = TRUE
      /\ UNCHANGED <<lastSeqAuth, lastSegSrc, completed, busy, buffer, timers, ackSrc,
                     segment, src, current, pdus, received, delivered, interrupted, unnamed,
                        overtaken>>
  BY DEF Close, Become, Silent, last, history, RxInv, TypeOK
<1>2. pc'[Gatt] = "checkNow" /\ pc'[Handler] = pc[Handler]
  BY <1>1, SegmentedRxAssumption DEF RxInv, TypeOK, Threads
<1>3. TypeOK'
  BY <1>1, <1>2, NameType DEF RxInv, TypeOK, Idle, ParseLabels, TaskLabels, Forgetting,
                              InBuffer, Segments, Threads, NoSegment
<1>4. OneOK' /\ SourceOK'
  BY <1>1, <1>2 DEF RxInv, OneOK, SourceOK, Named, Last, InBuffer, NoSegment, At, Begun,
                    Renaming, Filling, Ending
<1>5. BufferOK' /\ CompletedOK'
  BY <1>1, <1>2 DEF RxInv, BufferOK, CompletedOK, Complete, Passed, Whole, Segments, Idle, At,
                    Begun, Renaming, Filling, Ending
<1>6. LastOK'
  BY <1>1, <1>2 DEF RxInv, LastOK, Named, Last, Complete, Passed, Whole, Segments, Idle,
                    Forgetting, At, Begun, Renaming, Filling, Ending
<1> QED
  BY <1>1, <1>3, <1>4, <1>5, <1>6 DEF RxInv, AckOK

\* The ack task gets the new source, and is due.
LEMMA CheckNowStep ==
  ASSUME RxInv, CheckNow
  PROVE  RxInv'
<1>1. /\ pc[Gatt] = "checkNow" /\ pc' = [pc EXCEPT ![Gatt] = "deliver"] /\ ack' = NoAck
      /\ ackSrc' = segment.msg[1] /\ unnamed' = FALSE /\ timers' \subseteq Tasks
      /\ UNCHANGED <<lastSeqAuth, lastSegSrc, lastSegComplete, completed, busy, buffer,
                     segment, src, current, pdus, received, delivered, interrupted, overtaken>>
  BY DEF CheckNow, Become, Silent, last, history, RxInv, TypeOK, CheckSegmentBlock, Tasks
<1>2. pc'[Gatt] = "deliver" /\ pc'[Handler] = pc[Handler]
  BY <1>1, SegmentedRxAssumption DEF RxInv, TypeOK, Threads
<1>3. TypeOK'
  BY <1>1, <1>2, NameType DEF RxInv, TypeOK, Idle, ParseLabels, TaskLabels, Forgetting,
                              InBuffer, Segments, Threads, NoSegment
<1>4. OneOK' /\ SourceOK'
  BY <1>1, <1>2, NameType DEF Idle, RxInv, OneOK, SourceOK, Named, Last, InBuffer, NoSegment,
                              At, Begun, Renaming, Filling, Ending
<1>5. BufferOK' /\ CompletedOK'
  BY <1>1, <1>2 DEF RxInv, BufferOK, CompletedOK, Complete, Passed, Whole, Segments, Idle, At,
                    Begun, Renaming, Filling, Ending
<1>6. LastOK'
  BY <1>1, <1>2 DEF RxInv, LastOK, Named, Last, Complete, Passed, Whole, Segments, Idle,
                    Forgetting, At, Begun, Renaming, Filling, Ending
<1> QED
  BY <1>1, <1>3, <1>4, <1>5, <1>6 DEF RxInv, AckOK

\* The ack task reads its source.
LEMMA ReadSrcStep ==
  ASSUME RxInv, ReadSrc
  PROVE  RxInv'
<1>1. /\ pc[Handler] = "mAccessSegCheckTask" /\ pc' = [pc EXCEPT ![Handler] = "clone"] /\ ack' = NoAck
      /\ src' = ackSrc /\ overtaken' = unnamed
      /\ UNCHANGED <<lastSeqAuth, lastSegSrc, lastSegComplete, completed, busy, buffer,
                     timers, ackSrc, segment, current, pdus, received, delivered, interrupted,
                        unnamed>>
  BY DEF ReadSrc, Become, Silent, last, history, RxInv, TypeOK
<1>2. pc'[Handler] = "clone" /\ pc'[Gatt] = pc[Gatt]
  BY <1>1, SegmentedRxAssumption DEF RxInv, TypeOK, Threads
<1>3. TypeOK'
  BY <1>1, <1>2, NameType DEF RxInv, TypeOK, Idle, ParseLabels, TaskLabels, Forgetting,
                              InBuffer, Segments, Threads, NoSegment
<1>4. OneOK' /\ SourceOK'
  BY <1>1, <1>2 DEF RxInv, OneOK, SourceOK, Named, Last, InBuffer, NoSegment, At, Begun,
                    Renaming, Filling, Ending
<1>5. BufferOK' /\ CompletedOK'
  BY <1>1, <1>2 DEF RxInv, BufferOK, CompletedOK, Complete, Passed, Whole, Segments, Idle, At,
                    Begun, Renaming, Filling, Ending
<1>6. LastOK'
  BY <1>1, <1>2 DEF RxInv, LastOK, Named, Last, Complete, Passed, Whole, Segments, Idle,
                    Forgetting, At, Begun, Renaming, Filling, Ending
<1> QED
  BY <1>1, <1>3, <1>4, <1>5, <1>6 DEF RxInv, AckOK

\* The ack task is posted again.
LEMMA PostAgainStep ==
  ASSUME RxInv, PostAgain
  PROVE  RxInv'
<1>1. /\ pc[Handler] = "post" /\ pc' = [pc EXCEPT ![Handler] = "idle"] /\ ack' = NoAck
      /\ timers' \subseteq Tasks
      /\ UNCHANGED <<lastSeqAuth, lastSegSrc, lastSegComplete, completed, busy, buffer,
                     ackSrc, segment, src, current, pdus, received, delivered, interrupted,
                        unnamed, overtaken>>
  BY DEF PostAgain, Become, Silent, last, history, RxInv, TypeOK, CheckSegmentBlock, Tasks
<1>2. pc'[Handler] = "idle" /\ pc'[Gatt] = pc[Gatt]
  BY <1>1, SegmentedRxAssumption DEF RxInv, TypeOK, Threads
<1>3. TypeOK'
  BY <1>1, <1>2, NameType DEF RxInv, TypeOK, Idle, ParseLabels, TaskLabels, Forgetting,
                              InBuffer, Segments, Threads, NoSegment
<1>4. OneOK' /\ SourceOK'
  BY <1>1, <1>2 DEF RxInv, OneOK, SourceOK, Named, Last, InBuffer, NoSegment, At, Begun,
                    Renaming, Filling, Ending
<1>5. BufferOK' /\ CompletedOK'
  BY <1>1, <1>2 DEF RxInv, BufferOK, CompletedOK, Complete, Passed, Whole, Segments, Idle, At,
                    Begun, Renaming, Filling, Ending
<1>6. LastOK'
  BY <1>1, <1>2 DEF RxInv, LastOK, Named, Last, Complete, Passed, Whole, Segments, Idle,
                    Forgetting, At, Begun, Renaming, Filling, Ending
<1> QED
  BY <1>1, <1>3, <1>4, <1>5, <1>6 DEF RxInv, AckOK

\* The timeout removes the ack task.
LEMMA SegmentTimeoutStep ==
  ASSUME RxInv, SegmentTimeout
  PROVE  RxInv'
<1>1. /\ pc[Handler] = "segmentTimeoutTask" /\ pc' = [pc EXCEPT ![Handler] = "giveUp"] /\ ack' = NoAck
      /\ timers' \subseteq Tasks
      /\ UNCHANGED <<lastSeqAuth, lastSegSrc, lastSegComplete, completed, busy, buffer,
                     ackSrc, segment, src, current, pdus, received, delivered, interrupted,
                        unnamed, overtaken>>
  BY DEF SegmentTimeout, Become, Silent, last, history, RxInv, TypeOK, CheckSegmentBlock, Tasks
<1>2. pc'[Handler] = "giveUp" /\ pc'[Gatt] = pc[Gatt]
  BY <1>1, SegmentedRxAssumption DEF RxInv, TypeOK, Threads
<1>3. TypeOK'
  BY <1>1, <1>2, NameType DEF RxInv, TypeOK, Idle, ParseLabels, TaskLabels, Forgetting,
                              InBuffer, Segments, Threads, NoSegment
<1>4. OneOK' /\ SourceOK'
  BY <1>1, <1>2 DEF RxInv, OneOK, SourceOK, Named, Last, InBuffer, NoSegment, At, Begun,
                    Renaming, Filling, Ending
<1>5. BufferOK' /\ CompletedOK'
  BY <1>1, <1>2 DEF RxInv, BufferOK, CompletedOK, Complete, Passed, Whole, Segments, Idle, At,
                    Begun, Renaming, Filling, Ending
<1>6. LastOK'
  BY <1>1, <1>2 DEF RxInv, LastOK, Named, Last, Complete, Passed, Whole, Segments, Idle,
                    Forgetting, At, Begun, Renaming, Filling, Ending
<1> QED
  BY <1>1, <1>3, <1>4, <1>5, <1>6 DEF RxInv, AckOK

\* The given up message is forgotten, first half.
LEMMA ForgetSrcStep ==
  ASSUME RxInv, ForgetSrc
  PROVE  RxInv'
<1>1. /\ pc[Handler] = "forgetSrc" /\ pc' = [pc EXCEPT ![Handler] = "forgetAuth"] /\ ack' = NoAck
      /\ lastSegSrc' = 0
      /\ UNCHANGED <<lastSeqAuth, lastSegComplete, completed, busy, buffer, timers, ackSrc,
                     segment, src, current, pdus, received, delivered, interrupted, unnamed,
                        overtaken>>
  BY DEF ForgetSrc, Become, Silent, last, history, RxInv, TypeOK
<1>2. pc'[Handler] = "forgetAuth" /\ pc'[Gatt] = pc[Gatt]
  BY <1>1, SegmentedRxAssumption DEF RxInv, TypeOK, Threads
<1>3. TypeOK'
  BY <1>1, <1>2, NameType DEF RxInv, TypeOK, Idle, ParseLabels, TaskLabels, Forgetting,
                              InBuffer, Segments, Threads, NoSegment
<1>4. OneOK' /\ SourceOK'
  BY <1>1, <1>2 DEF RxInv, OneOK, SourceOK, Named, Last, InBuffer, NoSegment, At, Begun,
                    Renaming, Filling, Ending
<1>5. BufferOK' /\ CompletedOK'
  BY <1>1, <1>2 DEF RxInv, BufferOK, CompletedOK, Complete, Passed, Whole, Segments, Idle, At,
                    Begun, Renaming, Filling, Ending
<1>6. LastOK'
  BY <1>1, <1>2 DEF RxInv, LastOK, Named, Last, Complete, Passed, Whole, Segments, Idle,
                    Forgetting, At, Begun, Renaming, Filling, Ending
<1> QED
  BY <1>1, <1>3, <1>4, <1>5, <1>6 DEF RxInv, AckOK

\* The second half.
LEMMA ForgetAuthStep ==
  ASSUME RxInv, ForgetAuth
  PROVE  RxInv'
<1>1. /\ pc[Handler] = "forgetAuth" /\ pc' = [pc EXCEPT ![Handler] = "idle"] /\ ack' = NoAck
      /\ lastSeqAuth' = 0
      /\ UNCHANGED <<lastSegSrc, lastSegComplete, completed, busy, buffer, timers, ackSrc,
                     segment, src, current, pdus, received, delivered, interrupted, unnamed,
                        overtaken>>
  BY DEF ForgetAuth, Become, Silent, last, history, RxInv, TypeOK
<1>2. pc'[Handler] = "idle" /\ pc'[Gatt] = pc[Gatt]
  BY <1>1, SegmentedRxAssumption DEF RxInv, TypeOK, Threads
<1>3. TypeOK'
  BY <1>1, <1>2, NameType DEF RxInv, TypeOK, Idle, ParseLabels, TaskLabels, Forgetting,
                              InBuffer, Segments, Threads, NoSegment
<1>4. OneOK' /\ SourceOK'
  BY <1>1, <1>2 DEF RxInv, OneOK, SourceOK, Named, Last, InBuffer, NoSegment, At, Begun,
                    Renaming, Filling, Ending
<1>5. BufferOK' /\ CompletedOK'
  BY <1>1, <1>2 DEF RxInv, BufferOK, CompletedOK, Complete, Passed, Whole, Segments, Idle, At,
                    Begun, Renaming, Filling, Ending
<1>6. LastOK'
  BY <1>1, <1>2 DEF RxInv, LastOK, Named, Last, Complete, Passed, Whole, Segments, Idle,
                    Forgetting, At, Begun, Renaming, Filling, Ending
<1> QED
  BY <1>1, <1>3, <1>4, <1>5, <1>6 DEF RxInv, AckOK

\* The segment is put to the others of its message.
LEMMA PutStep ==
  ASSUME RxInv, Put
  PROVE  RxInv'
<1> DEFINE M == segment.msg
           o0 == segment.segO
<1>1. /\ pc[Gatt] = "put" /\ pc' = [pc EXCEPT ![Gatt] = "size"] /\ ack' = NoAck
      /\ buffer' = [o \in DOMAIN buffer \cup {o0} |-> IF o = o0 THEN M ELSE buffer[o]]
      /\ UNCHANGED <<lastSeqAuth, lastSegSrc, lastSegComplete, completed, busy, timers,
                     ackSrc, segment, src, current, pdus, received, delivered, interrupted,
                        unnamed, overtaken>>
  BY DEF Put, Become, Silent, last, history
<1>2. pc'[Gatt] = "size" /\ pc'[Handler] = pc[Handler]
  BY <1>1, SegmentedRxAssumption DEF RxInv, TypeOK, Threads
<1>3. /\ M \in Messages /\ o0 \in Segments(M) /\ \A m \in InBuffer : m = M
      /\ o0 \in received[M]
  BY <1>1, NameType DEF RxInv, TypeOK, OneOK, BufferOK, Idle, At, Filling
<1>4. /\ DOMAIN buffer' = DOMAIN buffer \cup {o0}
      /\ \A o \in DOMAIN buffer' : buffer'[o] = M /\ o \in received[M]
  BY <1>1, <1>3 DEF RxInv, BufferOK, InBuffer
<1>5. TypeOK'
  <2>1. InBuffer' \subseteq Messages
    BY <1>3, <1>4 DEF InBuffer
  <2> QED
    BY <1>1, <1>2, <2>1 DEF RxInv, TypeOK, Idle, ParseLabels, TaskLabels, Forgetting,
                            Segments, Threads, NoSegment
<1>6. OneOK' /\ SourceOK'
  <2>1. \A m \in InBuffer' : m = M
    BY <1>4 DEF InBuffer
  <2> QED
    BY <1>1, <1>2, <2>1 DEF RxInv, OneOK, SourceOK, Named, Last, At, Begun, Renaming, Filling,
                            Ending
<1>7. BufferOK' /\ CompletedOK'
  BY <1>1, <1>2, <1>4 DEF RxInv, BufferOK, CompletedOK, Idle, Complete, Passed, Whole,
                          Segments, At
<1>8. LastOK'
  BY <1>1, <1>2, <1>4 DEF RxInv, LastOK, Named, Last, Complete, Passed, Whole, Segments, Idle,
                          Forgetting, At, Begun, Renaming, Filling, Ending
<1> QED
  BY <1>1, <1>5, <1>6, <1>7, <1>8 DEF RxInv, AckOK

\* The segments in the buffer are counted.
LEMMA SizeStep ==
  ASSUME RxInv, Size
  PROVE  RxInv'
<1> DEFINE M == segment.msg
           full == Cardinality(DOMAIN buffer) = SegN[M] + 1
<1>1. /\ pc[Gatt] = "size" /\ pc' = [pc EXCEPT ![Gatt] = IF full THEN "close" ELSE "keepAuth"]
      /\ ack' = NoAck
      /\ UNCHANGED <<lastSeqAuth, lastSegSrc, lastSegComplete, completed, busy, buffer,
                     timers, ackSrc, segment, src, current, pdus, received, delivered,
                        interrupted, unnamed, overtaken>>
  BY DEF Size, Become, Silent, last, history
<1>2. M \in Messages /\ \A m \in InBuffer : m = M
  BY <1>1, NameType DEF RxInv, OneOK, Idle, At, Filling
<1>3. received[M] \subseteq Segments(M) /\ DOMAIN buffer \subseteq received[M]
  BY <1>2 DEF RxInv, TypeOK, BufferOK, InBuffer
<1>4. full <=> DOMAIN buffer = Segments(M)
  BY <1>2, <1>3, FullMeansAll
<1>5. /\ \A o \in DOMAIN buffer : buffer[o] = M
      /\ full => received[M] = Segments(M)
  BY <1>2, <1>3, <1>4 DEF InBuffer
<1> HIDE DEF full
<1>6. pc'[Gatt] = (IF full THEN "close" ELSE "keepAuth") /\ pc'[Handler] = pc[Handler]
  BY <1>1, SegmentedRxAssumption DEF RxInv, TypeOK, Threads
<1>7. TypeOK'
  BY <1>1, <1>6 DEF RxInv, TypeOK, Idle, ParseLabels, TaskLabels, Forgetting, InBuffer,
                    Segments, Threads, NoSegment
<1>8. OneOK' /\ SourceOK'
  BY <1>1, <1>6 DEF RxInv, OneOK, SourceOK, Named, Last, InBuffer, At, Begun, Renaming,
                    Filling, Ending
<1>9. BufferOK' /\ CompletedOK'
  BY <1>1, <1>4, <1>5, <1>6 DEF RxInv, BufferOK, CompletedOK, Idle, Complete, Passed, Whole,
                                Segments, At, Ending
<1>10. LastOK'
  BY <1>1, <1>3, <1>4, <1>5, <1>6 DEF RxInv, LastOK, Named, Last, Complete, Passed, Whole,
                                      Segments, Idle, Forgetting, At, Begun, Renaming,
                                         Filling, Ending
<1> QED
  BY <1>1, <1>7, <1>8, <1>9, <1>10 DEF RxInv, AckOK

\* The message is passed on, unless it was before or clear() has emptied the buffer.
LEMMA DeliverStep ==
  ASSUME RxInv, Deliver
  PROVE  RxInv'
<1>1. /\ pc[Gatt] = "deliver" /\ pc' = [pc EXCEPT ![Gatt] = "idle"] /\ ack' = NoAck
      /\ segment' = NoSegment
      /\ UNCHANGED <<lastSegSrc, lastSegComplete, completed, busy, buffer, timers, ackSrc,
                     src, current, pdus, received, interrupted, unnamed, overtaken>>
  BY DEF Deliver, Become, Silent
<1>2. pc'[Gatt] = "idle" /\ pc'[Handler] = pc[Handler]
  BY <1>1, SegmentedRxAssumption DEF RxInv, TypeOK, Threads
<1>m. PICK M : M = segment.msg
  OBVIOUS
<1>3. /\ M \in Messages /\ M = <<M[1], M[2]>> /\ M[1] # 0 /\ M[2] # 0
      /\ \A o \in DOMAIN buffer : buffer[o] = M
      /\ lastSeqAuth \in {0, M[2]} /\ lastSegSrc \in {0, M[1]}
      /\ Whole(M) /\ (DOMAIN buffer = Segments(M) \/ M \in interrupted)
  BY <1>1, <1>m, NameType DEF RxInv, OneOK, LastOK, Idle, At, Ending, InBuffer, Whole, Segments
<1>4. /\ lastSeqAuth' \in {0, lastSeqAuth}
      /\ delivered \subseteq delivered' /\ delivered' \subseteq Messages
      /\ Passed(M)'
  <2>1. CASE IsCompleteAuthExists(M)
    <3>1. Passed(M)
      BY <2>1, <1>3 DEF IsCompleteAuthExists, RxInv, CompletedOK, Complete
    <3> QED
      BY <2>1, <3>1, <1>1, <1>m DEF Deliver, Passed, RxInv, TypeOK
  <2>2. CASE ~IsCompleteAuthExists(M)
    <3>1. /\ lastSeqAuth' = lastSeqAuth
          /\ delivered' = IF M \notin Undecryptable /\ DOMAIN buffer = Segments(M)
                          THEN delivered \cup {M} ELSE delivered
      BY <2>2, <1>m DEF Deliver
    <3> QED
      BY <3>1, <1>1, <1>3 DEF Passed, RxInv, TypeOK
  <2> QED
    BY <2>1, <2>2
<1>5. TypeOK'
  BY <1>1, <1>2, <1>4 DEF RxInv, TypeOK, Idle, ParseLabels, TaskLabels, Forgetting, InBuffer,
                          Segments, Threads, NoSegment
<1>6. OneOK' /\ SourceOK'
  BY <1>1, <1>2, <1>3, <1>4 DEF RxInv, OneOK, SourceOK, Named, Last, InBuffer, At, Begun,
                                Renaming, Filling, Ending
<1>7. BufferOK' /\ CompletedOK'
  BY <1>1, <1>2, <1>3, <1>4 DEF RxInv, BufferOK, CompletedOK, Idle, Complete, Passed, Whole,
                                Segments, At, Ending
<1>8. LastOK'
  <2>1. Whole(M)'
    BY <1>1, <1>3 DEF Whole, Segments
  <2>2. Named' => Last' = M
    BY <1>1, <1>3, <1>4 DEF Named, Last
  <2>3. Named' => Complete(Last)'
    BY <2>1, <2>2, <1>4 DEF Complete, Passed, Whole, Segments
  <2>4. lastSegComplete
    BY <1>1 DEF RxInv, LastOK, At
  <2> QED
    BY <1>1, <1>2, <2>3, <2>4 DEF LastOK, Idle, At, Begun, Renaming, Filling, Ending
<1> QED
  BY <1>1, <1>5, <1>6, <1>7, <1>8 DEF RxInv, AckOK

\* A task leaves the queue.
LEMMA DequeueStep ==
  ASSUME RxInv, NEW task \in Tasks, Dequeue(task)
  PROVE  RxInv'
<1>1. /\ pc[Handler] = "idle" /\ pc' = [pc EXCEPT ![Handler] = task] /\ ack' = NoAck
      /\ timers' \subseteq Tasks
      /\ UNCHANGED <<lastSeqAuth, lastSegSrc, lastSegComplete, completed, busy, buffer,
                     ackSrc, segment, src, current, pdus, received, delivered, interrupted,
                        unnamed, overtaken>>
  BY DEF Dequeue, Become, Idle, Silent, last, history, RxInv, TypeOK
<1>2. pc'[Handler] = task /\ pc'[Gatt] = pc[Gatt]
  BY <1>1, SegmentedRxAssumption DEF RxInv, TypeOK, Threads
<1>3. task \in {"mAccessSegCheckTask", "segmentTimeoutTask"}
  BY DEF Tasks
<1>4. TypeOK'
  <2>1. task \in TaskLabels
    BY DEF TaskLabels
  <2>2. pc \in [Threads -> {"idle"} \cup ParseLabels \cup TaskLabels]
    BY DEF RxInv, TypeOK
  <2>3. /\ pc' \in [Threads -> {"idle"} \cup ParseLabels \cup TaskLabels]
        /\ pc'[Gatt] \in {"idle"} \cup ParseLabels /\ pc'[Handler] \in {"idle"} \cup TaskLabels
    <3>1. pc'[Gatt] \in {"idle"} \cup ParseLabels
      BY <1>2 DEF RxInv, TypeOK
    <3> QED
      BY <1>1, <1>2, <2>1, <2>2, <3>1
  <2> QED
    BY <1>1, <1>2, <2>3 DEF RxInv, TypeOK, Idle, InBuffer, Segments
<1>5. OneOK' /\ SourceOK'
  BY <1>1, <1>2, <1>3 DEF RxInv, OneOK, SourceOK, Named, Last, InBuffer, At, Begun, Renaming,
                          Filling, Ending
<1>6. BufferOK' /\ CompletedOK'
  BY <1>1, <1>2 DEF RxInv, BufferOK, CompletedOK, Idle, Complete, Passed, Whole, Segments, At,
                    Ending
<1>7. LastOK'
  BY <1>1, <1>2, <1>3 DEF RxInv, LastOK, Named, Last, Complete, Passed, Whole, Segments, Idle,
                          Forgetting, At, Begun, Renaming, Filling, Ending
<1> QED
  BY <1>1, <1>4, <1>5, <1>6, <1>7 DEF RxInv, AckOK

\* A block ack shows the segments in the buffer, of the one message there.
LEMMA SendSegmentBlockAckStep ==
  ASSUME RxInv, SendSegmentBlockAck
  PROVE  RxInv'
<1>1. /\ pc[Handler] = "clone" /\ src' = 0 /\ overtaken' = FALSE
      /\ UNCHANGED <<lastSeqAuth, lastSegSrc, lastSegComplete, completed, busy, buffer,
                     timers, ackSrc, segment, current, pdus, received, delivered, interrupted,
                        unnamed>>
  BY DEF SendSegmentBlockAck, last
<1>2. PICK l \in {"idle", "post"} : pc' = [pc EXCEPT ![Handler] = l]
  BY DEF SendSegmentBlockAck, Become
<1>3. pc'[Handler] = l /\ pc'[Gatt] = pc[Gatt]
  BY <1>2, SegmentedRxAssumption DEF RxInv, TypeOK, Threads
<1>4. TypeOK'
  <2>1. pc \in [Threads -> {"idle"} \cup ParseLabels \cup TaskLabels]
    BY DEF RxInv, TypeOK
  <2>2. /\ pc' \in [Threads -> {"idle"} \cup ParseLabels \cup TaskLabels]
        /\ pc'[Gatt] \in {"idle"} \cup ParseLabels /\ pc'[Handler] \in {"idle"} \cup TaskLabels
    <3>1. pc'[Gatt] \in {"idle"} \cup ParseLabels
      BY <1>3 DEF RxInv, TypeOK
    <3>2. l \in {"idle"} \cup TaskLabels
      BY DEF TaskLabels
    <3> QED
      BY <1>2, <1>3, <2>1, <3>1, <3>2
  <2> QED
    BY <1>1, <1>3, <2>2 DEF RxInv, TypeOK, Idle, InBuffer, Segments
<1>5. OneOK' /\ SourceOK'
  BY <1>1, <1>3 DEF RxInv, OneOK, SourceOK, Named, Last, InBuffer, At, Begun, Renaming,
                    Filling, Ending
<1>6. BufferOK' /\ CompletedOK'
  BY <1>1, <1>3 DEF RxInv, BufferOK, CompletedOK, Idle, Complete, Passed, Whole, Segments, At,
                    Ending
<1>7. LastOK'
  BY <1>1, <1>3 DEF RxInv, LastOK, Named, Last, Complete, Passed, Whole, Segments, Idle,
                    Forgetting, At, Begun, Renaming, Filling, Ending
<1>8. AckOK'
  <2>1. CASE DOMAIN buffer = {}
    BY <2>1 DEF SendSegmentBlockAck, Silent, AckOK
  <2>2. CASE DOMAIN buffer # {}
    <3>1. ack' = [dst |-> src, msg |-> Buffer0, block |-> DOMAIN buffer,
                          overtaken |-> overtaken]
      BY <2>2 DEF SendSegmentBlockAck, SendAck
    <3>2. ack'.dst = src /\ ack'.msg = Buffer0 /\ ack'.block = DOMAIN buffer /\ ack'.overtaken = overtaken
      BY <3>1
    <3>3. /\ Buffer0 \in InBuffer /\ DOMAIN buffer \subseteq received[Buffer0]
          /\ DOMAIN buffer = Segments(Buffer0) => Passed(Buffer0) \/ At({"size"} \cup Ending)
      BY <2>2, Buffer0Type
    <3>4. Buffer0[1] = src \/ overtaken
      BY <1>1, <3>3 DEF RxInv, SourceOK
    <3>5. At(Ending \cup {"size"}) => Buffer0 = segment.msg
      BY <3>3 DEF RxInv, OneOK, At, Filling, Ending
    <3> QED
      BY <1>1, <1>3, <3>2, <3>3, <3>4, <3>5 DEF AckOK, Passed, Segments, At, Ending
  <2> QED
    BY <2>1, <2>2
<1> QED
  BY <1>4, <1>5, <1>6, <1>7, <1>8 DEF RxInv

\* The message is given up; if a segment is being handled, of whichever message, neither
\* that message nor the last one counts as complete any more.
LEMMA GiveUpStep ==
  ASSUME RxInv, GiveUp
  PROVE  RxInv'
<1>1. /\ pc[Handler] = "giveUp" /\ pc' = [pc EXCEPT ![Handler] = "forgetSrc"] /\ ack' = NoAck
      /\ lastSegComplete' = TRUE
      /\ interrupted \subseteq interrupted' /\ interrupted' \subseteq Messages
      /\ ~Idle(Gatt) => segment.msg \in interrupted'
      /\ UNCHANGED <<lastSeqAuth, lastSegSrc, completed, busy, buffer, timers, ackSrc,
                     segment, src, current, pdus, received, delivered, unnamed, overtaken>>
  BY NameType DEF GiveUp, Cross, Become, Silent, RxInv, TypeOK
<1>2. pc'[Handler] = "forgetSrc" /\ pc'[Gatt] = pc[Gatt]
  BY <1>1, SegmentedRxAssumption DEF RxInv, TypeOK, Threads
<1>3. TypeOK'
  BY <1>1, <1>2 DEF RxInv, TypeOK, Idle, ParseLabels, TaskLabels, Tasks, Forgetting, InBuffer,
                    Segments, Threads, NoSegment
<1>4. OneOK' /\ SourceOK'
  BY <1>1, <1>2 DEF RxInv, OneOK, SourceOK, Named, Last, InBuffer, At, Begun, Renaming,
                    Filling, Ending
<1>5. BufferOK' /\ CompletedOK'
  BY <1>1, <1>2 DEF RxInv, BufferOK, CompletedOK, Idle, Complete, Passed, Whole, Segments, At,
                    Ending
<1>6. LastOK'
  BY <1>1, <1>2 DEF RxInv, LastOK, Named, Last, Complete, Passed, Whole, Segments, Idle,
                    Forgetting, At, Begun, Renaming, Filling, Ending
<1> QED
  BY <1>1, <1>3, <1>4, <1>5, <1>6 DEF RxInv, AckOK

\* clear() forgets the segments; the message they belong to becomes the last one.
LEMMA ClearStep ==
  ASSUME RxInv, Clear
  PROVE  RxInv'
<1>1. /\ ack' = NoAck /\ timers' = {} /\ buffer' = <<>> /\ lastSegComplete' = TRUE
      /\ interrupted \subseteq interrupted' /\ interrupted' \subseteq Messages
      /\ InBuffer \subseteq interrupted'
      /\ ~Idle(Gatt) => segment.msg \in interrupted'
      /\ UNCHANGED <<lastSeqAuth, lastSegSrc, completed, busy, ackSrc, pc, segment, src,
                     current, pdus, received, delivered, unnamed, overtaken>>
  BY NameType DEF Clear, Silent, RxInv, TypeOK
<1>2. TypeOK'
  BY <1>1 DEF RxInv, TypeOK, Idle, InBuffer, Segments
<1>3. OneOK' /\ SourceOK'
  BY <1>1 DEF RxInv, OneOK, SourceOK, Named, Last, InBuffer, At, Begun, Renaming, Filling,
              Ending
<1>4. BufferOK' /\ CompletedOK'
  BY <1>1 DEF RxInv, BufferOK, CompletedOK, Idle, Complete, Passed, Whole, Segments
<1>5. At({"idle"}) /\ ~lastSegComplete /\ Named => Last \in interrupted'
  <2> SUFFICES ASSUME At({"idle"}), ~lastSegComplete, Named PROVE Last \in InBuffer
    BY <1>1
  <2>1. PICK o \in DOMAIN buffer : TRUE
    BY DEF RxInv, LastOK, At
  <2>2. buffer[o] \in InBuffer
    BY DEF InBuffer
  <2> QED
    BY <2>2 DEF RxInv, OneOK, At
<1>6. LastOK'
  BY <1>1, <1>5 DEF RxInv, LastOK, Named, Last, Complete, Passed, Whole, Segments, Idle,
                    Forgetting, At, Begun, Renaming, Filling, Ending
<1> QED
  BY <1>1, <1>2, <1>3, <1>4, <1>6 DEF RxInv, AckOK

\* A segment arrives, whatever becomes of it.
LEMMA ParseStep ==
  ASSUME RxInv, NEW m \in Messages, NEW segO \in Segments(m), ParseSegmentedAccessMessage(m,
     segO)
  PROVE  RxInv'
<1>1. /\ pc[Gatt] = "idle" /\ pdus' = pdus + 1 /\ pdus < MaxPdus
      /\ current' = [current EXCEPT ![m[1]] = m[2]]
      /\ received' = [received EXCEPT ![m] = @ \cup {segO}]
      /\ UNCHANGED <<lastSeqAuth, lastSegSrc, lastSegComplete, completed, buffer, timers,
                     ackSrc, src, delivered, unnamed, overtaken>>
  BY DEF ParseSegmentedAccessMessage, Idle, last
<1>2. /\ m = <<m[1], m[2]>> /\ m[1] \in Sources /\ m[2] \in SeqAuths /\ m[1] # 0 /\ m[2] # 0
      /\ segO \in Nat
  BY SegmentedRxAssumption DEF Messages, Segments
<1>3. /\ received' \in [Messages -> SUBSET Nat] /\ segO \in received'[m]
      /\ \A n \in Messages : /\ received[n] \subseteq received'[n]
                             /\ received'[n] \subseteq Segments(n)
                             /\ received[n] = Segments(n) => received'[n] = Segments(n)
  BY <1>1, <1>2 DEF RxInv, TypeOK
<1>4. pdus' \in 0 .. MaxPdus /\ current' \in [Sources -> SeqAuths \cup {0}]
  <2>1. pdus' \in 0 .. MaxPdus
    BY <1>1, SegmentedRxAssumption DEF RxInv, TypeOK
  <2>2. current' \in [Sources -> SeqAuths \cup {0}]
    BY <1>1, <1>2 DEF RxInv, TypeOK
  <2> QED
    BY <2>1, <2>2
<1>n. Named => Last \in Messages
  BY DEF Named, Last, RxInv, TypeOK, Messages
<1>5. CASE UNCHANGED <<pc, segment, interrupted>>
  <2>1. busy' \in [Sources -> SeqAuths \cup {0}]
    BY <1>1, <1>2, <1>5 DEF ParseSegmentedAccessMessage, RefuseBusy, Become, RxInv, TypeOK
  <2>2. TypeOK'
    BY <1>1, <1>3, <1>4, <1>5, <2>1 DEF RxInv, TypeOK, Idle, InBuffer, Segments
  <2>3. OneOK' /\ SourceOK'
    BY <1>1, <1>5 DEF RxInv, OneOK, SourceOK, Named, Last, InBuffer, At, Begun, Renaming,
                      Filling, Ending
  <2>4. BufferOK' /\ CompletedOK'
    <3>1. BufferOK'
      BY <1>1, <1>3, <1>5 DEF RxInv, BufferOK, Idle, TypeOK, InBuffer, Passed, Segments, At,
                              Ending
    <3>2. CompletedOK'
      BY <1>1, <1>3, <1>5 DEF RxInv, CompletedOK, Complete, Passed, Whole, Segments
    <3> QED
      BY <3>1, <3>2
  <2>5. LastOK'
    BY <1>1, <1>3, <1>5, <1>n DEF RxInv, LastOK, Named, Last, Complete, Passed, Whole,
                                  Segments, Idle, At, Begun, Renaming, Filling, Ending
  <2>6. \/ ack' = [dst |-> m[1], msg |-> m, block |-> {}, overtaken |-> FALSE]
        \/ /\ IsCompleteAuthExists(m)
           /\ ack' = [dst |-> m[1], msg |-> m, block |-> Segments(m), overtaken |-> FALSE]
        \/ ack' = NoAck
    BY DEF ParseSegmentedAccessMessage, RefuseBusy, SendAck, Silent
  <2>7. 0 \in Segments(m)
    BY SegmentedRxAssumption DEF Segments
  <2>8. IsCompleteAuthExists(m) => Passed(m) /\ (received'[m] = Segments(m) \/ m \in interrupted)
    BY <1>3 DEF IsCompleteAuthExists, RxInv, CompletedOK, Complete, Whole
  <2>9. AckOK'
    <3>1. CASE ack' = [dst |-> m[1], msg |-> m, block |-> {}, overtaken |-> FALSE]
      <4>1. ack'.dst = m[1] /\ ack'.msg = m /\ ack'.block = {}
        BY <3>1
      <4> QED
        BY <4>1, <2>7 DEF AckOK, Segments
    <3>2. CASE /\ IsCompleteAuthExists(m)
               /\ ack' = [dst |-> m[1], msg |-> m, block |-> Segments(m), overtaken |-> FALSE]
      <4>1. ack'.dst = m[1] /\ ack'.msg = m /\ ack'.block = Segments(m)
        BY <3>2
      <4> QED
        BY <4>1, <3>2, <2>8, <1>1, <1>5 DEF AckOK, Passed
    <3>3. CASE ack' = NoAck
      BY <3>3 DEF AckOK
    <3> QED
      BY <2>6, <3>1, <3>2, <3>3
  <2> QED
    BY <2>2, <2>3, <2>4, <2>5, <2>9 DEF RxInv
<1>6. CASE ~UNCHANGED <<pc, segment, interrupted>>
  <2>1. /\ TakesOver(m) /\ ack' = NoAck /\ busy' = busy
        /\ segment' = [msg |-> m, segO |-> segO, src |-> 0]
        /\ pc' = [pc EXCEPT ![Gatt] = IF IsNew(m) THEN "readSrc" ELSE "put"]
        /\ IF pc[Handler] \in Forgetting THEN Cross(m) ELSE interrupted' = interrupted
    BY <1>6 DEF ParseSegmentedAccessMessage, Become, Silent
  <2>2. /\ pc'[Gatt] = (IF IsNew(m) THEN "readSrc" ELSE "put") /\ pc'[Handler] = pc[Handler]
        /\ segment'.msg = m /\ segment'.segO = segO /\ segment'.src = 0
    BY <2>1, SegmentedRxAssumption DEF RxInv, TypeOK, Threads
  <2>3. /\ interrupted \subseteq interrupted' /\ interrupted' \subseteq Messages
        /\ pc[Handler] \in Forgetting => m \in interrupted' /\ (Named => Last \in interrupted')
    BY <2>1, <1>n DEF Cross, Last, RxInv, TypeOK
  <2>4. IsNew(m) => lastSegComplete
    BY <2>1 DEF TakesOver
  <2>5. ~IsNew(m) => Named /\ Last = m
    BY <1>2 DEF IsNew, Named, Last
  <2>6. TypeOK'
    <3>1. /\ pc' \in [Threads -> {"idle"} \cup ParseLabels \cup TaskLabels]
          /\ pc'[Gatt] \in {"idle"} \cup ParseLabels /\ pc'[Handler] \in {"idle"} \cup TaskLabels
      <4>1. /\ pc \in [Threads -> {"idle"} \cup ParseLabels \cup TaskLabels]
            /\ pc[Handler] \in {"idle"} \cup TaskLabels
        BY DEF RxInv, TypeOK
      <4>2. (IF IsNew(m) THEN "readSrc" ELSE "put") \in ParseLabels
        BY DEF ParseLabels
      <4> QED
        BY <2>1, <2>2, <4>1, <4>2
    <3>2. /\ pc'[Gatt] # "idle"
          /\ segment' \in [msg : Messages, segO : Nat, src : Sources \cup {0}]
          /\ segment'.segO \in Segments(segment'.msg)
      BY <2>1, <2>2, <1>2
    <3> QED
      BY <1>1, <1>3, <1>4, <2>1, <2>3, <3>1, <3>2 DEF RxInv, TypeOK, Idle, InBuffer, Segments
  <2>7. OneOK' /\ SourceOK'
    BY <1>1, <1>2, <2>2, <2>5 DEF RxInv, OneOK, SourceOK, Named, Last, InBuffer, At, Begun,
                                  Renaming, Filling, Ending
  <2>8. BufferOK' /\ CompletedOK'
    <3>1. BufferOK'
      BY <1>1, <1>3, <2>2, <2>3 DEF RxInv, BufferOK, Idle, TypeOK, InBuffer, Passed, Segments,
                                    At, Ending
    <3>2. CompletedOK'
      BY <1>1, <1>3, <2>3 DEF RxInv, CompletedOK, Complete, Passed, Whole, Segments
    <3> QED
      BY <3>1, <3>2
  <2>9. LastOK'
    <3>1. lastSegComplete /\ Named =>
            \/ Last \in interrupted'
            \/ /\ Last \in delivered \/ Last \in Undecryptable
               /\ received'[Last] = Segments(Last)
      BY <1>1, <1>3, <1>n, <2>3 DEF RxInv, LastOK, At, Complete, Passed, Whole, Forgetting
    <3> QED
      BY <1>1, <2>2, <2>3, <2>4, <2>5, <3>1 DEF LastOK, Named, Last, Complete, Passed, Whole,
                                                Segments, Idle, At, Begun, Renaming, Filling,
                                                   Ending
  <2> QED
    BY <2>1, <2>6, <2>7, <2>8, <2>9 DEF RxInv, AckOK
<1> QED
  BY <1>5, <1>6

-----------------------------------------------------------------------------
(* The invariant and the theorems *)

\* The invariant holds initially.
LEMMA RxInit == Init => RxInv
<1> SUFFICES ASSUME Init PROVE RxInv
  OBVIOUS
<1>0. Gatt # Handler /\ pc[Gatt] = "idle" /\ pc[Handler] = "idle"
  BY SegmentedRxAssumption DEF Init, Threads
<1>1. TypeOK
  <2>1. pc \in [Threads -> {"idle"} \cup ParseLabels \cup TaskLabels]
    BY DEF Init
  <2>2. InBuffer = {}
    BY DEF Init, InBuffer
  <2>3. /\ completed \in [Sources \cup {0} -> SeqAuths \cup {0}] /\ busy \in [Sources -> SeqAuths \cup {0}]
        /\ current \in [Sources -> SeqAuths \cup {0}] /\ received \in [Messages -> SUBSET Nat]
        /\ \A m \in Messages : received[m] \subseteq Segments(m)
        /\ pdus \in 0 .. MaxPdus
    BY SegmentedRxAssumption DEF Init
  <2> QED
    BY <1>0, <2>1, <2>2, <2>3 DEF Init, TypeOK, Idle, Tasks
<1>2. OneOK /\ BufferOK
  BY <1>0 DEF Init, OneOK, BufferOK, InBuffer, Idle, At, Begun, Filling, Ending
<1>3. SourceOK /\ LastOK /\ AckOK
  BY <1>0 DEF Init, SourceOK, LastOK, AckOK, InBuffer, Named, Idle, Forgetting, At, Renaming,
              Filling, Ending
<1>4. CompletedOK
  BY SegmentedRxAssumption DEF Init, CompletedOK, Messages
<1> QED
  BY <1>1, <1>2, <1>3, <1>4 DEF RxInv

\* Every step keeps it.
LEMMA RxStep == RxInv /\ [Next]_vars => RxInv'
<1> SUFFICES ASSUME RxInv, [Next]_vars PROVE RxInv'
  OBVIOUS
<1>1. ASSUME NEW m \in Messages, NEW segO \in Segments(m), ParseSegmentedAccessMessage(m, segO)
      PROVE  RxInv'
  BY <1>1, ParseStep
<1>2. CASE Parse
  BY <1>2, ReadLastSegSrcStep, SaveStep, OpenStep, SetAuthStep, SetSrcStep, EmptyStep, PutStep,
     SizeStep, KeepAuthStep, CheckStep, CloseStep, CheckNowStep, DeliverStep DEF Parse
<1>3. CASE Task
  BY <1>3, ReadSrcStep, SendSegmentBlockAckStep, PostAgainStep, SegmentTimeoutStep, GiveUpStep,
     ForgetSrcStep, ForgetAuthStep DEF Task
<1>4. ASSUME NEW task \in Tasks, Dequeue(task) PROVE RxInv'
  BY <1>4, DequeueStep
<1>5. CASE UNCHANGED vars
  <2>1. UNCHANGED <<lastSeqAuth, lastSegSrc, lastSegComplete, completed, busy, buffer, timers,
                    ackSrc, pc, segment, src, current, pdus, received, delivered, interrupted,
                       unnamed, overtaken, ack>>
    BY <1>5 DEF vars, last, history
  <2>2. TypeOK' /\ OneOK' /\ SourceOK'
    BY <2>1 DEF RxInv, TypeOK, OneOK, SourceOK, Named, Last, Idle, InBuffer, Segments, At,
                Begun, Renaming, Filling, Ending
  <2>3. BufferOK' /\ LastOK' /\ CompletedOK' /\ AckOK'
    BY <2>1 DEF RxInv, BufferOK, LastOK, CompletedOK, AckOK, Named, Last, Complete, Passed,
                Whole, Segments, Idle, At, Begun, Renaming, Filling, Ending
  <2> QED
    BY <2>2, <2>3 DEF RxInv
<1> QED
  BY <1>1, <1>2, <1>3, <1>4, <1>5, ClearStep DEF Next

\* Every variable keeps its type.
THEOREM TypeCorrect == Spec => []TypeOK
<1>1. RxInv => TypeOK
  BY DEF RxInv
<1> QED
  BY <1>1, RxInit, RxStep, PTL DEF Spec

\* The buffer never mixes two messages, whatever the order in which their segments
\* arrive, and wherever the tasks and clear() come between the steps of a handler.
THEOREM OneMessage == Spec => []OneMessageInBuffer
<1>1. RxInv => OneMessageInBuffer
  BY DEF RxInv, OneOK, OneMessageInBuffer, Idle, At, Named, Last
<1> QED
  BY <1>1, RxInit, RxStep, PTL DEF Spec

\* A block ack shows only segments that arrived, and goes to the source of the message it
\* names unless the message came between the task's two reads; clear() in the middle of a
\* message, and a timeout in the middle of a segment, may have it taken for complete.
THEOREM AcksAreTruthful == Spec => []AckTruthful
<1>1. RxInv => AckTruthful
  BY DEF RxInv, AckOK, AckTruthful
<1> QED
  BY <1>1, RxInit, RxStep, PTL DEF Spec

\* A source that reads the ack of a whole message may forget it: the message has been
\* passed on or is about to be, cannot be decrypted, or was hit by clear() or the timeout.
THEOREM CompleteAcks == Spec => []CompleteAckUnlessCleared
<1>1. RxInv => CompleteAckUnlessCleared
  BY DEF RxInv, AckOK, Passed, CompleteAckUnlessCleared, CompleteAckMeansDelivered, At, Ending
<1> QED
  BY <1>1, RxInit, RxStep, PTL DEF Spec

-----------------------------------------------------------------------------
(* Refusals *)

\* A message is recorded as refused only when a segment of it came.
BusyOK == \A m \in Messages : busy[m[1]] = m[2] => received[m] # {}

\* Nothing is refused at first.
LEMMA BusyInit == Init => BusyOK
BY SegmentedRxAssumption DEF Init, BusyOK, Messages

\* Only a segment changes what is recorded as refused, and only it and a block ack, which
\* shows a segment, acknowledge anything.
LEMMA OthersRefuseNothing ==
  ASSUME Parse \/ Task \/ Clear \/ (\E task \in Tasks : Dequeue(task))
  PROVE  /\ UNCHANGED <<busy, received>>
         /\ ack' = NoAck \/ ack'.block # {}
<1>1. CASE Parse
  BY <1>1 DEF Parse, ReadLastSegSrc, SaveCompletedSeqAuth, Open, SetAuth, SetSrc, Empty, Put,
              Size,
              KeepAuth, Check, Close, CheckNow, Deliver, Silent, history
<1>2. CASE SendSegmentBlockAck
  <2>1. CASE DOMAIN buffer = {}
    BY <1>2, <2>1 DEF SendSegmentBlockAck, Silent
  <2>2. CASE DOMAIN buffer # {}
    <3>1. ack' = [dst |-> src, msg |-> Buffer0, block |-> DOMAIN buffer,
                          overtaken |-> overtaken]
      BY <1>2, <2>2 DEF SendSegmentBlockAck, SendAck
    <3>2. ack'.block = DOMAIN buffer
      BY <3>1
    <3> QED
      BY <1>2, <2>2, <3>2 DEF SendSegmentBlockAck
  <2> QED
    BY <2>1, <2>2
<1>3. CASE Task /\ ~SendSegmentBlockAck
  BY <1>3 DEF Task, ReadSrc, PostAgain, SegmentTimeout, GiveUp, ForgetSrc, ForgetAuth, Silent,
              history
<1>4. CASE Clear \/ \E task \in Tasks : Dequeue(task)
  BY <1>4 DEF Clear, Dequeue, Silent, history
<1> QED
  BY <1>1, <1>2, <1>3, <1>4

\* A segment is noted before its message is refused.
LEMMA BusyStep ==
  ASSUME RxInv, BusyOK, [Next]_vars
  PROVE  BusyOK'
<1>1. /\ busy \in [Sources -> SeqAuths \cup {0}]
      /\ received \in [Messages -> SUBSET Nat]
  BY DEF RxInv, TypeOK
<1>2. CASE UNCHANGED <<busy, received>>
  BY <1>2 DEF BusyOK
<1>3. ASSUME NEW m \in Messages, NEW segO \in Segments(m), ParseSegmentedAccessMessage(m, segO)
      PROVE  BusyOK'
  <2>1. received' = [received EXCEPT ![m] = @ \cup {segO}]
    BY <1>3 DEF ParseSegmentedAccessMessage
  <2>2. \A n \in Messages : received[n] \subseteq received'[n] /\ received'[m] # {}
    BY <1>1, <2>1
  <2>3. busy' = busy \/ busy' = [busy EXCEPT ![m[1]] = m[2]]
    BY <1>3 DEF ParseSegmentedAccessMessage, RefuseBusy
  <2>4. ASSUME NEW n \in Messages, busy'[n[1]] = n[2] PROVE received'[n] # {}
    <3>1. CASE busy[n[1]] = n[2]
      BY <2>2, <3>1 DEF BusyOK
    <3>2. CASE busy[n[1]] # n[2]
      <4>1. n[1] = m[1] /\ n[2] = m[2]
        BY <1>1, <2>3, <2>4, <3>2 DEF Messages
      <4>2. n = m
        BY <4>1 DEF Messages
      <4> QED
        BY <2>2, <4>2
    <3> QED
      BY <3>1, <3>2
  <2> QED
    BY <2>4 DEF BusyOK
<1>4. CASE UNCHANGED vars
  BY <1>2, <1>4 DEF vars, history
<1> QED
  BY <1>2, <1>3, <1>4, OthersRefuseNothing DEF Next

\* A message is refused only while another is being received, or when it was refused
\* before: a source that is alone is never turned away.
THEOREM RefusalsJustified == Spec => RefusedOnlyIfBusy
<1>1. ASSUME RxInv, BusyOK, Next, NEW m \in Messages, ack' # NoAck, ack'.msg = m,
   ack'.block = {}
      PROVE  ~lastSegComplete \/ (busy[m[1]] = m[2] /\ Cardinality(received[m]) > 0)
  <2>1. ASSUME NEW n \in Messages, NEW segO \in Segments(n), ParseSegmentedAccessMessage(n,
     segO)
        PROVE  ~lastSegComplete \/ (busy[m[1]] = m[2] /\ Cardinality(received[m]) > 0)
    <3>0. 0 \in Segments(n)
      BY SegmentedRxAssumption DEF Segments
    <3>1. /\ ack' = [dst |-> n[1], msg |-> n, block |-> {}, overtaken |-> FALSE] => n = m
          /\ ack' # [dst |-> n[1], msg |-> n, block |-> Segments(n), overtaken |-> FALSE]
      BY <1>1, <3>0
    <3>2. CASE IsBusyAuthExists(n)
      <4>1. n = m /\ busy[m[1]] = m[2]
        <5>1. ack' = [dst |-> n[1], msg |-> n, block |-> {}, overtaken |-> FALSE]
          BY <2>1, <3>2 DEF ParseSegmentedAccessMessage, RefuseBusy, SendAck
        <5> QED
          BY <3>1, <3>2, <5>1 DEF IsBusyAuthExists
      <4>2. IsFiniteSet(received[m]) /\ received[m] # {}
        <5>1. received[m] \subseteq Segments(m) /\ IsFiniteSet(Segments(m))
          <6>1. SegN[m] \in Nat /\ 0 \in Int
            BY SegmentedRxAssumption
          <6>2. IsFiniteSet(0 .. SegN[m])
            BY <6>1, FS_Interval
          <6> QED
            BY <1>1, <6>2 DEF RxInv, TypeOK, Segments
        <5> QED
          BY <1>1, <4>1, <5>1, FS_Subset DEF BusyOK
      <4> QED
        BY <4>1, <4>2, FS_CardinalityType, FS_EmptySet
    <3>3. CASE ~IsBusyAuthExists(n)
      <4>1. ~TakesOver(n) \/ ack' = [dst |-> n[1], msg |-> n, block |-> Segments(n), overtaken |-> FALSE]
              \/ ack' = NoAck
        BY <2>1, <3>3 DEF ParseSegmentedAccessMessage, SendAck, Silent
      <4> QED
        BY <1>1, <3>1, <4>1 DEF TakesOver
    <3> QED
      BY <3>2, <3>3
  <2>2. ~(Parse \/ Task \/ Clear \/ (\E task \in Tasks : Dequeue(task)))
    BY <1>1, OthersRefuseNothing
  <2> QED
    BY <1>1, <2>1, <2>2 DEF Next
<1>2. RxInv /\ BusyOK /\ [Next]_vars =>
        [\A m \in Messages :
           ack' # NoAck /\ ack'.msg = m /\ ack'.block = {}
             => ~lastSegComplete \/ (busy[m[1]] = m[2] /\ Cardinality(received[m]) > 0)]_vars
  BY <1>1
<1>3. Init => RxInv /\ BusyOK
  BY RxInit, BusyInit
<1>4. RxInv /\ BusyOK /\ [Next]_vars => RxInv' /\ BusyOK'
  BY RxStep, BusyStep
<1> QED
  BY <1>2, <1>3, <1>4, PTL DEF Spec, RefusedOnlyIfBusy

-----------------------------------------------------------------------------
(* Liveness.  The provers reason about WF and SF, not about the ENABLED in them.   *)

InTimeout == pc[Handler] \in {"segmentTimeoutTask", "giveUp"}
Taken == {"setAuth", "setSrc", "empty", "put", "size", "keepAuth", "check", "close"}

\* While a message is being received the task that gives it up is posted or running, or
\* the segment at hand has yet to post it.
TimeoutPending ==
  /\ pc \in [Threads -> {"idle"} \cup ParseLabels \cup TaskLabels]
  /\ pc[Gatt] \in {"idle"} \cup ParseLabels /\ pc[Handler] \in {"idle"} \cup TaskLabels
  /\ pc[Gatt] \in {"checkNow", "deliver"} => lastSegComplete
  /\ ~lastSegComplete => "segmentTimeoutTask" \in timers \/ InTimeout \/ pc[Gatt] \in Taken

\* A step that takes one thread from one label to another.
LEMMA Moved ==
  ASSUME pc \in [Threads -> {"idle"} \cup ParseLabels \cup TaskLabels],
         NEW t \in Threads, NEW l \in {"idle"} \cup ParseLabels \cup TaskLabels, Become(t, l)
  PROVE  /\ pc' \in [Threads -> {"idle"} \cup ParseLabels \cup TaskLabels]
         /\ pc'[t] = l /\ \A u \in Threads \ {t} : pc'[u] = pc[u]
BY DEF Become

\* How the thread of the segments moves.
LEMMA ParseMoves ==
  ASSUME TimeoutPending, Parse
  PROVE  /\ TimeoutPending' /\ pc'[Handler] = pc[Handler]
         /\ pc[Gatt] = "setAuth" => pc'[Gatt] = "setSrc"
         /\ pc[Gatt] = "setSrc" => pc'[Gatt] = "empty"
         /\ pc[Gatt] = "empty" => pc'[Gatt] = "put"
         /\ pc[Gatt] = "put" => pc'[Gatt] = "size"
         /\ pc[Gatt] = "size" => pc'[Gatt] \in {"keepAuth", "close"}
         /\ pc[Gatt] = "keepAuth" => pc'[Gatt] = "check"
         /\ pc[Gatt] = "check" => "segmentTimeoutTask" \in timers'
         /\ pc[Gatt] = "close" => lastSegComplete'
         /\ "segmentTimeoutTask" \in timers /\ ~lastSegComplete
              => lastSegComplete' \/ "segmentTimeoutTask" \in timers'
<1> USE SegmentedRxAssumption DEF Threads, ParseLabels, TimeoutPending
<1>1. CASE ReadLastSegSrc \/ SaveCompletedSeqAuth \/ Open
  BY <1>1 DEF ReadLastSegSrc, SaveCompletedSeqAuth, Open, Become, last, Taken, InTimeout
<1>2. CASE SetAuth \/ SetSrc \/ Empty \/ Put
  BY <1>2 DEF SetAuth, SetSrc, Empty, Put, Become, last, Taken, InTimeout
<1>3. CASE Size
  BY <1>3 DEF Size, Become, last, Taken, InTimeout
<1>4. CASE KeepAuth
  BY <1>4 DEF KeepAuth, Become, last, Taken, InTimeout
<1>6. CASE Check
  <2>1. timers' = Tasks /\ pc[Gatt] = "check" /\ Become(Gatt,
     "idle") /\ lastSegComplete' = lastSegComplete
    BY <1>6 DEF Check, CheckSegmentBlock, last
  <2>2. "segmentTimeoutTask" \in timers'
    BY <2>1 DEF Tasks
  <2>3. /\ pc' \in [Threads -> {"idle"} \cup ParseLabels \cup TaskLabels]
        /\ pc'[Gatt] = "idle" /\ pc'[Handler] = pc[Handler]
    BY <2>1, Moved
  <2> QED
    BY <2>1, <2>2, <2>3 DEF InTimeout
<1>5. CASE Close \/ CheckNow \/ Deliver
  BY <1>5 DEF Close, CheckNow, Deliver, CheckSegmentBlock, Become, last, Taken, InTimeout
<1> QED
  BY <1>1, <1>2, <1>3, <1>4, <1>5, <1>6 DEF Parse

\* How the thread of the tasks moves.
LEMMA TaskMoves ==
  ASSUME TimeoutPending, Task
  PROVE  /\ TimeoutPending' /\ pc'[Gatt] = pc[Gatt]
         /\ pc[Handler] = "segmentTimeoutTask" => pc'[Handler] = "giveUp"
         /\ pc[Handler] = "giveUp" => lastSegComplete'
         /\ pc[Handler] = "forgetSrc" => pc'[Handler] = "forgetAuth"
         /\ pc[Handler] = "mAccessSegCheckTask" => pc'[Handler] = "clone"
         /\ pc[Handler] = "clone" => pc'[Handler] \in {"idle", "post"}
         /\ pc[Handler] \in {"post", "forgetAuth"} => pc'[Handler] = "idle"
         /\ "segmentTimeoutTask" \in timers => "segmentTimeoutTask" \in timers'
<1> USE SegmentedRxAssumption DEF Threads, TaskLabels, Tasks, Forgetting, TimeoutPending
<1>1. CASE ReadSrc \/ PostAgain
  BY <1>1 DEF ReadSrc, PostAgain, Become, last, Taken, InTimeout
<1>2. CASE SendSegmentBlockAck
  BY <1>2 DEF SendSegmentBlockAck, Become, last, Taken, InTimeout
<1>3. CASE SegmentTimeout \/ GiveUp
  BY <1>3 DEF SegmentTimeout, GiveUp, Become, last, Taken, InTimeout
<1>4. CASE ForgetSrc \/ ForgetAuth
  BY <1>4 DEF ForgetSrc, ForgetAuth, Become, last, Taken, InTimeout
<1> QED
  BY <1>1, <1>2, <1>3, <1>4 DEF Task

\* The other steps.
LEMMA OthersMove ==
  ASSUME TimeoutPending,
         \/ \E m \in Messages : \E segO \in Segments(m) : ParseSegmentedAccessMessage(m, segO)
         \/ Clear \/ (\E task \in Tasks : Dequeue(task)) \/ UNCHANGED vars
  PROVE  /\ TimeoutPending'
         /\ pc'[Gatt] = pc[Gatt] \/ pc[Gatt] = "idle"
         /\ pc'[Handler] = pc[Handler] \/ pc[Handler] = "idle"
         /\ ~lastSegComplete => \/ lastSegComplete'
                                \/ "segmentTimeoutTask" \in timers => "segmentTimeoutTask" \in timers'
                                \/ pc'[Handler] = "segmentTimeoutTask"
<1> USE SegmentedRxAssumption DEF Threads, TimeoutPending
<1>1. ASSUME NEW m \in Messages, NEW segO \in Segments(m), ParseSegmentedAccessMessage(m, segO)
      PROVE  /\ TimeoutPending' /\ timers' = timers /\ pc[Gatt] = "idle" /\ pc'[Handler] = pc[Handler]
  <2>1. /\ pc[Gatt] = "idle" /\ timers' = timers /\ lastSegComplete' = lastSegComplete
    BY <1>1 DEF ParseSegmentedAccessMessage, last, Idle
  <2>2. pc' = pc \/ \E l \in {"readSrc", "put"} : Become(Gatt, l)
    BY <1>1 DEF ParseSegmentedAccessMessage
  <2>3. pc' \in [Threads -> {"idle"} \cup ParseLabels \cup TaskLabels] /\ pc'[Handler] = pc[Handler]
        /\ pc'[Gatt] \in {"idle", "readSrc", "put"}
    BY <2>1, <2>2, Moved DEF ParseLabels
  <2> QED
    BY <2>1, <2>3 DEF Taken, InTimeout, ParseLabels
<1>2. CASE Clear
  BY <1>2 DEF Clear
<1>3. ASSUME NEW task \in Tasks, Dequeue(task)
      PROVE  /\ TimeoutPending' /\ pc'[Gatt] = pc[Gatt] /\ pc[Handler] = "idle"
             /\ "segmentTimeoutTask" \in timers
                  => "segmentTimeoutTask" \in timers' \/ pc'[Handler] = "segmentTimeoutTask"
  <2>1. /\ pc[Handler] = "idle" /\ timers' = timers \ {task} /\ lastSegComplete' = lastSegComplete
        /\ Become(Handler, task)
    BY <1>3 DEF Dequeue, last, Idle
  <2>2. task \in TaskLabels
    BY DEF TaskLabels
  <2>3. /\ pc' \in [Threads -> {"idle"} \cup ParseLabels \cup TaskLabels] /\ pc'[Handler] = task
        /\ pc'[Gatt] = pc[Gatt]
    BY <2>1, <2>2, Moved
  <2> QED
    BY <2>1, <2>2, <2>3 DEF InTimeout
<1>4. CASE UNCHANGED vars
  BY <1>4 DEF vars, last, Taken, InTimeout
<1> QED
  BY <1>1, <1>2, <1>3, <1>4

\* TimeoutPending at the start.
LEMMA TimeoutPendingInit == Init => TimeoutPending
BY SegmentedRxAssumption DEF Init, TimeoutPending, Threads

\* ReceptionEnds: whatever arrives, the buffer does not stay reserved for ever.  The segment
\* that reserves it posts the task that gives it up, which stays posted until it runs; the
\* handler's thread comes back to its queue, and takes it.  Each new segment may restart
\* the delay, so the task must be served if it is due again and again.
THEOREM ReceptionsEnd == Spec /\ []GuardsSuffice => ReceptionEnds
<1> DEFINE G(l) == pc[Gatt] = l
           H(l) == pc[Handler] = l
           Posted == "segmentTimeoutTask" \in timers
<1>1. TimeoutPending /\ [Next]_vars => TimeoutPending'
  BY ParseMoves, TaskMoves, OthersMove DEF Next
<1>2. TimeoutPending /\ ~lastSegComplete =>
        \/ Posted \/ H("segmentTimeoutTask") \/ H("giveUp")
        \/ G("setAuth") \/ G("setSrc") \/ G("empty") \/ G("put") \/ G("size")
        \/ G("keepAuth") \/ G("check") \/ G("close")
  BY DEF TimeoutPending, InTimeout, Taken
<1>3. ASSUME TimeoutPending, [Next]_vars
      PROVE  /\ G("setAuth") => G("setAuth")' \/ G("setSrc")'
             /\ G("setSrc") => G("setSrc")' \/ G("empty")'
             /\ G("empty") => G("empty")' \/ G("put")'
             /\ G("put") => G("put")' \/ G("size")'
             /\ G("size") => G("size")' \/ G("keepAuth")' \/ G("close")'
             /\ G("keepAuth") => G("keepAuth")' \/ G("check")'
             /\ G("check") => G("check")' \/ Posted'
             /\ G("close") => G("close")' \/ lastSegComplete'
  BY <1>3, ParseMoves, TaskMoves, OthersMove DEF Next
<1>4. ASSUME TimeoutPending, <<Parse>>_vars
      PROVE  /\ G("setAuth") => G("setSrc")'
             /\ G("setSrc") => G("empty")'
             /\ G("empty") => G("put")'
             /\ G("put") => G("size")'
             /\ G("size") => G("keepAuth")' \/ G("close")'
             /\ G("keepAuth") => G("check")'
             /\ G("check") => Posted'
             /\ G("close") => lastSegComplete'
  BY <1>4, ParseMoves
<1>5. ASSUME TimeoutPending, [Next]_vars
      PROVE  /\ H("segmentTimeoutTask") => H("segmentTimeoutTask")' \/ H("giveUp")'
             /\ H("giveUp") => H("giveUp")' \/ lastSegComplete'
             /\ H("mAccessSegCheckTask") => H("mAccessSegCheckTask")' \/ H("clone")'
             /\ H("clone") => H("clone")' \/ H("idle")' \/ H("post")'
             /\ H("post") => H("post")' \/ H("idle")'
             /\ H("forgetSrc") => H("forgetSrc")' \/ H("forgetAuth")'
             /\ H("forgetAuth") => H("forgetAuth")' \/ H("idle")'
             /\ Posted /\ ~lastSegComplete => Posted' \/ H("segmentTimeoutTask")' \/ lastSegComplete'
  BY <1>5, ParseMoves, TaskMoves, OthersMove DEF Next
<1>6. ASSUME TimeoutPending, <<Task>>_vars
      PROVE  /\ H("segmentTimeoutTask") => H("giveUp")'
             /\ H("giveUp") => lastSegComplete'
             /\ H("mAccessSegCheckTask") => H("clone")'
             /\ H("clone") => H("idle")' \/ H("post")'
             /\ H("post") => H("idle")'
             /\ H("forgetSrc") => H("forgetAuth")'
             /\ H("forgetAuth") => H("idle")'
  BY <1>6, TaskMoves
<1>7. TimeoutPending =>
        \/ H("idle") \/ H("segmentTimeoutTask") \/ H("giveUp") \/ H("mAccessSegCheckTask")
        \/ H("clone") \/ H("post") \/ H("forgetSrc") \/ H("forgetAuth")
  BY DEF TimeoutPending, TaskLabels, Tasks, Forgetting
<1>8. ASSUME TimeoutPending, <<Dequeue("segmentTimeoutTask")>>_vars
      PROVE  H("segmentTimeoutTask")'
  BY <1>8, SegmentedRxAssumption DEF TimeoutPending, Dequeue, Become, Threads
<1>9. GuardsSuffice =>
        /\ (G("setAuth") \/ G("setSrc") \/ G("empty") \/ G("put") \/ G("size")
              \/ G("keepAuth") \/ G("check") \/ G("close")) => ENABLED <<Parse>>_vars
        /\ H("idle") \/ ENABLED <<Task>>_vars
        /\ H("segmentTimeoutTask") \/ H("giveUp") => ENABLED <<Task>>_vars
        /\ H("idle") /\ Posted => ENABLED <<Dequeue("segmentTimeoutTask")>>_vars
  BY DEF GuardsSuffice, Idle
<1> HIDE DEF G, H, Posted
<1>10. Spec /\ []GuardsSuffice => []TimeoutPending
  BY <1>1, TimeoutPendingInit, PTL DEF Spec
<1>11. Spec /\ []GuardsSuffice => 
        [](~lastSegComplete =>
             <>(lastSegComplete \/ Posted \/ H("segmentTimeoutTask") \/ H("giveUp")))
  BY <1>2, <1>3, <1>4, <1>9, <1>10, PTL DEF Spec, Fairness
<1>12. Spec /\ []GuardsSuffice => []((H("segmentTimeoutTask") \/ H("giveUp")) => <>lastSegComplete)
  BY <1>5, <1>6, <1>9, <1>10, PTL DEF Spec, Fairness
<1>13. Spec /\ []GuardsSuffice => []<>(lastSegComplete \/ H("idle"))
  BY <1>5, <1>6, <1>7, <1>9, <1>10, <1>12, PTL DEF Spec, Fairness
<1>14. Spec /\ []GuardsSuffice => [](Posted => <>lastSegComplete)
  BY <1>5, <1>8, <1>9, <1>10, <1>12, <1>13, PTL DEF Spec, Fairness
<1> QED
  BY <1>11, <1>12, <1>14, PTL DEF ReceptionEnds
=============================================================================
