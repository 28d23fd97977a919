------------------------ MODULE SequenceNumberProofs ------------------------
(***************************************************************************)
(* Proofs about SequenceNumber, for any set of threads: the type           *)
(* invariant, and that nonces increase and a restart is fresh as long as   *)
(* no thread has changed what another was working with.                    *)
(***************************************************************************)
EXTENDS SequenceNumber, TLAPS

-----------------------------------------------------------------------------
(* The inductive invariants *)

\* the locals of a thread, whatever the other threads do
JobOK ==
  \A t \in Threads :
    pc[t] \in {"setIvIndex", "onIvUpdated"} =>
      job[t].iv \in 0 .. MaxIv /\ job[t].seq \in 0 .. MaxIv

\* seqNo has not reached the number the next session starts from
StoredInTime ==
  saved.seq % Step = 0 /\ seqNo < saved.seq + Step

TypeInv == TypeOK /\ JobOK /\ StoredInTime

Ivs == (0 .. MaxIv) \cup {Missing}

\* ivIndex against initIvIndex while no operation is changing them; the third
\* case is an IV index learned from a beacon with the update flag
IvShape ==
  \/ ~updating /\ ivIndex = initIv
  \/ updating /\ ivIndex = initIv + 1 /\ initIv < MaxIv
  \/ updating /\ ivIndex = Missing + 1 /\ initIv = Missing
  \/ updating /\ ivIndex = initIv /\ initIv \in 1 .. MaxIv

\* the call of onIvUpdated that is to come
PendingIv(t) ==
  \/ initIv = Missing /\ job[t].seq = job[t].iv /\ (updating => job[t].iv > 0)
  \/ /\ initIv # Missing
     /\ job[t].seq = (IF updating THEN job[t].iv - 1 ELSE job[t].iv)
     /\ job[t].seq >= initIv

\* the number of the next PDU to go on the air
NextSeq(t) ==
  IF pc[t] = "send" /\ job[t].seq # Unread THEN job[t].seq + job[t].out ELSE seqNo

SendShape(t) ==
  /\ job[t].size > 0 /\ job[t].made <= job[t].size /\ job[t].out < job[t].size
  /\ job[t].out > 0 => job[t].made = job[t].size
  /\ job[t].made > 0 => job[t].seq # Unread /\ job[t].iv # Unread
  /\ job[t].seq # Unread => job[t].seq >= 0 /\ job[t].seq + job[t].made = seqNo
  /\ job[t].iv # Unread => job[t].iv = TransmitIv

\* t has given out numbers or is changing the IV index
Busy(t) == pc[t] \in Updating \/ (pc[t] = "send" /\ job[t].made > 0)

Alone(t) == \A u \in Threads \ {t} : ~Busy(u)

\* what a thread t keeps that alone is busy, or with no busy thread beside it
Fresh(t) ==
  /\ initIv \in Ivs /\ saved.iv \in Ivs
  /\ initIv = saved.iv \/ IvBefore(initIv, saved.iv)
  /\ NonceBefore(last, initIv, NextSeq(t))
  /\ pc[t] \in {"idle", "send"} =>
       IvShape /\ NonceBefore(last, TransmitIv, NextSeq(t))
  /\ pc[t] = "send" => SendShape(t)
  /\ pc[t] = "check" =>
       updating /\ ivIndex = initIv /\ (initIv < MaxIv \/ initIv = Missing)
  /\ pc[t] \in {"setIvIndex", "onIvUpdated"} => PendingIv(t)
  /\ pc[t] = "onIvUpdated" => ivIndex = job[t].iv

\* as long as nothing has been disturbed: one thread at a time is busy, and what the
\* others have read is still so
OneByOne ==
  /\ \A t, u \in Threads : Busy(t) /\ Busy(u) => t = u
  /\ \A t \in Threads : pc[t] = "send" => SendShape(t)
  /\ \A t \in Threads : Alone(t) => Fresh(t)

FreshInv == ~cleared /\ ~raced => OneByOne

-----------------------------------------------------------------------------
(* Arithmetic of the stored sequence number. *)

\* A number that is a multiple of Step is stored so that the next session
\* starts one Step above it.
LEMMA RoundMultiple ==
  ASSUME NEW s \in Nat, s % Step = 0
  PROVE  InitSequenceNumber(s) = s + Step
BY SequenceNumberAssumption DEF InitSequenceNumber

\* The next session starts at a multiple of Step.
LEMMA RoundIsMultiple ==
  ASSUME NEW s \in Nat
  PROVE  /\ InitSequenceNumber(s) \in Nat
         /\ InitSequenceNumber(s) % Step = 0
BY SequenceNumberAssumption DEF InitSequenceNumber

\* Between two multiples of Step there is no other.
LEMMA NoMultipleBetween ==
  ASSUME NEW a \in Nat, NEW b \in Nat, a % Step = 0, a < b, b < a + Step
  PROVE  b % Step # 0
<1> SUFFICES ASSUME b % Step = 0 PROVE FALSE
  OBVIOUS
<1> DEFINE i == a \div Step
           j == b \div Step
<1>1. i \in Nat /\ j \in Nat /\ a = Step * i /\ b = Step * j
  BY SequenceNumberAssumption
<1> HIDE DEF i, j
<1>2. CASE j <= i
  <2>1. Step * (i - j) >= 0
    BY <1>1, <1>2, SequenceNumberAssumption
  <2>2. Step * (i - j) = Step * i - Step * j
    BY <1>1, SequenceNumberAssumption
  <2> QED
    BY <2>1, <2>2, <1>1, SequenceNumberAssumption
<1>3. CASE j >= i + 1
  <2>1. Step * (j - i - 1) >= 0
    BY <1>1, <1>3, SequenceNumberAssumption
  <2>2. Step * (j - i - 1) = Step * j - Step * i - Step
    BY <1>1, SequenceNumberAssumption
  <2> QED
    BY <2>1, <2>2, <1>1, SequenceNumberAssumption
<1> QED
  BY <1>1, <1>2, <1>3

-----------------------------------------------------------------------------
(* Type correctness, for any set of threads. *)

\* The strengthened type invariant holds initially.
LEMMA TypeInit == Init => TypeInv
<1> SUFFICES ASSUME Init PROVE TypeInv
  OBVIOUS
<1>1. Step % Step = 0
  BY SequenceNumberAssumption
<1>2. PICK iv \in StartIvs :
        /\ ivIndex = iv /\ initIv = iv /\ saved = [seq |-> Step, iv |-> iv]
  BY DEF Init
<1>3. iv \in 0 .. Missing
  BY SequenceNumberAssumption
<1>4. seqNo = Step /\ link = "down"
  BY DEF Init
<1>10. updating \in BOOLEAN /\ cleared \in BOOLEAN
  BY DEF Init
<1>12. raced \in BOOLEAN
  BY DEF Init
<1>11. saved \in [seq : Nat, iv : 0 .. Missing]
  BY <1>2, <1>3, SequenceNumberAssumption
<1>5. pc \in [Threads -> Labels] /\ job \in [Threads -> Job]
  BY DEF Init, Labels, Job, NoJob, Unread
<1>6. last \in Nonce
  BY SequenceNumberAssumption DEF Init, Nonce, Unread
<1>7. TypeOK
  BY <1>2, <1>3, <1>4, <1>5, <1>6, <1>10, <1>11, <1>12, SequenceNumberAssumption DEF TypeOK
<1>8. JobOK
  BY DEF Init, JobOK
<1>9. StoredInTime
  BY <1>1, <1>2, <1>4, SequenceNumberAssumption DEF StoredInTime
<1> QED
  BY <1>7, <1>8, <1>9 DEF TypeInv

\* One more number used: it is stored if the next session would reach it.
LEMMA StoreStep ==
  ASSUME TypeInv, seqNo' = seqNo + 1, saved' = OnSequenceNumberUpdate(seqNo + 1)
  PROVE  StoredInTime' /\ saved' \in [seq : Nat, iv : 0 .. Missing]
<1> USE DEF TypeInv, TypeOK
<1>1. ToInt(ivIndex) \in 0 .. Missing
  BY SequenceNumberAssumption DEF ToInt
<1>2. CASE (seqNo + 1) % Step = 0
  BY <1>1, <1>2, SequenceNumberAssumption DEF OnSequenceNumberUpdate, StoredInTime
<1>3. CASE (seqNo + 1) % Step # 0
  <2>1. saved' = saved
    BY <1>3 DEF OnSequenceNumberUpdate
  <2>2. seqNo + 1 # saved.seq + Step
    <3>1. (saved.seq + Step) % Step = 0
      BY RoundMultiple, RoundIsMultiple DEF StoredInTime
    <3> QED
      BY <3>1, <1>3
  <2> QED
    BY <2>1, <2>2, SequenceNumberAssumption DEF StoredInTime
<1> QED
  BY <1>2, <1>3

\* The history of races is a Boolean.
LEMMA RacedTyped == TypeOK /\ [Next]_vars => raced' \in BOOLEAN
<1> SUFFICES ASSUME TypeOK, [Next]_vars PROVE raced' \in BOOLEAN
  OBVIOUS
<1>1. ASSUME NEW t \in Threads, Watch(t) PROVE raced' \in BOOLEAN
  BY <1>1 DEF Watch
<1>2. CASE Next
  BY <1>1, <1>2 DEF Next, TypeOK, BeginSend, ReadSequenceNumber, ReadTransmitIv,
     CreateNetworkPdu, SendNetworkPdu, ReceiveBeacon, SetIvIndex, OnIvUpdated, Connect,
     CheckSequenceNumber, StartIvUpdate, Clear, Disconnect, Restart
<1> QED
  BY <1>2 DEF vars, TypeOK

\* Every step keeps it.
LEMMA TypeStep == TypeInv /\ [Next]_vars => TypeInv'
<1> SUFFICES ASSUME TypeInv, [Next]_vars PROVE TypeInv'
  OBVIOUS
<1>0. raced' \in BOOLEAN
  BY RacedTyped DEF TypeInv
<1> USE <1>0, SequenceNumberAssumption
<1> USE DEF TypeInv, TypeOK, Job, Labels, Become, fields
<1>1. ASSUME NEW t \in Threads, BeginSend(t) PROVE TypeInv'
  <2>1. PICK k \in 1 .. MaxPdus : job' = [job EXCEPT ![t] = [NoJob EXCEPT !.size = k]]
    BY <1>1 DEF BeginSend
  <2>2. job' \in [Threads -> Job]
    BY <2>1 DEF NoJob, Unread
  <2>3. TypeOK'
    BY <1>1, <2>2 DEF BeginSend
  <2>4. JobOK'
    BY <1>1, <2>1 DEF BeginSend, JobOK
  <2> QED
    BY <1>1, <2>3, <2>4 DEF BeginSend, StoredInTime
<1>2. ASSUME NEW t \in Threads, ReadSequenceNumber(t) PROVE TypeInv'
  BY <1>2 DEF ReadSequenceNumber, JobOK, StoredInTime
<1>3. ASSUME NEW t \in Threads, ReadTransmitIv(t) PROVE TypeInv'
  <2>1. TransmitIv \in Int
    BY DEF TransmitIv
  <2> QED
    BY <2>1, <1>3 DEF ReadTransmitIv, JobOK, StoredInTime
<1>4. ASSUME NEW t \in Threads, CreateNetworkPdu(t) PROVE TypeInv'
  <2>1. StoredInTime' /\ saved' \in [seq : Nat, iv : 0 .. Missing]
    BY <1>4, StoreStep DEF CreateNetworkPdu
  <2>2. TypeOK'
    BY <1>4, <2>1 DEF CreateNetworkPdu
  <2>3. JobOK'
    BY <1>4 DEF CreateNetworkPdu, JobOK
  <2> QED
    BY <2>1, <2>2, <2>3
<1>5. ASSUME NEW t \in Threads, SendNetworkPdu(t) PROVE TypeInv'
  <2>1. last' \in Nonce
    <3>1. (~last.odd) \in BOOLEAN
      OBVIOUS
    <3>2. job[t].iv \in Int /\ job[t].seq + job[t].out \in Int
      OBVIOUS
    <3>3. CASE link = "down"
      BY <1>5, <3>3 DEF SendNetworkPdu
    <3>4. CASE link # "down"
      <4>1. last' = [iv |-> job[t].iv, seq |-> job[t].seq + job[t].out,
                     odd |-> ~last.odd]
        BY <1>5, <3>4 DEF SendNetworkPdu
      <4> QED
        BY <4>1, <3>1, <3>2 DEF Nonce
    <3> QED
      BY <3>3, <3>4
  <2>2. pc' \in [Threads -> Labels] /\ job' \in [Threads -> Job]
    BY <1>5 DEF SendNetworkPdu, NoJob, Unread
  <2>3. JobOK'
    BY <1>5 DEF SendNetworkPdu, JobOK
  <2> QED
    BY <1>5, <2>1, <2>2, <2>3 DEF SendNetworkPdu, StoredInTime
<1>6. ASSUME NEW t \in Threads, ReceiveBeacon(t) PROVE TypeInv'
  <2>1. PICK iv \in 0 .. MaxIv, upd \in BOOLEAN :
          /\ upd => iv > 0
          /\ updating' = upd
          /\ job' = [job EXCEPT ![t] = IvJob(iv, UpdatedIv(iv, upd))]
    BY <1>6 DEF ReceiveBeacon
  <2>2. UpdatedIv(iv, upd) \in 0 .. MaxIv
    BY <2>1 DEF UpdatedIv
  <2>3. job' \in [Threads -> Job]
    <3>1. IvJob(iv, UpdatedIv(iv, upd)) \in Job
      BY <2>1, <2>2 DEF IvJob
    <3> QED
      BY <2>1, <3>1
  <2>4. TypeOK'
    BY <1>6, <2>1, <2>3 DEF ReceiveBeacon
  <2>5. JobOK'
    BY <1>6, <2>1, <2>2 DEF ReceiveBeacon, JobOK, IvJob
  <2> QED
    BY <1>6, <2>4, <2>5 DEF ReceiveBeacon, StoredInTime
<1>7. ASSUME NEW t \in Threads, SetIvIndex(t) PROVE TypeInv'
  BY <1>7 DEF SetIvIndex, JobOK, StoredInTime
<1>8. ASSUME NEW t \in Threads, OnIvUpdated(t) PROVE TypeInv'
  <2>1. job[t].seq \in 0 .. MaxIv
    BY <1>8 DEF OnIvUpdated, JobOK
  <2>2. job' \in [Threads -> Job]
    BY <1>8 DEF OnIvUpdated, NoJob, Unread
  <2>3. JobOK'
    BY <1>8 DEF OnIvUpdated, JobOK
  <2>4. 0 % Step = 0
    OBVIOUS
  <2>5. CASE job[t].seq > initIv \/ initIv = Missing
    <3>1. /\ initIv' = job[t].seq /\ seqNo' = 0
          /\ saved' = [seq |-> 0, iv |-> job[t].seq]
      BY <1>8, <2>5 DEF OnIvUpdated
    <3> QED
      BY <1>8, <2>1, <2>2, <2>3, <2>4, <3>1 DEF OnIvUpdated, StoredInTime
  <2>6. CASE ~(job[t].seq > initIv \/ initIv = Missing)
    BY <1>8, <2>2, <2>3, <2>6 DEF OnIvUpdated, StoredInTime
  <2> QED
    BY <2>5, <2>6
<1>9. ASSUME NEW t \in Threads, Connect(t) PROVE TypeInv'
  BY <1>9 DEF Connect, JobOK, StoredInTime
<1>10. ASSUME NEW t \in Threads, CheckSequenceNumber(t) PROVE TypeInv'
  BY <1>10 DEF CheckSequenceNumber, JobOK, StoredInTime
<1>11. ASSUME NEW t \in Threads, StartIvUpdate(t) PROVE TypeInv'
  BY <1>11 DEF StartIvUpdate, JobOK, StoredInTime
<1>12. ASSUME NEW t \in Threads, Clear(t) PROVE TypeInv'
  BY <1>12 DEF Clear, ClearFields, JobOK, StoredInTime
<1>13. ASSUME NEW t \in Threads, Disconnect(t) PROVE TypeInv'
  BY <1>13 DEF Disconnect, ClearFields, JobOK, StoredInTime
<1>14. CASE Restart
  <2>1. /\ InitSequenceNumber(saved.seq) \in Nat
        /\ InitSequenceNumber(saved.seq) % Step = 0
    BY RoundIsMultiple
  <2>2. job' \in [Threads -> Job]
    BY <1>14 DEF Restart, NoJob, Unread
  <2>3. TypeOK'
    <3>1. saved' \in [seq : Nat, iv : 0 .. Missing]
      BY <1>14, <2>1 DEF Restart, Setup
    <3>2. pc' \in [Threads -> Labels]
      BY <1>14 DEF Restart
    <3>3. updating' \in BOOLEAN
      BY <1>14 DEF Restart, Setup
    <3> QED
      BY <1>14, <2>1, <2>2, <3>1, <3>2, <3>3 DEF Restart, Setup
  <2>4. JobOK'
    BY <1>14 DEF Restart, JobOK
  <2>5. StoredInTime'
    BY <1>14, <2>1 DEF Restart, Setup, StoredInTime
  <2> QED
    BY <2>3, <2>4, <2>5
<1>15. CASE UNCHANGED vars
  BY <1>15 DEF vars, JobOK, StoredInTime
<1> QED
  BY <1>1, <1>2, <1>3, <1>4, <1>5, <1>6, <1>7, <1>8, <1>9, <1>10, <1>11,
     <1>12, <1>13, <1>14, <1>15 DEF Next

\* The state keeps its shape, whatever the number of threads.
THEOREM TypeCorrect == Spec => []TypeOK
<1>1. TypeInv => TypeOK
  BY DEF TypeInv
<1> QED
  BY TypeInit, TypeStep, <1>1, PTL DEF Spec

-----------------------------------------------------------------------------
(* Nonces increase. *)

\* A nonce below a pair is below every later pair.
LEMMA BeforeTrans ==
  ASSUME NEW a \in Nonce, NEW iv \in Int, NEW s \in Int,
         NEW iv2 \in Int, NEW s2 \in Int,
         NonceBefore(a, iv, s), IvBefore(iv, iv2) \/ (iv = iv2 /\ s <= s2)
  PROVE  NonceBefore(a, iv2, s2)
BY SequenceNumberAssumption DEF NonceBefore, IvBefore, Nonce

\* The cast leaves an IV index alone.
LEMMA ToIntKeeps == \A iv \in 0 .. Missing : ToInt(iv) = iv
BY SequenceNumberAssumption DEF ToInt

\* Initially the stored values are above every nonce used, there being none.
LEMMA FreshInit == Init => FreshInv
<1> SUFFICES ASSUME Init, NEW t \in Threads PROVE pc[t] = "idle" /\ ~Busy(t) /\ Fresh(t)
  BY DEF FreshInv, OneByOne
<1> USE SequenceNumberAssumption
<1>1. PICK iv \in StartIvs :
        /\ seqNo = Step /\ ivIndex = iv /\ initIv = iv /\ updating = FALSE
        /\ saved = [seq |-> Step, iv |-> iv]
  BY DEF Init
<1>2. pc[t] = "idle" /\ NextSeq(t) = Step
  BY <1>1 DEF Init, NextSeq
<1>3. initIv \in Ivs /\ saved.iv = initIv
  BY <1>1 DEF Ivs
<1>4. last.iv = Missing /\ last.seq = -1
  BY DEF Init, Unread
<1>5. NonceBefore(last, iv, Step)
  BY <1>4 DEF NonceBefore, IvBefore
<1>6. TransmitIv = iv /\ IvShape
  BY <1>1 DEF TransmitIv, IvShape
<1>7. ~Busy(t)
  BY <1>2 DEF Busy, Updating
<1> QED
  BY <1>1, <1>2, <1>3, <1>5, <1>6, <1>7 DEF Fresh

\* the steps of a thread
Does(t) ==
  \/ BeginSend(t) \/ ReadSequenceNumber(t) \/ ReadTransmitIv(t)
  \/ CreateNetworkPdu(t) \/ SendNetworkPdu(t)
  \/ ReceiveBeacon(t) \/ SetIvIndex(t) \/ OnIvUpdated(t)
  \/ Connect(t) \/ CheckSequenceNumber(t) \/ StartIvUpdate(t)
  \/ Clear(t) \/ Disconnect(t)

\* There are no other steps, and none takes a disturbance back.
LEMMA Steps ==
  /\ Next <=> Restart \/ \E t \in Threads : Does(t)
  /\ \A t \in Threads : Does(t) => Watch(t)
  /\ \A t \in Threads : Does(t) /\ ~cleared' => ~cleared
  /\ Restart => cleared' = cleared /\ raced' = raced
<1>1. Next <=> Restart \/ \E t \in Threads : Does(t)
  BY DEF Next, Does
<1>2. ASSUME NEW t \in Threads, Does(t) PROVE Watch(t)
  BY <1>2 DEF Does, BeginSend, ReadSequenceNumber, ReadTransmitIv, CreateNetworkPdu,
     SendNetworkPdu, ReceiveBeacon, SetIvIndex, OnIvUpdated, Connect,
     CheckSequenceNumber, StartIvUpdate, Clear, Disconnect
<1>3. ASSUME NEW t \in Threads, Does(t), ~cleared' PROVE ~cleared
  BY <1>3 DEF Does, BeginSend, ReadSequenceNumber, ReadTransmitIv, CreateNetworkPdu,
     SendNetworkPdu, ReceiveBeacon, SetIvIndex, OnIvUpdated, Connect,
     CheckSequenceNumber, StartIvUpdate, Clear, Disconnect, ClearFields
<1>4. Restart => cleared' = cleared /\ raced' = raced
  BY DEF Restart
<1> QED
  BY <1>1, <1>2, <1>3, <1>4

\* A step of the thread that is busy, or of any when none is, keeps the stored values
\* above the nonces used.
LEMMA OwnStep ==
  ASSUME NEW t \in Threads, TypeInv, ~cleared', Fresh(t), Does(t), TypeInv'
  PROVE  Fresh(t)'
<1> USE SequenceNumberAssumption
<1> USE DEF TypeInv, TypeOK, Job, Labels, Become, fields
<1>0. ~cleared
  BY Steps
<1>1. CASE BeginSend(t)
  <2>1. PICK k \in 1 .. MaxPdus : job' = [job EXCEPT ![t] = [NoJob EXCEPT !.size = k]]
    BY <1>1 DEF BeginSend
  <2>2. job'[t] = [NoJob EXCEPT !.size = k]
    BY <2>1
  <2>3. /\ job'[t].seq = Unread /\ job'[t].iv = Unread /\ job'[t].size = k
        /\ job'[t].made = 0 /\ job'[t].out = 0
    BY <2>2 DEF NoJob
  <2>4. SendShape(t)'
    BY <2>3 DEF SendShape, Unread
  <2>5. pc[t] = "idle" /\ pc'[t] = "send"
    BY <1>1 DEF BeginSend
  <2>6. NextSeq(t)' = NextSeq(t) /\ TransmitIv' = TransmitIv /\ IvShape' = IvShape
    BY <1>1, <2>3, <2>5 DEF BeginSend, NextSeq, TransmitIv, IvShape
  <2> QED
    BY <1>1, <2>4, <2>5, <2>6 DEF BeginSend, Fresh, NonceBefore
<1>2. CASE ReadSequenceNumber(t)
  <2>1. pc[t] = "send" /\ job[t].seq = Unread /\ job'[t] = [job[t] EXCEPT !.seq = seqNo]
        /\ pc' = pc
    BY <1>2 DEF ReadSequenceNumber
  <2>2. SendShape(t) /\ job[t].made = 0 /\ job[t].out = 0
    BY <2>1 DEF Fresh, SendShape
  <2>3. NextSeq(t) = seqNo /\ NextSeq(t)' = seqNo
    BY <1>2, <2>1, <2>2 DEF NextSeq, ReadSequenceNumber, Unread
  <2>4. TransmitIv' = TransmitIv /\ IvShape' = IvShape
    BY <1>2 DEF ReadSequenceNumber, TransmitIv, IvShape
  <2>5. SendShape(t)'
    BY <1>2, <2>1, <2>2, <2>4 DEF SendShape, ReadSequenceNumber
  <2> QED
    BY <1>2, <2>1, <2>3, <2>4, <2>5 DEF Fresh, NonceBefore, ReadSequenceNumber
<1>3. CASE ReadTransmitIv(t)
  <2>1. pc[t] = "send" /\ job[t].iv = Unread /\ job'[t] = [job[t] EXCEPT !.iv = TransmitIv]
        /\ pc' = pc
    BY <1>3 DEF ReadTransmitIv
  <2>2. TransmitIv' = TransmitIv /\ IvShape' = IvShape /\ NextSeq(t)' = NextSeq(t)
    BY <1>3, <2>1 DEF ReadTransmitIv, TransmitIv, IvShape, NextSeq
  <2>3. SendShape(t)'
    BY <1>3, <2>1, <2>2 DEF Fresh, SendShape, ReadTransmitIv
  <2> QED
    BY <1>3, <2>1, <2>2, <2>3 DEF Fresh, NonceBefore, ReadTransmitIv
<1>4. CASE CreateNetworkPdu(t)
  <2>1. pc[t] = "send" /\ job[t].seq # Unread /\ job[t].iv # Unread
        /\ job[t].made < job[t].size /\ pc' = pc /\ seqNo' = seqNo + 1
        /\ job'[t] = [job[t] EXCEPT !.made = job[t].made + 1]
    BY <1>4 DEF CreateNetworkPdu
  <2>2. TransmitIv' = TransmitIv /\ IvShape' = IvShape /\ NextSeq(t)' = NextSeq(t)
    BY <1>4, <2>1 DEF CreateNetworkPdu, TransmitIv, IvShape, NextSeq
  <2>3. SendShape(t)'
    BY <2>1, <2>2 DEF Fresh, SendShape
  <2>4. saved'.iv \in Ivs /\ (initIv = saved'.iv \/ IvBefore(initIv, saved'.iv))
    <3>1. CASE (seqNo + 1) % Step = 0
      <4>1. saved'.iv = ToInt(ivIndex)
        BY <1>4, <3>1 DEF CreateNetworkPdu, OnSequenceNumberUpdate
      <4>2. IvShape /\ initIv \in Ivs
        BY <2>1 DEF Fresh
      <4>3. CASE ivIndex \in Ivs
        <5>1. ToInt(ivIndex) = ivIndex
          BY <4>3, ToIntKeeps DEF Ivs
        <5> QED
          BY <5>1, <4>1, <4>2, <4>3 DEF IvShape, IvBefore, Ivs
      <4>4. CASE ivIndex \notin Ivs
        <5>1. ivIndex = Missing + 1 /\ initIv = Missing
          BY <4>2, <4>4 DEF IvShape, Ivs
        <5>2. ToInt(ivIndex) = 0
          BY <5>1 DEF ToInt
        <5> QED
          BY <5>1, <5>2, <4>1 DEF IvBefore, Ivs
      <4> QED
        BY <4>3, <4>4
    <3>2. CASE (seqNo + 1) % Step # 0
      BY <1>4, <3>2 DEF CreateNetworkPdu, OnSequenceNumberUpdate, Fresh
    <3> QED
      BY <3>1, <3>2
  <2> QED
    BY <1>4, <2>1, <2>2, <2>3, <2>4 DEF Fresh, NonceBefore, CreateNetworkPdu
<1>5. CASE SendNetworkPdu(t)
  <2>1. pc[t] = "send" /\ job[t].made = job[t].size
    BY <1>5 DEF SendNetworkPdu
  <2>2. SendShape(t) /\ IvShape /\ initIv \in Ivs /\ NonceBefore(last, TransmitIv, NextSeq(t))
    BY <2>1 DEF Fresh
  <2>3. /\ job[t].seq # Unread /\ job[t].iv = TransmitIv
        /\ job[t].seq + job[t].size = seqNo /\ job[t].out < job[t].size
    BY <2>1, <2>2 DEF SendShape
  <2>4. NextSeq(t) = job[t].seq + job[t].out
    BY <2>1, <2>3 DEF NextSeq
  <2>5. NonceBefore(last', TransmitIv, NextSeq(t) + 1)
    <3>1. CASE link = "down"
      BY <1>5, <3>1, <2>2, <2>4 DEF SendNetworkPdu, NonceBefore, Nonce
    <3>2. CASE link # "down"
      <4>1. last'.iv = TransmitIv /\ last'.seq = NextSeq(t)
        BY <1>5, <3>2, <2>3, <2>4 DEF SendNetworkPdu
      <4> QED
        BY <4>1, <2>4 DEF NonceBefore
    <3> QED
      BY <3>1, <3>2
  <2>6. NonceBefore(last', initIv, NextSeq(t) + 1)
    <3>1. TransmitIv \in Int /\ (TransmitIv = initIv \/ IvBefore(TransmitIv, initIv))
      BY <2>2 DEF IvShape, TransmitIv, IvBefore, Ivs
    <3> QED
      BY <3>1, <2>4, <2>5, BeforeTrans
  <2>7. TransmitIv' = TransmitIv /\ IvShape' = IvShape
    BY <1>5 DEF SendNetworkPdu, TransmitIv, IvShape
  <2>8. NextSeq(t)' = NextSeq(t) + 1 /\ (pc'[t] = "send" => SendShape(t)')
    <3>1. CASE job[t].out + 1 = job[t].size
      <4>1. pc'[t] = "idle"
        BY <1>5, <3>1 DEF SendNetworkPdu
      <4> QED
        BY <4>1, <1>5, <3>1, <2>3, <2>4 DEF NextSeq, SendNetworkPdu
    <3>2. CASE job[t].out + 1 # job[t].size
      <4>1. pc' = pc /\ job'[t] = [job[t] EXCEPT !.out = job[t].out + 1] /\ seqNo' = seqNo
        BY <1>5, <3>2 DEF SendNetworkPdu
      <4> QED
        <5>1. job'[t].out = job[t].out + 1 /\ job'[t].seq = job[t].seq /\ job'[t].made = job[t].made
              /\ job'[t].size = job[t].size /\ job'[t].iv = job[t].iv
          BY <4>1
        <5>2. NextSeq(t)' = job[t].seq + (job[t].out + 1)
          BY <4>1, <5>1, <2>1, <2>3 DEF NextSeq
        <5>3. job[t].seq \in Int /\ job[t].out \in Nat
          OBVIOUS
        <5>4. NextSeq(t)' = NextSeq(t) + 1
          BY <5>2, <5>3, <2>4
        <5>5. SendShape(t)'
          <6>1. job[t].out + 1 < job[t].size
            BY <5>3, <3>2, <2>3
          <6>2. TransmitIv' = TransmitIv /\ seqNo' = seqNo /\ job[t].made = job[t].size
            BY <4>1, <2>1, <2>7
          <6> QED
            BY <5>1, <6>1, <6>2, <2>2, <2>3 DEF SendShape
        <5> QED
          BY <5>4, <5>5
    <3> QED
      BY <3>1, <3>2
  <2>9. pc'[t] \in {"idle", "send"}
    BY <1>5 DEF SendNetworkPdu
  <2> QED
    BY <1>5, <2>5, <2>6, <2>7, <2>8, <2>9, <2>2 DEF Fresh, SendNetworkPdu, IvShape
<1>6. CASE ReceiveBeacon(t)
  <2>1. PICK iv \in 0 .. MaxIv, upd \in BOOLEAN :
          /\ upd => iv > 0
          /\ LearnIv(iv, upd) \/ CompleteUpdate(iv, upd) \/ LargerIv(iv, upd)
          /\ updating' = upd
          /\ job' = [job EXCEPT ![t] = IvJob(iv, UpdatedIv(iv, upd))]
    BY <1>6 DEF ReceiveBeacon
  <2>2. job'[t].iv = iv /\ job'[t].seq = UpdatedIv(iv, upd) /\ pc'[t] = "setIvIndex"
    BY <1>6, <2>1 DEF IvJob, ReceiveBeacon
  <2>3. pc[t] = "idle" /\ IvShape /\ initIv \in Ivs
    BY <1>6 DEF ReceiveBeacon, Fresh
  <2>4. PendingIv(t)'
    <3>1. CASE LearnIv(iv, upd)
      <4>1. initIv = Missing
        BY <2>3, <3>1 DEF LearnIv, IvShape, Ivs
      <4>2. UpdatedIv(iv, upd) = iv
        BY <3>1 DEF UpdatedIv, LearnIv, LargerIv
      <4> QED
        BY <1>6, <4>1, <4>2, <2>1, <2>2 DEF PendingIv, ReceiveBeacon
    <3>2. CASE CompleteUpdate(iv, upd)
      <4>1. initIv # Missing /\ iv >= initIv
        BY <2>3, <3>2 DEF CompleteUpdate, IvShape, Ivs
      <4>2. UpdatedIv(iv, upd) = iv /\ updating' = FALSE
        BY <3>2, <2>1 DEF UpdatedIv, CompleteUpdate
      <4> QED
        BY <1>6, <4>1, <4>2, <2>2 DEF PendingIv, ReceiveBeacon
    <3>3. CASE LargerIv(iv, upd)
      <4>1. initIv # Missing /\ iv > initIv
        BY <2>3, <3>3 DEF LargerIv, IvShape, Ivs
      <4>2. UpdatedIv(iv, upd) = (IF upd THEN iv - 1 ELSE iv)
        BY <3>3 DEF UpdatedIv
      <4>3. initIv' = initIv /\ updating' = upd
        BY <1>6, <2>1 DEF ReceiveBeacon
      <4>4. UpdatedIv(iv, upd) >= initIv
        BY <4>1, <4>2, <2>3 DEF Ivs
      <4> QED
        BY <4>1, <4>2, <4>3, <4>4, <2>2 DEF PendingIv
    <3> QED
      BY <2>1, <3>1, <3>2, <3>3
  <2>5. NextSeq(t) = seqNo /\ NextSeq(t)' = seqNo
    BY <1>6, <2>2, <2>3 DEF NextSeq, ReceiveBeacon
  <2> QED
    BY <1>6, <2>2, <2>4, <2>5 DEF Fresh, NonceBefore, ReceiveBeacon
<1>7. CASE SetIvIndex(t)
  <2>1. /\ pc[t] = "setIvIndex" /\ pc'[t] = "onIvUpdated" /\ ivIndex' = job[t].iv
        /\ UNCHANGED <<seqNo, initIv, updating, saved, job, last>>
    BY <1>7 DEF SetIvIndex
  <2>2. NextSeq(t)' = NextSeq(t) /\ PendingIv(t)' = PendingIv(t)
    BY <2>1 DEF NextSeq, PendingIv
  <2> QED
    BY <2>1, <2>2 DEF Fresh, NonceBefore
<1>8. CASE OnIvUpdated(t)
  <2>1. /\ pc[t] = "onIvUpdated" /\ pc'[t] = "idle"
        /\ UNCHANGED <<ivIndex, updating, last>>
    BY <1>8 DEF OnIvUpdated
  <2>2. /\ PendingIv(t) /\ ivIndex = job[t].iv /\ initIv \in Ivs
        /\ job[t].iv \in 0 .. MaxIv /\ job[t].seq \in 0 .. MaxIv
        /\ NonceBefore(last, initIv, seqNo)
    BY <2>1 DEF Fresh, JobOK, NextSeq
  <2>3. NextSeq(t)' = seqNo'
    BY <2>1 DEF NextSeq
  <2>4. CASE job[t].seq > initIv \/ initIv = Missing
    <3>1. /\ initIv' = job[t].seq /\ seqNo' = 0
          /\ saved' = [seq |-> 0, iv |-> job[t].seq]
      BY <1>8, <2>4 DEF OnIvUpdated
    <3>2. IvBefore(initIv, initIv') /\ initIv' \in Ivs
      BY <2>2, <2>4, <3>1 DEF IvBefore, Ivs
    <3>3. NonceBefore(last, initIv', 0)
      BY <3>1, <3>2, <2>2, BeforeTrans
    <3>4. IvShape'
      BY <2>1, <2>2, <2>4, <3>1 DEF IvShape, PendingIv, Ivs
    <3>5. NonceBefore(last, TransmitIv', 0)
      <4>1. CASE initIv = Missing
        <5>1. last.iv = Missing /\ TransmitIv' # Missing
          BY <4>1, <2>1, <2>2, <3>1 DEF NonceBefore, IvBefore, PendingIv, TransmitIv
        <5> QED
          BY <5>1 DEF NonceBefore, IvBefore
      <4>2. CASE initIv # Missing
        <5>1. TransmitIv' = initIv'
          BY <4>2, <2>1, <2>2, <3>1 DEF PendingIv, TransmitIv
        <5> QED
          BY <5>1, <3>3
      <4> QED
        BY <4>1, <4>2
    <3> QED
      BY <2>1, <2>3, <3>1, <3>2, <3>3, <3>4, <3>5 DEF Fresh
  <2>5. CASE ~(job[t].seq > initIv \/ initIv = Missing)
    <3>1. UNCHANGED <<initIv, seqNo, saved>> /\ job[t].seq = initIv
      <4>1. UNCHANGED <<initIv, seqNo, saved>>
        BY <1>8, <2>5 DEF OnIvUpdated
      <4>2. job[t].seq >= initIv
        BY <2>2, <2>5 DEF PendingIv
      <4>3. job[t].seq \in Int /\ initIv \in Int
        OBVIOUS
      <4>4. ~(job[t].seq > initIv)
        BY <2>5
      <4>5. \A a, b \in Int : a >= b /\ ~(a > b) => a = b
        OBVIOUS
      <4>6. job[t].seq = initIv
        BY <4>2, <4>3, <4>4, <4>5
      <4> QED
        BY <4>1, <4>6
    <3>2. IvShape' /\ TransmitIv' = initIv
      BY <2>1, <2>2, <2>5, <3>1 DEF PendingIv, IvShape, TransmitIv, Ivs
    <3> QED
      BY <2>1, <2>2, <2>3, <3>1, <3>2 DEF Fresh
  <2> QED
    BY <2>4, <2>5
<1>9. CASE Connect(t)
  <2>1. NextSeq(t)' = NextSeq(t) /\ TransmitIv' = TransmitIv /\ IvShape' = IvShape
    BY <1>9 DEF Connect, NextSeq, TransmitIv, IvShape
  <2> QED
    BY <1>9, <2>1 DEF Connect, Fresh, NonceBefore
<1>10. CASE CheckSequenceNumber(t)
  <2>1. pc[t] = "idle" /\ NextSeq(t)' = NextSeq(t) /\ UNCHANGED <<ivIndex, initIv, saved, last>>
    BY <1>10 DEF CheckSequenceNumber, NextSeq
  <2>2. CASE ~updating /\ seqNo >= Threshold
    BY <1>10, <2>1, <2>2 DEF CheckSequenceNumber, Fresh, IvShape, NonceBefore
  <2>3. CASE ~(~updating /\ seqNo >= Threshold)
    <3>1. pc' = pc /\ TransmitIv' = TransmitIv /\ IvShape' = IvShape
      BY <1>10, <2>3 DEF CheckSequenceNumber, TransmitIv, IvShape
    <3> QED
      BY <2>1, <3>1 DEF Fresh, NonceBefore
  <2> QED
    BY <2>2, <2>3
<1>11. CASE StartIvUpdate(t)
  <2>1. /\ pc[t] = "check" /\ pc'[t] = "idle" /\ ivIndex' = initIv + 1
        /\ UNCHANGED <<seqNo, initIv, updating, saved, last>>
    BY <1>11 DEF StartIvUpdate
  <2>2. NextSeq(t)' = NextSeq(t)
    BY <2>1 DEF NextSeq
  <2>3. TransmitIv' = initIv /\ IvShape'
    BY <2>1 DEF TransmitIv, IvShape, Fresh
  <2> QED
    BY <2>1, <2>2, <2>3 DEF Fresh, NonceBefore
<1>12. CASE Clear(t) \/ Disconnect(t)
  <2>1. /\ pc[t] = "idle" /\ pc' = pc /\ ~updating /\ ~updating'
        /\ UNCHANGED <<seqNo, ivIndex, initIv, saved, last>>
    BY <1>12 DEF Clear, Disconnect, ClearFields
  <2>2. NextSeq(t)' = NextSeq(t) /\ TransmitIv' = TransmitIv /\ IvShape' = IvShape
    BY <2>1 DEF NextSeq, TransmitIv, IvShape
  <2> QED
    BY <2>1, <2>2 DEF Fresh, NonceBefore
<1> QED
  BY <1>1, <1>2, <1>3, <1>4, <1>5, <1>6, <1>7, <1>8, <1>9, <1>10, <1>11, <1>12 DEF Does

\* So does a restart, for every thread.
LEMMA RestartStep ==
  ASSUME NEW t \in Threads, NEW v \in Threads, TypeInv, Fresh(t), Restart
  PROVE  Fresh(v)'
<1> USE SequenceNumberAssumption
<1> USE DEF TypeInv, TypeOK, Job, Labels
<1> DEFINE start == InitSequenceNumber(saved.seq)
<1>1. start = saved.seq + Step
  BY RoundMultiple DEF StoredInTime
<1>2. /\ pc'[v] = "idle" /\ seqNo' = start /\ ivIndex' = saved.iv /\ initIv' = saved.iv
      /\ updating' = FALSE /\ saved' = [seq |-> start, iv |-> saved.iv] /\ last' = last
  BY DEF Restart, Setup
<1>3. NonceBefore(last, saved.iv, start)
  <2>1. NextSeq(t) \in Int /\ NextSeq(t) <= seqNo
    BY DEF NextSeq, Fresh, SendShape, Unread
  <2>2. NonceBefore(last, initIv, NextSeq(t)) /\ initIv \in Ivs /\ saved.iv \in Ivs
    BY DEF Fresh
  <2>3. seqNo < start
    BY <1>1 DEF StoredInTime
  <2> HIDE DEF start
  <2>4. start \in Int
    BY <1>1 DEF start
  <2> QED
    BY <2>1, <2>2, <2>3, <2>4, BeforeTrans DEF Fresh
<1>4. NextSeq(v)' = start
  BY <1>2 DEF NextSeq
<1>5. TransmitIv' = saved.iv /\ IvShape' /\ saved.iv \in Ivs
  BY <1>2 DEF TransmitIv, IvShape, Fresh
<1> QED
  BY <1>2, <1>3, <1>4, <1>5 DEF Fresh

\* What the step of t leaves to another thread v that works with the fields.
LEMMA Untouched ==
  ASSUME NEW t \in Threads, NEW v \in Threads, v # t, TypeInv, Does(t)
  PROVE  /\ pc'[v] = pc[v] /\ job'[v] = job[v]
         /\ ~raced' => ~raced
         /\ ~raced' /\ Exposed(v) => fields' = fields /\ pc'[t] \notin Updating
<1>1. pc'[v] = pc[v] /\ job'[v] = job[v]
  BY DEF TypeInv, TypeOK, Become, Does, BeginSend, ReadSequenceNumber, ReadTransmitIv,
     CreateNetworkPdu, SendNetworkPdu, ReceiveBeacon, SetIvIndex, OnIvUpdated, Connect,
     CheckSequenceNumber, StartIvUpdate, Clear, Disconnect
<1>2. Watch(t)
  BY Steps
<1>3. v \in Threads \ {t}
  OBVIOUS
<1> QED
  BY <1>1, <1>2, <1>3 DEF Watch, Writes

\* A thread that begins to give out numbers or to change the IV index does so with a
\* write; one that does neither leaves the stored values and the air alone.
LEMMA BusyWrites ==
  ASSUME NEW t \in Threads, TypeInv, Does(t), pc[t] = "send" => SendShape(t), ~Busy(t)
  PROVE  /\ Busy(t)' => Writes(t)
         /\ fields' = fields => saved' = saved /\ last' = last
<1> USE DEF TypeInv, TypeOK, Job, Labels, Become, fields, Busy, Updating, Writes
<1>1. CASE BeginSend(t)
  <2>1. PICK k \in 1 .. MaxPdus : job' = [job EXCEPT ![t] = [NoJob EXCEPT !.size = k]]
    BY <1>1 DEF BeginSend
  <2>2. job'[t].made = 0 /\ pc'[t] = "send"
    BY <1>1, <2>1 DEF NoJob, BeginSend
  <2> QED
    BY <1>1, <2>2 DEF BeginSend
<1>2. CASE ReadSequenceNumber(t) \/ ReadTransmitIv(t)
  <2>1. job'[t].made = job[t].made /\ pc' = pc
    BY <1>2 DEF ReadSequenceNumber, ReadTransmitIv
  <2> QED
    BY <1>2, <2>1 DEF ReadSequenceNumber, ReadTransmitIv
<1>3. CASE CreateNetworkPdu(t)
  <2>1. seqNo' # seqNo
    BY <1>3 DEF CreateNetworkPdu
  <2> QED
    BY <2>1
<1>4. CASE SendNetworkPdu(t)
  BY <1>4 DEF SendNetworkPdu, SendShape
<1>5. CASE SetIvIndex(t) \/ OnIvUpdated(t) \/ StartIvUpdate(t)
  BY <1>5 DEF SetIvIndex, OnIvUpdated, StartIvUpdate
<1>6. CASE ReceiveBeacon(t)
  BY <1>6 DEF ReceiveBeacon
<1>7. CASE Connect(t) \/ Clear(t) \/ Disconnect(t)
  BY <1>7 DEF Connect, Clear, Disconnect, ClearFields
<1>8. CASE CheckSequenceNumber(t)
  BY <1>8 DEF CheckSequenceNumber
<1> QED
  BY <1>1, <1>2, <1>3, <1>4, <1>5, <1>6, <1>7, <1>8 DEF Does

\* A thread that begins to send or reads, and so writes nothing, knows what it reads.
LEMMA ReaderStep ==
  ASSUME NEW t \in Threads, TypeInv, Does(t), pc[t] = "send" => SendShape(t), ~Busy(t),
         fields' = fields, pc'[t] = "send"
  PROVE  SendShape(t)'
<1> USE DEF TypeInv, TypeOK, Job, Labels, Become, fields, Busy, Updating
<1>1. CASE BeginSend(t)
  <2>1. PICK k \in 1 .. MaxPdus : job' = [job EXCEPT ![t] = [NoJob EXCEPT !.size = k]]
    BY <1>1 DEF BeginSend
  <2>2. /\ job'[t].seq = Unread /\ job'[t].iv = Unread /\ job'[t].size = k
        /\ job'[t].made = 0 /\ job'[t].out = 0
    BY <2>1 DEF NoJob
  <2> QED
    BY <2>2 DEF SendShape, Unread
<1>2. CASE ReadSequenceNumber(t)
  <2>1. pc[t] = "send" /\ job'[t] = [job[t] EXCEPT !.seq = seqNo]
    BY <1>2 DEF ReadSequenceNumber
  <2> QED
    BY <2>1 DEF SendShape, TransmitIv
<1>3. CASE ReadTransmitIv(t)
  <2>1. pc[t] = "send" /\ job'[t] = [job[t] EXCEPT !.iv = TransmitIv]
    BY <1>3 DEF ReadTransmitIv
  <2> QED
    BY <2>1 DEF SendShape, TransmitIv
<1>4. CASE CreateNetworkPdu(t)
  BY <1>4 DEF CreateNetworkPdu
<1>5. CASE SendNetworkPdu(t)
  BY <1>5 DEF SendNetworkPdu, SendShape
<1>6. ~(SetIvIndex(t) \/ OnIvUpdated(t) \/ StartIvUpdate(t) \/ ReceiveBeacon(t))
  BY DEF SetIvIndex, OnIvUpdated, StartIvUpdate, ReceiveBeacon
<1>7. ~(Connect(t) \/ Clear(t) \/ Disconnect(t) \/ CheckSequenceNumber(t))
  BY DEF Connect, Clear, Disconnect, CheckSequenceNumber
<1> QED
  BY <1>1, <1>2, <1>3, <1>4, <1>5, <1>6, <1>7 DEF Does

\* Among threads of which at most one is busy, one is alone.
LEMMA OneIsAlone ==
  ASSUME OneByOne
  PROVE  /\ \E t \in Threads : Alone(t)
         /\ \A t \in Threads : Busy(t) => Alone(t)
<1>1. \A t \in Threads : Busy(t) => Alone(t)
  BY DEF OneByOne, Alone
<1>2. CASE \E t \in Threads : Busy(t)
  BY <1>1, <1>2
<1>3. CASE \A t \in Threads : ~Busy(t)
  BY <1>3, SequenceNumberAssumption DEF Alone
<1> QED
  BY <1>1, <1>2, <1>3

\* What a thread is at after its step, another one that is not busy can take over.
LEMMA FreshForAll ==
  ASSUME NEW t \in Threads, NEW v \in Threads, TypeInv', Fresh(t)',
         ~Busy(t)', ~Busy(v)', (pc[t] = "send" => SendShape(t))',
         (pc[v] = "send" => SendShape(v))'
  PROVE  Fresh(v)'
<1> USE DEF TypeInv, TypeOK, Job, Labels, Busy, Updating
<1>1. pc'[t] \in {"idle", "send"} /\ pc'[v] \in {"idle", "send"}
  OBVIOUS
<1>2. NextSeq(t)' = seqNo' /\ NextSeq(v)' = seqNo'
  BY DEF NextSeq, SendShape, Unread
<1> QED
  BY <1>1, <1>2 DEF Fresh, NonceBefore

\* The step of a thread keeps it, as long as it disturbs no other.
LEMMA StepKeeps ==
  ASSUME NEW t \in Threads, TypeInv, TypeInv', OneByOne, Does(t), ~cleared', ~raced'
  PROVE  OneByOne'
<1>1. Alone(t) => Fresh(t)'
  BY OwnStep DEF OneByOne
<1>2. ASSUME NEW v \in Threads, v # t
      PROVE  /\ pc'[v] = pc[v] /\ job'[v] = job[v] /\ Busy(v)' = Busy(v)
             /\ Exposed(v) => fields' = fields /\ pc'[t] \notin Updating
             /\ Busy(v) => Exposed(v)
  <2>1. pc'[v] = pc[v] /\ job'[v] = job[v]
    BY <1>2, Untouched
  <2>2. Exposed(v) => fields' = fields /\ pc'[t] \notin Updating
    BY <1>2, Untouched
  <2>3. Busy(v) => Exposed(v)
    BY DEF OneByOne, SendShape, Busy, Exposed
  <2>4. Busy(v)' = Busy(v)
    BY <2>1 DEF Busy
  <2> QED
    BY <2>1, <2>2, <2>3, <2>4
<1>3. ASSUME NEW v \in Threads, pc'[v] = "send" PROVE SendShape(v)'
  <2>1. CASE v # t
    <3>1. SendShape(v) /\ pc[v] = "send"
      BY <1>2, <1>3, <2>1 DEF OneByOne
    <3>2. CASE Exposed(v)
      BY <1>2, <2>1, <3>1, <3>2 DEF SendShape, TransmitIv, fields
    <3>3. CASE ~Exposed(v)
      BY <1>2, <2>1, <3>1, <3>3 DEF SendShape, Exposed
    <3> QED
      BY <3>2, <3>3
  <2>2. CASE v = t /\ Alone(t)
    BY <1>1, <1>3, <2>2 DEF Fresh
  <2>3. CASE v = t /\ ~Alone(t)
    <3>1. PICK u \in Threads : u # t /\ Busy(u)
      BY <2>3 DEF Alone
    <3>2. fields' = fields /\ pc'[t] \notin Updating
      BY <3>1, <1>2
    <3>3. ~Busy(t)
      BY <3>1 DEF OneByOne
    <3> QED
      BY <1>3, <2>3, <3>2, <3>3, ReaderStep DEF OneByOne
  <2> QED
    BY <2>1, <2>2, <2>3
<1>4. ASSUME NEW v \in Threads, v # t, Busy(v)
      PROVE  /\ fields' = fields /\ ~Busy(t) /\ ~Busy(t)' /\ saved' = saved /\ last' = last
             /\ Alone(v)
  <2>1. fields' = fields /\ pc'[t] \notin Updating
    BY <1>2, <1>4
  <2>2. ~Busy(t) /\ Alone(v)
    BY <1>4, OneIsAlone DEF OneByOne
  <2>3. ~Busy(t)' /\ saved' = saved /\ last' = last
    BY <2>1, <2>2, BusyWrites DEF OneByOne, Writes
  <2> QED
    BY <2>1, <2>2, <2>3
<1>5. ASSUME NEW u \in Threads, NEW v \in Threads, Busy(u)', Busy(v)' PROVE u = v
  BY <1>2, <1>4, <1>5 DEF OneByOne
<1>6. ASSUME NEW v \in Threads, Alone(v)' PROVE Fresh(v)'
  <2>1. CASE v = t
    BY <1>1, <1>2, <1>6, <2>1 DEF Alone
  <2>2. CASE v # t /\ Busy(v)
    <3>1. Fresh(v)
      BY <1>4, <2>2 DEF OneByOne
    <3> QED
      BY <1>2, <1>4, <2>2, <3>1 DEF Fresh, IvShape, PendingIv, NextSeq, SendShape,
         TransmitIv, NonceBefore, fields
  <2>3. CASE v # t /\ ~Busy(v)
    <3>1. ~Busy(t)' /\ ~Busy(v)'
      BY <1>2, <1>6, <2>3 DEF Alone
    <3>2. Alone(t)
      BY <1>2, <1>6, <2>3 DEF Alone
    <3> QED
      BY <1>1, <1>3, <3>1, <3>2, FreshForAll
  <2> QED
    BY <2>1, <2>2, <2>3
<1> QED
  BY <1>3, <1>5, <1>6 DEF OneByOne

\* So does every step, restarts and stuttering included.
LEMMA FreshPreserved == TypeInv /\ FreshInv /\ [Next]_vars => FreshInv'
<1> SUFFICES ASSUME TypeInv, FreshInv, [Next]_vars, ~cleared', ~raced' PROVE OneByOne'
  BY DEF FreshInv
<1>1. TypeInv'
  BY TypeStep
<1>2. ASSUME NEW t \in Threads, Does(t) PROVE OneByOne'
  <2>1. ~cleared /\ ~raced
    BY <1>2, Steps DEF Watch
  <2> QED
    BY <2>1, <1>1, <1>2, StepKeeps DEF FreshInv
<1>3. CASE Restart
  <2>1. OneByOne
    BY <1>3, Steps DEF FreshInv
  <2>2. PICK t \in Threads : Fresh(t)
    BY <2>1, OneIsAlone DEF OneByOne
  <2>3. \A v \in Threads : pc'[v] = "idle"
    BY <1>3 DEF Restart
  <2> QED
    BY <1>3, <2>2, <2>3, RestartStep DEF OneByOne, Busy, Updating
<1>4. CASE UNCHANGED vars
  <2>1. OneByOne
    BY <1>4 DEF FreshInv, vars
  <2> QED
    BY <2>1, <1>4 DEF vars, fields, OneByOne, Busy, Alone, Fresh, IvShape, PendingIv, NextSeq,
       SendShape, TransmitIv, NonceBefore
<1> QED
  BY <1>2, <1>3, <1>4, Steps

-----------------------------------------------------------------------------
(* The theorems. *)

\* What Fresh says of a restart.
LEMMA FreshImplies == TypeInv /\ FreshInv => RestartIsFresh
<1> SUFFICES ASSUME TypeInv, FreshInv, ~cleared, ~raced
             PROVE  NonceBefore(last, saved.iv, InitSequenceNumber(saved.seq))
  BY DEF RestartIsFresh
<1> USE SequenceNumberAssumption
<1> USE DEF TypeInv, TypeOK, Job
<1>1. PICK t \in Threads : Fresh(t)
  BY OneIsAlone DEF FreshInv, OneByOne
<1>2. InitSequenceNumber(saved.seq) = saved.seq + Step
  BY RoundMultiple DEF StoredInTime
<1>3. NextSeq(t) \in Int /\ NextSeq(t) <= saved.seq + Step
  BY <1>1 DEF NextSeq, Fresh, SendShape, Unread, StoredInTime
<1>4. saved.iv \in Int /\ initIv \in Int /\ saved.seq + Step \in Int
  OBVIOUS
<1> QED
  BY <1>1, <1>2, <1>3, <1>4, BeforeTrans DEF Fresh

\* Whenever the process ends, the stored values let the next session start above every
\* nonce used (initSequenceNumber and onSequenceNumberUpdate), whatever the threads and
\* whatever they are doing, unless one has changed what another was working with or a
\* clear() has hit an IV update.
THEOREM RestartFresh == Spec => []RestartIsFresh
<1>1. Init => TypeInv /\ FreshInv
  BY TypeInit, FreshInit
<1>2. TypeInv /\ FreshInv /\ [Next]_vars => (TypeInv /\ FreshInv)'
  BY TypeStep, FreshPreserved
<1> QED
  BY <1>1, <1>2, FreshImplies, PTL DEF Spec

\* A step that puts a PDU on the air is SendNetworkPdu, with the next nonce.
LEMMA IncreaseStep ==
  ASSUME TypeInv, FreshInv, Next, ~cleared, ~raced, last' # last
  PROVE  NonceBefore(last, last'.iv, last'.seq)
<1> USE DEF TypeInv, TypeOK, Job
<1>1. PICK t \in Threads : SendNetworkPdu(t) /\ link # "down"
  BY DEF Next, BeginSend, ReadSequenceNumber, ReadTransmitIv, CreateNetworkPdu,
     SendNetworkPdu, ReceiveBeacon, SetIvIndex, OnIvUpdated, Connect,
     CheckSequenceNumber, StartIvUpdate, Clear, Disconnect, Restart
<1>2. pc[t] = "send" /\ job[t].made = job[t].size
      /\ last'.iv = job[t].iv /\ last'.seq = job[t].seq + job[t].out
  BY <1>1 DEF SendNetworkPdu
<1>3. SendShape(t)
  BY <1>2 DEF FreshInv, OneByOne
<1>4. job[t].seq # Unread /\ job[t].iv = TransmitIv /\ Busy(t)
  BY <1>2, <1>3 DEF SendShape, Busy
<1>5. NonceBefore(last, TransmitIv, NextSeq(t))
  BY <1>2, <1>4, OneIsAlone DEF FreshInv, OneByOne, Fresh
<1> QED
  BY <1>2, <1>4, <1>5 DEF NextSeq

\* "for every network pdu , sequence number should increase" (createNetworkPDU) holds for
\* any number of threads, over reconnections, IV updates and restarts, as long as no
\* thread has changed what another was working with and no clear() has hit an IV update.
THEOREM NoncesIncreaseTheorem == Spec => NoncesIncreaseUnlessDisturbed
<1>1. Init => TypeInv /\ FreshInv
  BY TypeInit, FreshInit
<1>2. TypeInv /\ FreshInv /\ [Next]_vars => (TypeInv /\ FreshInv)'
  BY TypeStep, FreshPreserved
<1>3. TypeInv /\ FreshInv /\ [Next]_vars =>
        [~cleared /\ ~raced /\ last' # last => NonceBefore(last, last'.iv, last'.seq)]_vars
  BY IncreaseStep
<1> QED
  BY <1>1, <1>2, <1>3, PTL DEF Spec, NoncesIncreaseUnlessDisturbed
=============================================================================
