------------------------ MODULE NetworkingQueueProofs -----------------------
(***************************************************************************)
(* Proofs about NetworkingQueue, for any number of threads and PDUs: a PDU *)
(* is in one place and leaves, two polls are an interval apart unless a    *)
(* completion came between, and calls that come one after the other see a  *)
(* PduChannel.                                                             *)
(***************************************************************************)
EXTENDS NetworkingQueue, FiniteSetTheorems, SequenceTheorems, WellFoundedInduction, TLAPS

-----------------------------------------------------------------------------
(* The inductive invariant *)

\* the PDU of a thread is neither queued nor written
Hands == {"direct", "enqueue", "write"}
InHands == {pdu[t] : t \in {u \in Threads : pc[u] \in Hands}}
OneHand == \A t, u \in Threads : pc[t] \in Hands /\ pc[u] \in Hands /\ pdu[t] = pdu[u] => t = u

Distinct(q) == \A i, j \in DOMAIN q : q[i] = q[j] => i = j

\* A PDU that is prepared is in one place, and there once.
OnePlace ==
  /\ Distinct(queue) /\ Distinct(air)
  /\ Elements(queue) \cap Elements(air) = {} /\ Elements(queue) \cap dropped = {}
  /\ dropped \cap Elements(air) = {}
  /\ InHands \cap (Elements(queue) \cup Elements(air) \cup dropped) = {}
  /\ OneHand
  /\ 1 .. prepared = Elements(air) \cup dropped \cup Elements(queue) \cup InHands

\* As long as no completion interferes, one thread polls or one timer is pending
\* while networkingBusy is set, and a thread that has yet to write waited before.
OnePoller ==
  ~overlap =>
    /\ \A t, u \in Threads : pc[t] \in Polling /\ pc[u] \in Polling => t = u
    /\ timers \in {0, 1}
    /\ timers # 0 => busy
    /\ \A t \in Threads : pc[t] \in Polling =>
         busy /\ timers = 0 /\ (pc[t] \in {"poll", "write", "drained"} => gap \/ purged)
    /\ ~busy => gap \/ purged

\* As long as the calls come one after the other, the queue is empty whenever the flag is
\* not set and no call is about to set it.
Idle ==
  serial =>
    /\ ~overlap
    /\ \A t, u \in Threads : pc[t] # "idle" /\ pc[u] # "idle" => t = u
    /\ ~busy => queue = <<>> \/ \E t \in Threads : pc[t] = "start"
    /\ (\E t \in Threads : pc[t] = "drained") => queue = <<>>

QueueInv == TypeOK /\ OnePlace /\ OnePoller /\ Idle

-----------------------------------------------------------------------------
(* Sequences without repetition *)

\* A PDU that is not in a sequence is added at the end.
LEMMA ElementsOfAppend ==
  ASSUME NEW q \in Seq(Pdus), NEW p \in Pdus
  PROVE  /\ Append(q, p) \in Seq(Pdus)
         /\ Elements(Append(q, p)) = Elements(q) \cup {p}
         /\ Distinct(q) /\ p \notin Elements(q) => Distinct(Append(q, p))
<1> DEFINE r == Append(q, p)
<1>1. /\ r \in Seq(Pdus) /\ Len(q) \in Nat /\ DOMAIN q = 1 .. Len(q)
      /\ DOMAIN r = 1 .. Len(q) + 1 /\ r[Len(q) + 1] = p
      /\ \A i \in 1 .. Len(q) : r[i] = q[i]
  BY AppendProperties, LenProperties
<1> HIDE DEF r
<1>2. DOMAIN r = DOMAIN q \cup {Len(q) + 1}
  BY <1>1
<1>3. Elements(r) = Elements(q) \cup {p}
  BY <1>1, <1>2 DEF Elements
<1>4. ASSUME Distinct(q), p \notin Elements(q) PROVE Distinct(r)
  BY <1>1, <1>2, <1>4 DEF Distinct, Elements
<1> QED
  BY <1>1, <1>3, <1>4 DEF r

\* The first PDU is taken out.
LEMMA ElementsOfTail ==
  ASSUME NEW q \in Seq(Pdus), q # <<>>
  PROVE  /\ Tail(q) \in Seq(Pdus) /\ Head(q) \in Elements(q) /\ Head(q) \in Pdus
         /\ Elements(q) = Elements(Tail(q)) \cup {Head(q)}
         /\ Distinct(q) => Distinct(Tail(q)) /\ Head(q) \notin Elements(Tail(q))
<1> DEFINE r == Tail(q)
<1>1. /\ r \in Seq(Pdus) /\ Head(q) \in Pdus /\ Head(q) = q[1] /\ Len(q) \in Nat \ {0}
      /\ DOMAIN q = 1 .. Len(q) /\ DOMAIN r = 1 .. Len(q) - 1
      /\ \A i \in 1 .. Len(q) - 1 : r[i] = q[i + 1]
  BY HeadTailProperties, LenProperties, EmptySeq
<1> HIDE DEF r
<1>2. \A i \in DOMAIN q : i = 1 \/ (i - 1 \in DOMAIN r /\ r[i - 1] = q[i])
  BY <1>1
<1>3. \A i \in DOMAIN r : i + 1 \in DOMAIN q /\ i + 1 # 1 /\ r[i] = q[i + 1]
  BY <1>1
<1>4. 1 \in DOMAIN q
  BY <1>1
<1>5. Elements(q) = Elements(r) \cup {Head(q)}
  BY <1>1, <1>2, <1>3, <1>4 DEF Elements
<1>6. ASSUME Distinct(q) PROVE Distinct(r) /\ Head(q) \notin Elements(r)
  <2>1. ASSUME NEW i \in DOMAIN r, NEW j \in DOMAIN r, r[i] = r[j] PROVE i = j
    <3>1. i + 1 = j + 1
      BY <1>3, <1>6, <2>1 DEF Distinct
    <3> QED
      BY <1>1, <3>1
  <2>2. ASSUME NEW i \in DOMAIN r PROVE r[i] # Head(q)
    BY <1>1, <1>3, <1>4, <1>6, <2>2 DEF Distinct
  <2> QED
    BY <2>1, <2>2 DEF Distinct, Elements
<1> QED
  BY <1>1, <1>5, <1>6 DEF r, Elements

\* As many elements as places.
LEMMA DistinctCounts ==
  ASSUME NEW q \in Seq(Pdus), Distinct(q)
  PROVE  Cardinality(Elements(q)) = Len(q)
<1>1. Len(q) \in Nat /\ DOMAIN q = 1 .. Len(q) /\ q \in [1 .. Len(q) -> Pdus]
  BY LenProperties
<1>2. q \in Bijection(1 .. Len(q), Elements(q))
  <2>1. q \in [1 .. Len(q) -> Elements(q)]
    BY <1>1 DEF Elements
  <2>2. q \in Injection(1 .. Len(q), Elements(q))
    BY <1>1, <2>1 DEF Distinct, Injection, IsInjective
  <2>3. q \in Surjection(1 .. Len(q), Elements(q))
    BY <1>1, <2>1 DEF Elements, Surjection
  <2> QED
    BY <2>2, <2>3 DEF Bijection
<1> QED
  BY <1>1, <1>2, FS_CountingElements DEF ExistsBijection

-----------------------------------------------------------------------------
(* Types *)

\* Where a thread goes is where it is afterwards, and the others stay.
LEMMA BecomeIs ==
  ASSUME TypeOK, NEW t \in Threads, NEW label \in {"idle", "direct", "enqueue", "start"} \cup Polling,
         Become(t, label)
  PROVE  /\ pc' \in [Threads -> {"idle", "direct", "enqueue", "start"} \cup Polling]
         /\ \A u \in Threads : pc'[u] = IF u = t THEN label ELSE pc[u]
BY DEF TypeOK, Become

\* Every step of a thread whose PDU is one keeps the types.
LEMMA StepType ==
  ASSUME TypeOK, NEW t \in Threads, Step(t), serial' \in BOOLEAN, pc[t] \in Hands => pdu[t] \in Pdus
  PROVE  TypeOK'
<1>0. Nobody \notin Threads /\ MaxPdus \in Nat /\ Pdus \subseteq 0 .. MaxPdus
  BY NetworkingQueueAssumption DEF Pdus
<1>1. CASE Prepare(t)
  <2>1. PICK direct \in BOOLEAN : Become(t, IF direct THEN "direct" ELSE "enqueue")
    BY <1>1 DEF Prepare
  <2>2. prepared + 1 \in 0 .. MaxPdus
    BY <1>0, <1>1 DEF Prepare, TypeOK
  <2> QED
    BY <1>0, <1>1, <2>1, <2>2, BecomeIs DEF Prepare, TypeOK, Polling
<1>2. CASE SendDirect(t)
  <2>1. Append(air, pdu[t]) \in Seq(Pdus)
    BY <1>2, AppendProperties DEF TypeOK, Hands, SendDirect
  <2> QED
    BY <1>0, <1>2, <2>1, BecomeIs DEF SendDirect, TypeOK, Polling
<1>3. CASE Enqueue(t)
  <2>1. Append(queue, pdu[t]) \in Seq(Pdus)
    BY <1>3, AppendProperties DEF TypeOK, Hands, Enqueue
  <2> QED
    BY <1>0, <1>3, <2>1, BecomeIs DEF Enqueue, TypeOK, Polling
<1>4. CASE StartPolling(t)
  <2>1. Elements(queue) \subseteq Pdus
    BY LenProperties DEF TypeOK, Elements
  <2>2. stranded' \subseteq Pdus
    BY <1>4, <2>1 DEF StartPolling, TypeOK
  <2> QED
    BY <1>0, <1>4, <2>2, BecomeIs DEF StartPolling, TypeOK, Polling
<1>5. CASE TimerFires(t)
  BY <1>0, <1>5, BecomeIs DEF TimerFires, TypeOK, Polling
<1>6. CASE Poll(t)
  <2>1. queue # <<>> => Tail(queue) \in Seq(Pdus) /\ Head(queue) \in Pdus
    BY HeadTailProperties DEF TypeOK
  <2>2. queue' \in Seq(Pdus) /\ pdu' \in [Threads -> 0 .. MaxPdus]
    BY <1>0, <1>6, <2>1 DEF Poll, TypeOK
  <2>3. pc[t] = "poll" /\ (Become(t, "drained") \/ Become(t, "write"))
    BY <1>6 DEF Poll
  <2>4. UNCHANGED <<busy, busyLock, timers, prepared, air, dropped, gap, overlap, purged, stranded>>
    BY <1>6 DEF Poll
  <2> QED
    BY <1>0, <2>2, <2>3, <2>4, BecomeIs DEF TypeOK, Polling
<1>7. CASE Drained(t)
  <2>1. busyLock' = Nobody /\ Become(t, "idle")
    BY <1>7 DEF Drained
  <2> QED
    BY <1>0, <1>7, <2>1, BecomeIs DEF Drained, TypeOK, Polling
<1>8. CASE Write(t)
  <2>1. Append(air, pdu[t]) \in Seq(Pdus)
    BY <1>8, AppendProperties DEF TypeOK, Hands, Write
  <2> QED
    BY <1>0, <1>8, <2>1, BecomeIs DEF Write, TypeOK, Polling
<1>9. CASE CancelTimer(t)
  BY <1>0, <1>9, BecomeIs DEF CancelTimer, TypeOK, Polling
<1>10. CASE ArmTimer(t)
  BY <1>0, <1>10, BecomeIs DEF ArmTimer, TypeOK, Polling
<1>11. CASE Complete(t)
  <2>1. queue' \in Seq(Pdus) /\ timers' \in Nat /\ busy' \in BOOLEAN /\ purged' \in BOOLEAN
    BY <1>11, EmptySeq DEF Complete
  <2>2. Elements(queue) \subseteq Pdus
    BY LenProperties DEF TypeOK, Elements
  <2>3. (\E u \in Threads : pc[u] \in Polling) \in BOOLEAN
    OBVIOUS
  <2> QED
    BY <1>11, <2>1, <2>2, <2>3 DEF Complete, TypeOK
<1> QED
  BY <1>1, <1>2, <1>3, <1>4, <1>5, <1>6, <1>7, <1>8, <1>9, <1>10, <1>11 DEF Step, Advance

-----------------------------------------------------------------------------
(* A PDU is in one place *)

\* A thread takes a PDU.
LEMMA TakeInHand ==
  ASSUME TypeOK, NEW t \in Threads, NEW p, pc[t] \notin Hands, pc'[t] \in Hands,
         pdu' = [pdu EXCEPT ![t] = p], \A u \in Threads \ {t} : pc'[u] = pc[u]
  PROVE  InHands' = InHands \cup {p} /\ (OneHand /\ p \notin InHands => OneHand')
<1>1. pdu'[t] = p /\ \A u \in Threads \ {t} : pdu'[u] = pdu[u]
  BY DEF TypeOK
<1>2. InHands' = InHands \cup {p}
  <2>1. ASSUME NEW x \in InHands PROVE x \in InHands'
    <3>1. PICK u \in Threads : pc[u] \in Hands /\ x = pdu[u]
      BY DEF InHands
    <3> QED
      BY <1>1, <3>1 DEF InHands
  <2>2. p \in InHands'
    BY <1>1 DEF InHands
  <2>3. ASSUME NEW x \in InHands', x # p PROVE x \in InHands
    <3>1. PICK u \in Threads : pc'[u] \in Hands /\ x = pdu'[u]
      BY DEF InHands
    <3> QED
      BY <1>1, <2>3, <3>1 DEF InHands
  <2> QED
    BY <2>1, <2>2, <2>3
<1>3. ASSUME OneHand, p \notin InHands PROVE OneHand'
  BY <1>1, <1>3 DEF OneHand, InHands
<1> QED
  BY <1>2, <1>3

\* A thread lets its PDU go.
LEMMA LeaveHand ==
  ASSUME TypeOK, OneHand, NEW t \in Threads, pc[t] \in Hands, pc'[t] \notin Hands,
         pdu' = pdu, \A u \in Threads \ {t} : pc'[u] = pc[u]
  PROVE  InHands' = InHands \ {pdu[t]} /\ pdu[t] \in InHands /\ OneHand'
<1>1. pdu[t] \in InHands
  BY DEF InHands
<1>2. ASSUME NEW x \in InHands, x # pdu[t] PROVE x \in InHands'
  <2>1. PICK u \in Threads : pc[u] \in Hands /\ x = pdu[u]
    BY DEF InHands
  <2> QED
    BY <1>2, <2>1 DEF InHands
<1>3. ASSUME NEW x \in InHands' PROVE x \in InHands /\ x # pdu[t]
  <2>1. PICK u \in Threads : pc'[u] \in Hands /\ x = pdu[u]
    BY DEF InHands
  <2> QED
    BY <2>1 DEF InHands, OneHand
<1>4. OneHand'
  BY DEF OneHand
<1> QED
  BY <1>1, <1>2, <1>3, <1>4

\* No PDU changes hands.
LEMMA SameHands ==
  ASSUME pdu' = pdu, \A u \in Threads : pc'[u] \in Hands <=> pc[u] \in Hands
  PROVE  InHands' = InHands /\ (OneHand => OneHand')
BY DEF InHands, OneHand

\* Every step of a thread keeps each PDU in one place.
LEMMA StepOnePlace ==
  ASSUME TypeOK, OnePlace, NEW t \in Threads, Step(t)
  PROVE  OnePlace'
<1>0. /\ pc \in [Threads -> {"idle", "direct", "enqueue", "start"} \cup Polling]
      /\ queue \in Seq(Pdus) /\ air \in Seq(Pdus) /\ OneHand /\ prepared \in Nat
      /\ InHands \subseteq Pdus
  <2>1. 1 .. prepared \subseteq Pdus
    BY NetworkingQueueAssumption DEF TypeOK, Pdus
  <2> QED
    BY <2>1 DEF TypeOK, OnePlace
<1>1. CASE Prepare(t)
  <2>1. PICK direct \in BOOLEAN : Become(t, IF direct THEN "direct" ELSE "enqueue")
    BY <1>1 DEF Prepare
  <2>2. /\ pc[t] \notin Hands /\ pc'[t] \in Hands /\ \A u \in Threads \ {t} : pc'[u] = pc[u]
    BY <1>0, <1>1, <2>1, BecomeIs DEF Hands, Prepare
  <2>3. prepared + 1 \notin 1 .. prepared /\ 1 .. prepared + 1 = 1 .. prepared \cup {prepared + 1}
    BY <1>0
  <2>4. /\ pdu' = [pdu EXCEPT ![t] = prepared + 1] /\ prepared' = prepared + 1
        /\ UNCHANGED <<queue, air, dropped>>
    BY <1>1 DEF Prepare
  <2>5. prepared + 1 \notin InHands
    BY <2>3 DEF OnePlace
  <2>6. InHands' = InHands \cup {prepared + 1} /\ OneHand'
    BY <1>0, <2>2, <2>4, <2>5, TakeInHand
  <2> QED
    BY <2>3, <2>4, <2>6 DEF OnePlace
<1>2. CASE SendDirect(t) /\ ~busy
  <2>1. /\ pc[t] \in Hands /\ pc'[t] \notin Hands /\ \A u \in Threads \ {t} : pc'[u] = pc[u]
    BY <1>0, <1>2, BecomeIs DEF Hands, SendDirect
  <2>2. air' = Append(air, pdu[t]) /\ UNCHANGED <<queue, dropped, pdu, prepared>>
    BY <1>2 DEF SendDirect
  <2>3. InHands' = InHands \ {pdu[t]} /\ pdu[t] \in InHands /\ OneHand'
    BY <1>0, <2>1, <2>2, LeaveHand
  <2>4. Elements(air') = Elements(air) \cup {pdu[t]} /\ Distinct(air')
    BY <1>0, <2>2, <2>3, ElementsOfAppend DEF OnePlace
  <2> QED
    BY <2>2, <2>3, <2>4 DEF OnePlace
<1>3. CASE Enqueue(t)
  <2>1. /\ pc[t] \in Hands /\ pc'[t] \notin Hands /\ \A u \in Threads \ {t} : pc'[u] = pc[u]
    BY <1>0, <1>3, BecomeIs DEF Hands, Enqueue
  <2>2. queue' = Append(queue, pdu[t]) /\ UNCHANGED <<air, dropped, pdu, prepared>>
    BY <1>3 DEF Enqueue
  <2>3. InHands' = InHands \ {pdu[t]} /\ pdu[t] \in InHands /\ OneHand'
    BY <1>0, <2>1, <2>2, LeaveHand
  <2>4. Elements(queue') = Elements(queue) \cup {pdu[t]} /\ Distinct(queue')
    BY <1>0, <2>2, <2>3, ElementsOfAppend DEF OnePlace
  <2> QED
    BY <2>2, <2>3, <2>4 DEF OnePlace
<1>4. CASE Poll(t) /\ queue # <<>>
  <2>1. /\ pc[t] \notin Hands /\ pc'[t] \in Hands /\ \A u \in Threads \ {t} : pc'[u] = pc[u]
    BY <1>0, <1>4, BecomeIs DEF Hands, Poll, Polling
  <2>2. /\ queue' = Tail(queue) /\ pdu' = [pdu EXCEPT ![t] = Head(queue)]
        /\ UNCHANGED <<air, dropped, prepared>>
    BY <1>4 DEF Poll
  <2>3. /\ Elements(queue) = Elements(queue') \cup {Head(queue)} /\ Distinct(queue')
        /\ Head(queue) \notin Elements(queue')
    BY <1>0, <1>4, <2>2, ElementsOfTail DEF OnePlace
  <2>4. Head(queue) \notin InHands
    BY <2>3 DEF OnePlace
  <2>5. InHands' = InHands \cup {Head(queue)} /\ OneHand'
    BY <1>0, <2>1, <2>2, <2>4, TakeInHand
  <2> QED
    BY <2>2, <2>3, <2>5 DEF OnePlace
<1>5. CASE Write(t)
  <2>1. /\ pc[t] \in Hands /\ pc'[t] \notin Hands /\ \A u \in Threads \ {t} : pc'[u] = pc[u]
    BY <1>0, <1>5, BecomeIs DEF Hands, Write, Polling
  <2>2. air' = Append(air, pdu[t]) /\ UNCHANGED <<queue, dropped, pdu, prepared>>
    BY <1>5 DEF Write
  <2>3. InHands' = InHands \ {pdu[t]} /\ pdu[t] \in InHands /\ OneHand'
    BY <1>0, <2>1, <2>2, LeaveHand
  <2>4. Elements(air') = Elements(air) \cup {pdu[t]} /\ Distinct(air')
    BY <1>0, <2>2, <2>3, ElementsOfAppend DEF OnePlace
  <2> QED
    BY <2>2, <2>3, <2>4 DEF OnePlace
<1>6. CASE Complete(t)
  <2>1. /\ queue' = <<>> /\ dropped' = dropped \cup Elements(queue)
        /\ UNCHANGED <<air, pdu, prepared, pc>>
    BY <1>6 DEF Complete
  <2>2. Elements(queue') = {} /\ Distinct(queue')
    BY <2>1 DEF Elements, Distinct
  <2>3. InHands' = InHands /\ OneHand'
    BY <1>0, <2>1, SameHands
  <2> QED
    BY <2>1, <2>2, <2>3 DEF OnePlace
<1>7. ASSUME UNCHANGED <<queue, air, dropped, pdu, prepared>>,
             NEW label \in {"idle", "direct", "enqueue", "start"} \cup Polling, Become(t, label),
             pc[t] \in Hands <=> label \in Hands
      PROVE  OnePlace'
  <2>1. \A u \in Threads : pc'[u] \in Hands <=> pc[u] \in Hands
    BY <1>7, BecomeIs
  <2>2. InHands' = InHands /\ OneHand'
    BY <1>0, <1>7, <2>1, SameHands
  <2> QED
    BY <1>7, <2>2 DEF OnePlace
<1>8. CASE SendDirect(t) /\ busy
  BY <1>7, <1>8 DEF SendDirect, Hands
<1>9. CASE StartPolling(t)
  BY <1>7, <1>9 DEF StartPolling, Hands, Polling
<1>10. CASE TimerFires(t)
  BY <1>7, <1>10 DEF TimerFires, Hands, Polling
<1>11. CASE Poll(t) /\ queue = <<>>
  BY <1>7, <1>11 DEF Poll, Hands, Polling
<1>12. CASE Drained(t)
  BY <1>7, <1>12 DEF Drained, Hands, Polling
<1>13. CASE CancelTimer(t)
  BY <1>7, <1>13 DEF CancelTimer, Hands, Polling
<1>14. CASE ArmTimer(t)
  BY <1>7, <1>14 DEF ArmTimer, Hands, Polling
<1> QED
  BY <1>1, <1>2, <1>3, <1>4, <1>5, <1>6, <1>8, <1>9, <1>10, <1>11, <1>12, <1>13, <1>14
     DEF Step, Advance

-----------------------------------------------------------------------------
(* One thread polls at a time *)

\* Every step of a thread keeps one poller, or a completion has interfered.
LEMMA StepOnePoller ==
  ASSUME TypeOK, OnePoller, NEW t \in Threads, Step(t)
  PROVE  OnePoller'
<1> SUFFICES ASSUME ~overlap' PROVE OnePoller'
  BY DEF OnePoller
<1>1. CASE Complete(t)
  BY <1>1 DEF OnePoller, Complete
<1> SUFFICES ASSUME ~Complete(t) PROVE OnePoller'
  BY <1>1
<1>2. /\ \A u, v \in Threads : pc[u] \in Polling /\ pc[v] \in Polling => u = v
      /\ timers \in {0, 1} /\ (timers # 0 => busy) /\ (~busy => gap \/ purged)
      /\ \A u \in Threads : pc[u] \in Polling =>
           busy /\ timers = 0 /\ (pc[u] \in {"poll", "write", "drained"} => gap \/ purged)
  <2>1. ~overlap
    BY DEF Step, Advance, Prepare, SendDirect, Enqueue, StartPolling, TimerFires, Poll, Drained,
           Write, CancelTimer, ArmTimer
  <2> QED
    BY <2>1 DEF OnePoller
<1>3. CASE Prepare(t)
  <2>1. PICK direct \in BOOLEAN : Become(t, IF direct THEN "direct" ELSE "enqueue")
    BY <1>3 DEF Prepare
  <2> QED
    BY <1>2, <1>3, <2>1, BecomeIs DEF OnePoller, Prepare, Polling
<1>4. CASE SendDirect(t)
  BY <1>2, <1>4, BecomeIs DEF OnePoller, SendDirect, Polling
<1>5. CASE Enqueue(t)
  BY <1>2, <1>5, BecomeIs DEF OnePoller, Enqueue, Polling
<1>6. CASE StartPolling(t)
  BY <1>2, <1>6, BecomeIs DEF OnePoller, StartPolling, Polling
<1>7. CASE TimerFires(t)
  <2>1. timers = 1 /\ timers' = 0 /\ gap' /\ busy' /\ Become(t, "poll")
    BY <1>2, <1>7 DEF TimerFires
  <2> QED
    BY <1>2, <2>1, BecomeIs DEF OnePoller, Polling
<1>8. CASE Poll(t)
  BY <1>2, <1>8, BecomeIs DEF OnePoller, Poll, Polling
<1>9. CASE Drained(t)
  BY <1>2, <1>9, BecomeIs DEF OnePoller, Drained, Polling
<1>10. CASE Write(t)
  BY <1>2, <1>10, BecomeIs DEF OnePoller, Write, Polling
<1>11. CASE CancelTimer(t)
  BY <1>2, <1>11, BecomeIs DEF OnePoller, CancelTimer, Polling
<1>12. CASE ArmTimer(t)
  <2>1. timers' = 1 /\ UNCHANGED <<busy, gap, purged>> /\ Become(t, "idle") /\ busy /\ pc[t] \in Polling
    BY <1>2, <1>12 DEF ArmTimer, Polling
  <2> QED
    BY <1>2, <2>1, BecomeIs DEF OnePoller, Polling
<1> QED
  BY <1>3, <1>4, <1>5, <1>6, <1>7, <1>8, <1>9, <1>10, <1>11, <1>12 DEF Step, Advance

\* A step during which no other call is under way leaves no PDU behind.
LEMMA StepIdle ==
  ASSUME TypeOK, OnePoller, Idle, NEW t \in Threads, Step(t), serial' = (serial /\ Alone(t))
  PROVE  Idle'
<1> SUFFICES ASSUME serial' PROVE Idle'
  BY DEF Idle
<1>1. /\ ~overlap /\ \A u \in Threads \ {t} : pc[u] = "idle"
      /\ ~busy => queue = <<>> \/ pc[t] = "start"
      /\ pc[t] = "drained" => queue = <<>>
      /\ pc[t] \in Polling => busy
      /\ timers # 0 => busy
  BY DEF Idle, OnePoller, Alone
<1>0. ASSUME \A u \in Threads \ {t} : pc'[u] = "idle", ~overlap',
             ~busy' => queue' = <<>> \/ pc'[t] = "start",
             pc'[t] = "drained" => queue' = <<>>
      PROVE  Idle'
  BY <1>0 DEF Idle
<1>2. CASE Prepare(t)
  <2>1. PICK direct \in BOOLEAN : Become(t, IF direct THEN "direct" ELSE "enqueue")
    BY <1>2 DEF Prepare
  <2> QED
    BY <1>0, <1>1, <1>2, <2>1, BecomeIs DEF Prepare
<1>3. CASE SendDirect(t)
  BY <1>0, <1>1, <1>3, BecomeIs DEF SendDirect
<1>4. CASE Enqueue(t)
  BY <1>0, <1>1, <1>4, BecomeIs DEF Enqueue
<1>5. CASE StartPolling(t)
  BY <1>0, <1>1, <1>5, BecomeIs DEF StartPolling, Polling
<1>6. CASE TimerFires(t)
  BY <1>0, <1>1, <1>6, BecomeIs DEF TimerFires, Polling
<1>7. CASE Poll(t)
  BY <1>0, <1>1, <1>7, BecomeIs DEF Poll, Polling
<1>8. CASE Drained(t)
  BY <1>0, <1>1, <1>8, BecomeIs DEF Drained
<1>9. CASE Write(t)
  BY <1>0, <1>1, <1>9, BecomeIs DEF Write, Polling
<1>10. CASE CancelTimer(t)
  BY <1>0, <1>1, <1>10, BecomeIs DEF CancelTimer, Polling
<1>11. CASE ArmTimer(t)
  BY <1>0, <1>1, <1>11, BecomeIs DEF ArmTimer, Polling
<1>12. CASE Complete(t)
  <2>1. \A u \in Threads : pc[u] \notin Polling
    BY <1>1, <1>12 DEF Complete, Polling
  <2> QED
    BY <1>0, <1>1, <1>12, <2>1 DEF Complete
<1> QED
  BY <1>2, <1>3, <1>4, <1>5, <1>6, <1>7, <1>8, <1>9, <1>10, <1>11, <1>12 DEF Step, Advance

-----------------------------------------------------------------------------
(* The theorems *)

\* Nothing is prepared at first.
LEMMA InitInv == Init => QueueInv
<1> SUFFICES ASSUME Init PROVE QueueInv
  OBVIOUS
<1> USE NetworkingQueueAssumption
<1>1. TypeOK
  <2>1. /\ queue \in Seq(Pdus) /\ air \in Seq(Pdus) /\ dropped \subseteq Pdus
        /\ prepared \in 0 .. MaxPdus /\ timers \in Nat /\ stranded \subseteq Pdus
    BY EmptySeq DEF Init
  <2>2. /\ pdu \in [Threads -> 0 .. MaxPdus] /\ serial \in BOOLEAN
        /\ pc \in [Threads -> {"idle", "direct", "enqueue", "start"} \cup Polling]
    BY DEF Init
  <2> QED
    BY <2>1, <2>2 DEF Init, TypeOK
<1>2. Elements(queue) = {} /\ Elements(air) = {} /\ InHands = {} /\ OneHand
  BY DEF Init, Elements, InHands, OneHand, Hands
<1>3. OnePlace
  BY <1>2 DEF Init, OnePlace, Distinct
<1>4. OnePoller /\ Idle
  BY DEF Init, OnePoller, Idle, Polling
<1> QED
  BY <1>1, <1>3, <1>4 DEF QueueInv

\* Every step keeps the invariant.
LEMMA NextInv == QueueInv /\ [Next]_vars => QueueInv'
<1> SUFFICES ASSUME QueueInv, [Next]_vars PROVE QueueInv'
  OBVIOUS
<1>1. ASSUME NEW t \in Threads, Step(t), serial' = (serial /\ Alone(t)) PROVE QueueInv'
  <2>1. pc[t] \in Hands => pdu[t] \in Pdus
    <3>1. 1 .. prepared \subseteq Pdus
      BY NetworkingQueueAssumption DEF QueueInv, TypeOK, Pdus
    <3> QED
      BY <3>1 DEF QueueInv, OnePlace, InHands
  <2>2. serial' \in BOOLEAN
    BY <1>1 DEF QueueInv, TypeOK, Alone
  <2> QED
    BY <1>1, <2>1, <2>2, StepType, StepOnePlace, StepOnePoller, StepIdle DEF QueueInv
<1>2. CASE UNCHANGED vars
  BY <1>2 DEF vars, QueueInv, TypeOK, OnePlace, OnePoller, Idle, InHands, OneHand
<1> QED
  BY <1>1, <1>2 DEF Next

\* No PDU is lost, nor handed to the GATT connection twice, nor sent after it was dropped,
\* however the threads and the completions interleave.
THEOREM NoneLostNorSentTwice == Spec => []NotLostNorDuplicated
<1>1. QueueInv => NotLostNorDuplicated
  <2> SUFFICES ASSUME QueueInv PROVE NotLostNorDuplicated
    OBVIOUS
  <2>1. Cardinality(Elements(air)) = Len(air)
    BY DistinctCounts DEF QueueInv, TypeOK, OnePlace
  <2> QED
    BY <2>1 DEF QueueInv, OnePlace, NotLostNorDuplicated, InHands, Hands
<1> QED
  BY <1>1, InitInv, NextInv, PTL DEF Spec

\* networkingBusy and networkingSendingTask keep netPktSendInterval between two writes of
\* the queue, with any number of threads, but for the first write after a completion, and
\* for those that follow a completion in the middle of a poll, until the next one.
THEOREM WritesArePaced == Spec => Paced
<1>1. QueueInv /\ [Next]_vars => [\A t \in Threads : Write(t) /\ ~overlap /\ ~purged => gap]_vars
  BY DEF QueueInv, OnePoller, Write, Polling
<1> QED
  BY <1>1, InitInv, NextInv, PTL DEF Spec, Paced

\* Each variable has its type, and mNetworkBusyLock its holder.
THEOREM TypeCorrect == Spec => []TypeOK
<1>1. QueueInv => TypeOK
  BY DEF QueueInv
<1> QED
  BY <1>1, InitInv, NextInv, PTL DEF Spec

-----------------------------------------------------------------------------
(* The channel *)

\* What is in the hands of the thread that works comes first, and nothing else does.
LEMMA BacklogIs ==
  ASSUME NEW t \in Threads, \A u \in Threads \ {t} : pc[u] = "idle" /\ pc'[u] = "idle"
  PROVE  /\ Backlog = IF pc[t] = "write" THEN <<pdu[t]>> \o queue ELSE queue
         /\ Backlog' = IF pc'[t] = "write" THEN <<pdu'[t]>> \o queue' ELSE queue'
<1>1. InHand = IF pc[t] = "write" THEN {t} ELSE {}
  BY DEF InHand
<1>2. InHand' = IF pc'[t] = "write" THEN {t} ELSE {}
  BY DEF InHand
<1>3. (CHOOSE u \in {t} : TRUE) = t /\ {t} # {}
  OBVIOUS
<1> QED
  BY <1>1, <1>2, <1>3 DEF Backlog

\* The front of the queue, put before the rest.
LEMMA FrontAndRest ==
  ASSUME NEW q \in Seq(Pdus), NEW p \in Pdus
  PROVE  /\ <<p>> \o q # <<>> /\ Head(<<p>> \o q) = p /\ Tail(<<p>> \o q) = q
         /\ q # <<>> => q = <<Head(q)>> \o Tail(q)
OBVIOUS

\* A step during which no other call is under way is one of the channel.
LEMMA StepIsChannel ==
  ASSUME QueueInv, NEW t \in Threads, Step(t), serial, Alone(t), QueueInv'
  PROVE  Channel!Next \/ UNCHANGED Channel!channel
<1> DEFINE front == IF pc[t] = "write" THEN <<pdu[t]>> \o queue ELSE queue
           front2 == IF pc'[t] = "write" THEN <<pdu'[t]>> \o queue' ELSE queue'
<1>1. /\ TypeOK /\ OnePlace /\ t \in Threads
      /\ \A u \in Threads \ {t} : pc[u] = "idle" /\ pc'[u] = "idle"
      /\ ~busy => queue = <<>> \/ pc[t] = "start"
  <2>1. \A u \in Threads \ {t} : pc'[u] = pc[u]
    BY BecomeIs DEF Step, Advance, Prepare, SendDirect, Enqueue, StartPolling, TimerFires, Poll, Drained,
           Write, CancelTimer, ArmTimer, Complete, Become, QueueInv, TypeOK
  <2> QED
    BY <2>1 DEF QueueInv, Idle, Alone
<1>2. /\ pc \in [Threads -> {"idle", "direct", "enqueue", "start"} \cup Polling]
      /\ pdu \in [Threads -> 0 .. MaxPdus] /\ queue \in Seq(Pdus) /\ queue' \in Seq(Pdus)
  BY DEF QueueInv, TypeOK
<1>3. Backlog = front /\ Backlog' = front2
  BY <1>1, BacklogIs
<1>4. ASSUME pc[t] \in Hands PROVE pdu[t] \in Pdus
  <2>1. 1 .. prepared \subseteq Pdus
    BY NetworkingQueueAssumption, <1>1 DEF TypeOK, Pdus
  <2> QED
    BY <1>1, <1>4, <2>1 DEF OnePlace, InHands
<1> SUFFICES \/ \E p \in Pdus : /\ front2 = Append(front, p) /\ air' = air
             \/ \E p \in Pdus : front = <<>> /\ air' = Append(air, p) /\ front2 = front
             \/ front # <<>> /\ air' = Append(air, Head(front)) /\ front2 = Tail(front)
             \/ front2 = <<>> /\ air' = air
             \/ front2 = front /\ air' = air
  <2> HIDE DEF front, front2
  <2> QED
    BY <1>3 DEF Channel!Next, Channel!Accept, Channel!Pass, Channel!Transmit, Channel!Discard,
                Channel!channel
<1>5. CASE Prepare(t)
  <2>1. PICK direct \in BOOLEAN : Become(t, IF direct THEN "direct" ELSE "enqueue")
    BY <1>5 DEF Prepare
  <2> QED
    BY <1>1, <1>5, <2>1, BecomeIs DEF Prepare
<1>6. CASE SendDirect(t)
  BY <1>1, <1>4, <1>6, BecomeIs DEF SendDirect, Hands
<1>7. CASE Enqueue(t)
  BY <1>1, <1>4, <1>7, BecomeIs DEF Enqueue, Hands
<1>8. CASE StartPolling(t) \/ TimerFires(t) \/ Drained(t) \/ CancelTimer(t) \/ ArmTimer(t)
  BY <1>1, <1>8, BecomeIs DEF StartPolling, TimerFires, Drained, CancelTimer, ArmTimer, Polling
<1>9. CASE Poll(t)
  <2>1. CASE queue = <<>>
    BY <1>1, <1>9, <2>1, BecomeIs DEF Poll, Polling
  <2>2. CASE queue # <<>>
    <3>1. front = queue /\ pc'[t] = "write" /\ pdu'[t] = Head(queue) /\ queue' = Tail(queue)
      BY <1>1, <1>2, <1>9, <2>2, BecomeIs DEF Poll, Polling
    <3>2. <<Head(queue)>> \o Tail(queue) = queue
      BY <1>2, <2>2, FrontAndRest
    <3> QED
      BY <1>9, <3>1, <3>2 DEF Poll
  <2> QED
    BY <2>1, <2>2
<1>10. CASE Write(t)
  <2>1. front = <<pdu[t]>> \o queue /\ front2 = queue /\ pdu[t] \in Pdus
    BY <1>1, <1>4, <1>10, BecomeIs DEF Write, Polling, Hands
  <2>2. front # <<>> /\ Head(front) = pdu[t] /\ Tail(front) = queue
    BY <1>2, <2>1, FrontAndRest
  <2> QED
    BY <1>10, <2>1, <2>2 DEF Write
<1>11. CASE Complete(t)
  BY <1>1, <1>11 DEF Complete
<1> QED
  BY <1>5, <1>6, <1>7, <1>8, <1>9, <1>10, <1>11 DEF Step, Advance

\* The order of the calls is the order on the air, nothing is inserted, skipped or sent
\* twice: the queue implements PduChannel as long as the calls come one after the other.
THEOREM ImplementsChannel == Spec => IsChannel
<1>1. Init => Channel!Init
  <2> SUFFICES ASSUME Init PROVE Channel!Init
    OBVIOUS
  <2>1. InHand = {}
    BY DEF Init, InHand
  <2> QED
    BY <2>1 DEF Init, Channel!Init, Backlog
<1>2. QueueInv /\ QueueInv' /\ [Next]_vars => [Channel!Next \/ ~serial']_(Channel!channel)
  <2> SUFFICES ASSUME QueueInv, QueueInv', [Next]_vars, serial'
               PROVE  Channel!Next \/ UNCHANGED Channel!channel
    OBVIOUS
  <2>1. CASE UNCHANGED vars
    BY <2>1 DEF vars, Channel!channel, Backlog, InHand
  <2>2. CASE Next
    BY <2>2, StepIsChannel DEF Next
  <2> QED
    BY <2>1, <2>2
<1> QED
  BY <1>1, <1>2, InitInv, NextInv, PTL DEF Spec, IsChannel
-----------------------------------------------------------------------------
(* Liveness.  The provers reason about WF and SF, not about the ENABLED in   *)
(* them, so that the theorem assumes GuardsSuffice.                          *)

Labels == {"idle", "direct", "enqueue", "start"} \cup Polling

\* What a thread has still to do, in a measure that falls with each of its steps even
\* though they may leave a PDU in the queue (5) or a task pending (3).
Weight(label) ==
  CASE label = "direct" -> 10 [] label = "enqueue" -> 9 [] label = "write" -> 6
    [] label = "cancel" -> 5 [] label = "arm" -> 4 [] label = "start" -> 3
    [] label = "poll" -> 2 [] label = "drained" -> 1 [] label = "idle" -> 0

Work == {w \in Threads \X (1 .. 10) : w[2] <= Weight(pc[w[1]])}
Rank == 11 * (MaxPdus - prepared) + 5 * Len(queue) + 3 * timers + Cardinality(Work)

\* Somebody comes back to the queue.
Attended == timers # 0 \/ \E t \in Threads : pc[t] \in {"start", "poll", "write", "cancel", "arm"}

\* The flag is set by somebody, and a PDU is in the queue for somebody, or stranded.
Served ==
  /\ busy => timers # 0 \/ \E t \in Threads : pc[t] \in Polling
  /\ Elements(queue) \subseteq stranded \/ Attended

LiveInv == QueueInv /\ Served /\ IsFiniteSet(Work) /\ Rank <= 11 * MaxPdus

\* The measure of each label.
LEMMA Weights ==
  /\ Weight("direct") = 10 /\ Weight("enqueue") = 9 /\ Weight("write") = 6 /\ Weight("cancel") = 5
  /\ Weight("arm") = 4 /\ Weight("start") = 3 /\ Weight("poll") = 2 /\ Weight("drained") = 1
  /\ Weight("idle") = 0
  /\ \A label \in Labels : Weight(label) \in 0 .. 10
<1>1. /\ Weight("direct") = 10 /\ Weight("enqueue") = 9 /\ Weight("write") = 6 /\ Weight("cancel") = 5
      /\ Weight("arm") = 4 /\ Weight("start") = 3 /\ Weight("poll") = 2 /\ Weight("drained") = 1
      /\ Weight("idle") = 0
  BY DEF Weight
<1> HIDE DEF Weight
<1>2. \A label \in Labels : Weight(label) \in 0 .. 10
  BY <1>1 DEF Labels, Polling
<1> QED
  BY <1>1, <1>2

\* The work of the threads follows the label of the one that moves.
LEMMA WorkMoves ==
  ASSUME TypeOK, IsFiniteSet(Work), NEW t \in Threads, NEW label \in Labels, Become(t, label)
  PROVE  /\ IsFiniteSet(Work') /\ Cardinality(Work) \in Nat /\ Cardinality(Work') \in Nat
         /\ Cardinality(Work') + Weight(pc[t]) = Cardinality(Work) + Weight(label)
<1> DEFINE Rest == {w \in Work : w[1] # t}
           Bar(n) == {t} \X (1 .. n)
<1>1. /\ pc[t] \in Labels /\ Weight(label) \in 0 .. 10 /\ Weight(pc[t]) \in 0 .. 10
      /\ \A u \in Threads : pc'[u] = IF u = t THEN label ELSE pc[u]
  BY BecomeIs, Weights DEF TypeOK, Labels
<1>2. \A n \in 0 .. 10 : IsFiniteSet(Bar(n)) /\ Cardinality(Bar(n)) = n
  <2> TAKE n \in 0 .. 10
  <2>1. 1 \in Int /\ n \in Int /\ n = (IF 1 > n THEN 0 ELSE n - 1 + 1)
    OBVIOUS
  <2>2. IsFiniteSet(1 .. n) /\ Cardinality(1 .. n) = n
    BY <2>1, FS_Interval
  <2>3. IsFiniteSet({t}) /\ Cardinality({t}) = 1
    BY FS_Singleton
  <2>4. IsFiniteSet(Bar(n)) /\ Cardinality(Bar(n)) = 1 * n
    BY <2>2, <2>3, FS_Product
  <2> QED
    BY <2>4
<1>3. Work = Rest \cup Bar(Weight(pc[t])) /\ Rest \cap Bar(Weight(pc[t])) = {}
  <2>1. Bar(Weight(pc[t])) = {w \in Work : w[1] = t}
    BY <1>1 DEF Work
  <2> QED
    BY <2>1
<1>4. Work' = Rest \cup Bar(Weight(label)) /\ Rest \cap Bar(Weight(label)) = {}
  <2>1. Bar(Weight(label)) = {w \in Work' : w[1] = t}
    BY <1>1 DEF Work
  <2>2. Rest = {w \in Work' : w[1] # t}
    BY <1>1 DEF Work
  <2> QED
    BY <2>1, <2>2
<1>5. IsFiniteSet(Rest) /\ Cardinality(Rest) \in Nat
  <2>1. IsFiniteSet(Rest)
    <3>1. Rest \in SUBSET Work
      OBVIOUS
    <3> QED
      BY <3>1, FS_Subset
  <2> QED
    BY <2>1, FS_CardinalityType
<1>6. \A n \in 0 .. 10 : Rest \cap Bar(n) = {} =>
        IsFiniteSet(Rest \cup Bar(n)) /\ Cardinality(Rest \cup Bar(n)) = Cardinality(Rest) + n
  <2> TAKE n \in 0 .. 10
  <2> HAVE Rest \cap Bar(n) = {}
  <2> DEFINE B == Bar(n)
  <2>1. IsFiniteSet(B) /\ Cardinality(B) = n /\ Rest \cap B = {} /\ Cardinality({}) = 0
    BY <1>2, FS_EmptySet
  <2> HIDE DEF Rest, B
  <2>2. /\ IsFiniteSet(Rest \cup B)
        /\ Cardinality(Rest \cup B) = Cardinality(Rest) + Cardinality(B) - Cardinality(Rest \cap B)
    BY <1>5, <2>1, FS_Union
  <2>3. Cardinality(Rest \cap B) = 0
    BY <2>1
  <2>4. Cardinality(Rest \cup B) = Cardinality(Rest) + n
    BY <1>5, <2>1, <2>2, <2>3
  <2> QED
    BY <2>2, <2>4 DEF B
<1> HIDE DEF Rest, Bar
<1>7. Cardinality(Work) = Cardinality(Rest) + Weight(pc[t])
  BY <1>1, <1>3, <1>6
<1>8. IsFiniteSet(Work') /\ Cardinality(Work') = Cardinality(Rest) + Weight(label)
  BY <1>1, <1>4, <1>6
<1> HIDE DEF Weight
<1> QED
  BY <1>1, <1>5, <1>7, <1>8

\* Nobody waits at first.
LEMMA LiveInit == Init => LiveInv
<1> SUFFICES ASSUME Init PROVE LiveInv
  OBVIOUS
<1>1. Work = {}
  BY Weights DEF Init, Work
<1>2. IsFiniteSet(Work) /\ Cardinality(Work) = 0
  BY <1>1, FS_EmptySet
<1>3. Served
  BY DEF Init, Served, Elements
<1>4. prepared = 0 /\ Len(queue) = 0 /\ timers = 0 /\ MaxPdus \in Nat
  BY NetworkingQueueAssumption DEF Init
<1> QED
  BY <1>2, <1>3, <1>4, InitInv DEF LiveInv, Rank

\* The bookkeeping of the measure.
Falls == Rank' < Rank

\* Every step of a thread lowers the measure, but a completion that finds nothing to drop.
LEMMA StepFalls ==
  ASSUME QueueInv, IsFiniteSet(Work), NEW t \in Threads, Step(t)
  PROVE  /\ Rank \in Nat /\ IsFiniteSet(Work')
         /\ \/ Falls
            \/ Complete(t) /\ Rank' = Rank /\ queue = <<>> /\ UNCHANGED <<queue, timers>>
<1>0. /\ TypeOK /\ prepared \in 0 .. MaxPdus /\ MaxPdus \in Nat /\ timers \in Nat /\ Len(queue) \in Nat
      /\ queue \in Seq(Pdus) /\ Cardinality(Work) \in Nat
  BY NetworkingQueueAssumption, LenProperties, FS_CardinalityType DEF QueueInv, TypeOK
<1>1. Rank \in Nat
  BY <1>0 DEF Rank
<1>2. ASSUME NEW label \in Labels, Become(t, label), NEW a \in Int, NEW b \in Int, NEW c \in Int,
             prepared' = prepared + a, Len(queue') = Len(queue) - b, timers' = timers - c,
             Weight(label) < 11 * a + 5 * b + 3 * c + Weight(pc[t])
      PROVE  Falls /\ IsFiniteSet(Work')
  <2>1. /\ IsFiniteSet(Work') /\ Cardinality(Work') \in Nat
        /\ Cardinality(Work') + Weight(pc[t]) = Cardinality(Work) + Weight(label)
    BY <1>0, <1>2, WorkMoves
  <2>2. Weight(pc[t]) \in Int /\ Weight(label) \in Int
    <3>1. pc[t] \in Labels
      BY <1>0 DEF TypeOK, Labels
    <3> HIDE DEF Weight, Labels
    <3> QED
      BY <3>1, Weights
  <2>3. \A w, v, x, y, p, m, l, k \in Int :
          y + w = x + v /\ v < 11 * a + 5 * b + 3 * c + w
            => 11 * (m - (p + a)) + 5 * (l - b) + 3 * (k - c) + y < 11 * (m - p) + 5 * l + 3 * k + x
    OBVIOUS
  <2>4. Cardinality(Work) \in Int /\ Cardinality(Work') \in Int /\ prepared \in Int /\ MaxPdus \in Int
        /\ Len(queue) \in Int /\ timers \in Int
    BY <1>0, <2>1
  <2>5. 11 * (MaxPdus - prepared') + 5 * Len(queue') + 3 * timers' + Cardinality(Work')
          < 11 * (MaxPdus - prepared) + 5 * Len(queue) + 3 * timers + Cardinality(Work)
    BY <1>2, <2>1, <2>2, <2>3, <2>4
  <2> QED
    BY <2>1, <2>5 DEF Falls, Rank
<1>3. ASSUME NEW label \in Labels, Become(t, label), UNCHANGED <<prepared, queue, timers>>,
             Weight(label) < Weight(pc[t])
      PROVE  Falls /\ IsFiniteSet(Work')
  <2>1. /\ prepared' = prepared + 0 /\ Len(queue') = Len(queue) - 0 /\ timers' = timers - 0
        /\ 11 * 0 + 5 * 0 + 3 * 0 + Weight(pc[t]) = Weight(pc[t]) /\ 0 \in Int
    <3>1. pc[t] \in Labels
      BY <1>0 DEF TypeOK, Labels
    <3>2. Weight(pc[t]) \in Int
      BY <3>1, Weights
    <3> HIDE DEF Weight
    <3> QED
      BY <1>0, <1>3, <3>2
  <2> QED
    BY <1>2, <1>3, <2>1
<1>4. CASE Prepare(t)
  <2>1. PICK direct \in BOOLEAN : Become(t, IF direct THEN "direct" ELSE "enqueue")
    BY <1>4 DEF Prepare
  <2> DEFINE label == IF direct THEN "direct" ELSE "enqueue"
  <2>2. /\ prepared' = prepared + 1 /\ Len(queue') = Len(queue) - 0 /\ timers' = timers - 0
        /\ 1 \in Int /\ 0 \in Int
    BY <1>0, <1>4 DEF Prepare
  <2>3. Weight(label) < 11 * 1 + 5 * 0 + 3 * 0 + Weight(pc[t]) /\ label \in Labels
    BY <1>4, Weights DEF Prepare, Labels
  <2> HIDE DEF label
  <2> QED
    BY <1>1, <1>2, <2>1, <2>2, <2>3 DEF label
<1>5. CASE SendDirect(t)
  <2>1. PICK label \in Labels : Become(t, label) /\ Weight(label) < Weight(pc[t])
    BY <1>5, Weights DEF SendDirect, Labels
  <2> QED
    BY <1>1, <1>3, <1>5, <2>1 DEF SendDirect
<1>6. CASE Enqueue(t)
  <2>1. /\ prepared' = prepared + 0 /\ Len(queue') = Len(queue) - (0 - 1) /\ timers' = timers - 0
        /\ 0 - 1 \in Int /\ 0 \in Int /\ Become(t, "start")
    BY <1>0, <1>6 DEF Enqueue
  <2>2. Weight("start") < 11 * 0 + 5 * (0 - 1) + 3 * 0 + Weight(pc[t]) /\ "start" \in Labels
    BY <1>6, Weights DEF Enqueue, Labels
  <2> QED
    BY <1>1, <1>2, <2>1, <2>2
<1>7. CASE StartPolling(t)
  <2>1. PICK label \in Labels : Become(t, label) /\ Weight(label) < Weight(pc[t])
    BY <1>7, Weights DEF StartPolling, Labels, Polling
  <2> QED
    BY <1>1, <1>3, <1>7, <2>1 DEF StartPolling
<1>8. CASE TimerFires(t)
  <2>1. /\ prepared' = prepared + 0 /\ Len(queue') = Len(queue) - 0 /\ timers' = timers - 1
        /\ 1 \in Int /\ 0 \in Int /\ Become(t, "poll")
    BY <1>0, <1>8 DEF TimerFires
  <2>2. Weight("poll") < 11 * 0 + 5 * 0 + 3 * 1 + Weight(pc[t]) /\ "poll" \in Labels
    BY <1>8, Weights DEF TimerFires, Labels, Polling
  <2> QED
    BY <1>1, <1>2, <2>1, <2>2
<1>9. CASE Poll(t) /\ queue = <<>>
  <2>1. Become(t, "drained") /\ "drained" \in Labels /\ Weight("drained") < Weight(pc[t])
    BY <1>9, Weights DEF Poll, Labels, Polling
  <2> QED
    BY <1>1, <1>3, <1>9, <2>1 DEF Poll
<1>10. CASE Poll(t) /\ queue # <<>>
  <2>1. /\ prepared' = prepared + 0 /\ Len(queue') = Len(queue) - 1 /\ timers' = timers - 0
        /\ 1 \in Int /\ 0 \in Int /\ Become(t, "write")
    BY <1>0, <1>10, HeadTailProperties DEF Poll
  <2>2. Weight("write") < 11 * 0 + 5 * 1 + 3 * 0 + Weight(pc[t]) /\ "write" \in Labels
    BY <1>10, Weights DEF Poll, Labels, Polling
  <2> QED
    BY <1>1, <1>2, <2>1, <2>2
<1>11. CASE Drained(t) \/ Write(t)
  <2>1. PICK label \in Labels : Become(t, label) /\ Weight(label) < Weight(pc[t])
    BY <1>11, Weights DEF Drained, Write, Labels, Polling
  <2> QED
    BY <1>1, <1>3, <1>11, <2>1 DEF Drained, Write
<1>12. CASE CancelTimer(t)
  <2>1. /\ prepared' = prepared + 0 /\ Len(queue') = Len(queue) - 0 /\ timers' = timers - timers
        /\ timers \in Int /\ 0 \in Int /\ Become(t, "arm")
    BY <1>0, <1>12 DEF CancelTimer
  <2>2. Weight("arm") < 11 * 0 + 5 * 0 + 3 * timers + Weight(pc[t]) /\ "arm" \in Labels
    BY <1>0, <1>12, Weights DEF CancelTimer, Labels, Polling
  <2> QED
    BY <1>1, <1>2, <2>1, <2>2
<1>13. CASE ArmTimer(t)
  <2>1. /\ prepared' = prepared + 0 /\ Len(queue') = Len(queue) - 0 /\ timers' = timers - (0 - 1)
        /\ 0 - 1 \in Int /\ 0 \in Int /\ Become(t, "idle")
    BY <1>0, <1>13 DEF ArmTimer
  <2>2. Weight("idle") < 11 * 0 + 5 * 0 + 3 * (0 - 1) + Weight(pc[t]) /\ "idle" \in Labels
    BY <1>13, Weights DEF ArmTimer, Labels, Polling
  <2> QED
    BY <1>1, <1>2, <2>1, <2>2
<1>14. CASE Complete(t)
  <2>1. Work' = Work /\ timers' = 0 /\ Len(queue') = 0 /\ prepared' = prepared /\ queue' = <<>>
    BY <1>14 DEF Complete, Work
  <2>2. queue # <<>> => Len(queue) # 0
    BY <1>0, EmptySeq
  <2> QED
    BY <1>0, <1>1, <1>14, <2>1, <2>2 DEF Falls, Rank
<1> QED
  BY <1>4, <1>5, <1>6, <1>7, <1>8, <1>9, <1>10, <1>11, <1>12, <1>13, <1>14 DEF Step, Advance
\* The measure is a number.
LEMMA RankIsNat == QueueInv /\ IsFiniteSet(Work) => Rank \in Nat
<1> SUFFICES ASSUME QueueInv, IsFiniteSet(Work) PROVE Rank \in Nat
  OBVIOUS
<1>1. Len(queue) \in Nat /\ Cardinality(Work) \in Nat
  BY LenProperties, FS_CardinalityType DEF QueueInv, TypeOK
<1> QED
  BY <1>1, NetworkingQueueAssumption DEF Rank, QueueInv, TypeOK

\* Somebody comes back to the queue after every step as well.
LEMMA StepServed ==
  ASSUME QueueInv, Served, NEW t \in Threads, Step(t)
  PROVE  Served'
<1>0. /\ TypeOK /\ timers \in Nat /\ Elements(<<>>) = {}
      /\ busy => timers # 0 \/ \E u \in Threads : pc[u] \in Polling
      /\ Elements(queue) \subseteq stranded \/ Attended
  BY DEF QueueInv, TypeOK, Served, Elements
<1>1. ASSUME NEW label, \A u \in Threads : pc'[u] = IF u = t THEN label ELSE pc[u],
             UNCHANGED <<timers, busy, queue, stranded>>,
             pc[t] \in Polling => label \in Polling,
             pc[t] \in {"start", "poll", "write", "cancel", "arm"}
               => label \in {"start", "poll", "write", "cancel", "arm"}
      PROVE  Served'
  BY <1>0, <1>1 DEF Served, Attended
<1>2. CASE Prepare(t)
  <2>1. PICK direct \in BOOLEAN : Become(t, IF direct THEN "direct" ELSE "enqueue")
    BY <1>2 DEF Prepare
  <2> QED
    BY <1>0, <1>1, <1>2, <2>1, BecomeIs DEF Prepare, Polling
<1>3. CASE SendDirect(t)
  BY <1>0, <1>1, <1>3, BecomeIs DEF SendDirect, Polling
<1>4. CASE Enqueue(t)
  <2>1. pc'[t] = "start" /\ \A u \in Threads \ {t} : pc'[u] = pc[u]
    BY <1>0, <1>4, BecomeIs DEF Enqueue
  <2>2. Attended'
    BY <2>1 DEF Attended
  <2> QED
    BY <1>0, <1>4, <2>1, <2>2 DEF Served, Enqueue, Polling
<1>5. CASE StartPolling(t) /\ ~busy
  <2>1. pc'[t] = "poll"
    BY <1>0, <1>5, BecomeIs DEF StartPolling, Polling
  <2> QED
    BY <2>1 DEF Served, Attended, Polling
<1>6. CASE StartPolling(t) /\ busy
  <2>1. pc[t] = "start" /\ \A u \in Threads : pc'[u] = IF u = t THEN "idle" ELSE pc[u]
    BY <1>0, <1>6, BecomeIs DEF StartPolling, Polling
  <2>2. /\ UNCHANGED <<timers, busy, queue>>
        /\ stranded' = stranded \cup IF TooLate THEN Elements(queue) ELSE {}
    BY <1>6 DEF StartPolling
  <2>3. TooLate \/ timers # 0 \/ \E u \in Threads : pc[u] \in Polling \ {"drained"}
    BY <1>0, <1>6 DEF TooLate
  <2>4. busy' => timers' # 0 \/ \E u \in Threads : pc'[u] \in Polling
    BY <1>0, <2>1, <2>2 DEF Polling
  <2>5. Elements(queue') \subseteq stranded' \/ Attended'
    BY <1>0, <2>1, <2>2, <2>3 DEF Attended, Polling
  <2> QED
    BY <2>4, <2>5 DEF Served
<1>7. CASE TimerFires(t)
  <2>1. pc'[t] = "poll"
    BY <1>0, <1>7, BecomeIs DEF TimerFires, Polling
  <2> QED
    BY <2>1 DEF Served, Attended, Polling
<1>8. CASE Poll(t) /\ queue # <<>>
  <2>1. pc'[t] = "write"
    BY <1>0, <1>8, BecomeIs DEF Poll, Polling
  <2> QED
    BY <2>1 DEF Served, Attended, Polling
<1>9. CASE Poll(t) /\ queue = <<>>
  <2>1. pc'[t] = "drained" /\ queue' = <<>>
    BY <1>0, <1>9, BecomeIs DEF Poll, Polling
  <2> QED
    BY <1>0, <2>1 DEF Served, Polling
<1>10. CASE Drained(t)
  <2>1. \A u \in Threads : pc'[u] = IF u = t THEN "idle" ELSE pc[u]
    BY <1>0, <1>10, BecomeIs DEF Drained
  <2>2. ~busy' /\ pc[t] = "drained" /\ UNCHANGED <<timers, queue, stranded>>
    BY <1>10 DEF Drained
  <2> QED
    BY <1>0, <2>1, <2>2 DEF Served, Attended
<1>11. CASE Write(t)
  <2>1. pc'[t] = "cancel"
    BY <1>0, <1>11, BecomeIs DEF Write, Polling
  <2> QED
    BY <2>1 DEF Served, Attended, Polling
<1>12. CASE CancelTimer(t)
  <2>1. pc'[t] = "arm"
    BY <1>0, <1>12, BecomeIs DEF CancelTimer, Polling
  <2> QED
    BY <2>1 DEF Served, Attended, Polling
<1>13. CASE ArmTimer(t)
  <2>1. timers' # 0
    BY <1>0, <1>13 DEF ArmTimer
  <2> QED
    BY <2>1 DEF Served, Attended
<1>14. CASE Complete(t)
  BY <1>0, <1>14 DEF Served, Complete
<1> QED
  BY <1>2, <1>3, <1>4, <1>5, <1>6, <1>7, <1>8, <1>9, <1>10, <1>11, <1>12, <1>13, <1>14 DEF Step, Advance

\* Nothing that the measure and the service are about has changed.
LEMMA LiveStays ==
  ASSUME UNCHANGED vars
  PROVE  Rank' = Rank /\ (Working' <=> Working) /\ Work' = Work /\ (Served => Served')
<1>1. UNCHANGED <<queue, busy, timers, pc, prepared, stranded>>
  BY DEF vars
<1>2. Work' = Work
  BY <1>1 DEF Work
<1> QED
  BY <1>1, <1>2 DEF Rank, Working, Served, Attended

\* LiveInv holds after every step.
LEMMA LiveNext == LiveInv /\ [Next]_vars => LiveInv'
<1> SUFFICES ASSUME LiveInv, [Next]_vars PROVE LiveInv'
  OBVIOUS
<1>1. QueueInv'
  BY NextInv DEF LiveInv
<1>2. CASE UNCHANGED vars
  BY <1>1, <1>2, LiveStays DEF LiveInv
<1>3. ASSUME NEW t \in Threads, Step(t) PROVE LiveInv'
  <2>1. Rank \in Nat /\ IsFiniteSet(Work') /\ (Falls \/ Rank' = Rank)
    BY <1>3, StepFalls DEF LiveInv
  <2>2. Rank' <= 11 * MaxPdus
    <3>1. (QueueInv /\ IsFiniteSet(Work))'
      BY <1>1, <2>1
    <3>2. (QueueInv /\ IsFiniteSet(Work) => Rank \in Nat)'
      BY RankIsNat, PTL
    <3>3. (Rank \in Int)' /\ 11 * MaxPdus \in Int
      BY <3>1, <3>2, NetworkingQueueAssumption
    <3> HIDE DEF Rank
    <3> QED
      BY <2>1, <3>3 DEF LiveInv, Falls
  <2> QED
    BY <1>1, <1>3, <2>1, <2>2, StepServed DEF LiveInv
<1> QED
  BY <1>2, <1>3 DEF Next

Gone(p) == p \in Elements(air) \cup dropped \cup stranded
Waiting(p) == prepared >= p /\ ~Gone(p)
WaitingBelow(p, k) == Waiting(p) /\ Rank < k
WaitingAt(p, k) == Waiting(p) /\ Rank = k

\* What a step does to a PDU that waits.
LEMMA WaitingStep ==
  ASSUME LiveInv, NEW p \in Pdus, NEW k \in Nat, WaitingAt(p, k), [Next]_vars
  PROVE  \/ Gone(p)' \/ WaitingBelow(p, k)'
         \/ WaitingAt(p, k)' /\ (Working' <=> Working) /\ (Runs \/ Fires => UNCHANGED vars)
<1>1. CASE UNCHANGED vars
  <2>1. UNCHANGED <<prepared, air, dropped, stranded>>
    BY <1>1 DEF vars
  <2>2. WaitingAt(p, k)'
    BY <1>1, <2>1, LiveStays DEF WaitingAt, Waiting, Gone
  <2> QED
    BY <1>1, <2>2, LiveStays
<1>2. ASSUME NEW t \in Threads, Step(t), ~Gone(p)'
      PROVE  \/ WaitingBelow(p, k)'
             \/ WaitingAt(p, k)' /\ Complete(t) /\ queue = <<>> /\ UNCHANGED timers
  <2>0. prepared' = prepared \/ prepared' = prepared + 1
    BY <1>2 DEF Step, Advance, Prepare, SendDirect, Enqueue, StartPolling, TimerFires,
       Poll, Drained, Write, CancelTimer, ArmTimer, Complete
  <2>1. prepared \in Int /\ p \in Int
    BY NetworkingQueueAssumption DEF LiveInv, QueueInv, TypeOK, Pdus
  <2>2. Waiting(p)'
    BY <1>2, <2>0, <2>1 DEF Waiting, WaitingAt
  <2>3. Falls \/ (Complete(t) /\ Rank' = Rank /\ queue = <<>> /\ UNCHANGED timers)
    BY <1>2, StepFalls DEF LiveInv
  <2> QED
    BY <2>2, <2>3 DEF WaitingBelow, WaitingAt, Falls
<1>3. ASSUME ~Gone(p)', ~WaitingBelow(p, k)', ~UNCHANGED vars
      PROVE  WaitingAt(p, k)' /\ (Working' <=> Working) /\ ~Runs /\ ~Fires
  <2>1. PICK t \in Threads : Step(t)
    BY <1>3 DEF Next
  <2>2. WaitingAt(p, k)' /\ Complete(t) /\ queue = <<>> /\ UNCHANGED timers
    BY <1>2, <1>3, <2>1
  <2>3. pc' = pc
    BY <2>2 DEF Complete
  <2>4. ~Runs
    <3>1. ASSUME NEW u \in Threads, Advance(u) PROVE FALSE
      <4>1. pc[u] # "idle" /\ Step(u)
        BY <3>1 DEF Step, Advance, SendDirect, Enqueue, StartPolling, Poll, Drained, Write, CancelTimer, ArmTimer
      <4>2. Complete(u)
        BY <1>2, <1>3, <4>1
      <4> QED
        BY <4>1, <4>2 DEF Complete
    <3> QED
      BY <3>1 DEF Runs
  <2>5. ~Fires
    <3>1. Fires => Handler \in Threads /\ Step(Handler) /\ timers' = timers - 1 /\ timers \in Nat
      BY NetworkingQueueAssumption DEF Fires, Step, TimerFires, LiveInv, QueueInv, TypeOK
    <3>2. timers \in Nat => timers # timers - 1
      OBVIOUS
    <3> QED
      BY <1>2, <1>3, <3>1, <3>2
  <2> QED
    BY <2>2, <2>3, <2>4, <2>5 DEF Working
<1> QED
  BY <1>1, <1>3

\* A PDU that waits while all threads are idle is in the queue, and the task is pending.
LEMMA WaitingIsServed ==
  ASSUME LiveInv, NEW p \in Pdus, Waiting(p), ~Working
  PROVE  timers > 0
<1>1. timers \in Nat /\ p \in 1 .. prepared /\ InHands = {}
  BY NetworkingQueueAssumption DEF LiveInv, QueueInv, TypeOK, Waiting, Pdus, InHands, Hands, Working
<1>2. p \in Elements(queue) /\ p \notin stranded
  BY <1>1 DEF LiveInv, QueueInv, OnePlace, Waiting, Gone
<1>3. timers # 0
  BY <1>2 DEF LiveInv, Served, Attended, Working
<1> QED
  BY <1>1, <1>3

\* The measure of a PDU that waits falls.
LEMMA WaitingFalls ==
  ASSUME NEW p \in Pdus, NEW k \in Nat
  PROVE  Spec /\ []GuardsSuffice => (WaitingAt(p, k) ~> (Gone(p) \/ WaitingBelow(p, k)))
<1> DEFINE V == WaitingAt(p, k)
           Z == Gone(p) \/ WaitingBelow(p, k)
           T == timers > 0
<1>1. LiveInv /\ V /\ [Next]_vars
        => Z' \/ (V' /\ (Working' <=> Working) /\ (Runs \/ Fires => UNCHANGED vars))
  BY WaitingStep
<1>2. LiveInv /\ V /\ ~Working => T
  BY WaitingIsServed DEF WaitingAt
<1>3. GuardsSuffice => /\ Working => ENABLED <<Runs>>_vars
                       /\ ~Working /\ T => ENABLED <<Fires>>_vars
  BY DEF GuardsSuffice
<1>4. <<Runs>>_vars => Runs /\ ~UNCHANGED vars
  OBVIOUS
<1>5. <<Fires>>_vars => Fires /\ ~UNCHANGED vars
  OBVIOUS
<1> HIDE DEF V, Z, T
<1>6. Spec /\ []GuardsSuffice => (V ~> Z)
  BY <1>1, <1>2, <1>3, <1>4, <1>5, LiveInit, LiveNext, PTL DEF Spec, Fairness
<1> QED
  BY <1>6 DEF V, Z

\* Induction over the natural numbers, for what is the case of those where a function is 1.
LEMMA Induction ==
  ASSUME NEW F, F[0] = 1, \A n \in Nat : F[n] = 1 => F[n + 1] = 1
  PROVE  \A n \in Nat : F[n] = 1
<1> SUFFICES ASSUME NEW k \in Nat, F[k] # 1 PROVE FALSE
  OBVIOUS
<1> DEFINE S == {n \in Nat : F[n] # 1}
<1>1. PICK m \in S : \A j \in S : <<j, m>> \notin OpToRel(<, Nat)
  BY NatLessThanWellFounded, WFMin
<1>2. m \in Nat /\ m # 0
  BY <1>1
<1> HIDE DEF S
<1>3. m - 1 \in Nat /\ m - 1 < m /\ (m - 1) + 1 = m
  BY <1>2
<1>4. m - 1 \notin S
  BY <1>1, <1>2, <1>3 DEF OpToRel
<1> QED
  BY <1>1, <1>3, <1>4 DEF S

\* Says nothing of f, and lets a proof name it.
Named(f) == TRUE

Leaves(p, k) == WaitingBelow(p, k) ~> Gone(p)

\* PduLeaves: every PDU that is prepared is written, dropped by a completion, or stranded
\* behind a poll that is over, however the calls of any number of threads, the polls and the
\* completions interleave, and whichever thread gets a monitor first.
THEOREM EveryPduLeaves == Spec /\ []GuardsSuffice => PduLeaves
<1> DEFINE Most == 11 * MaxPdus + 1
<1>1. Spec => []LiveInv
  BY LiveInit, LiveNext, PTL DEF Spec
<1>2. ASSUME NEW p \in Pdus
      PROVE  Spec /\ []GuardsSuffice => Leaves(p, Most)
  <2>1. LiveInv => ~WaitingBelow(p, 0)
    BY RankIsNat DEF LiveInv, WaitingBelow
  <2>2. Spec => Leaves(p, 0)
    BY <1>1, <2>1, PTL DEF Leaves
  <2>3. ASSUME NEW k \in Nat
        PROVE  Spec /\ []GuardsSuffice /\ Leaves(p, k) => Leaves(p, k + 1)
    <3>1. LiveInv /\ WaitingBelow(p, k + 1) => WaitingBelow(p, k) \/ WaitingAt(p, k)
      <4> SUFFICES ASSUME LiveInv, WaitingBelow(p, k + 1) PROVE WaitingBelow(p, k) \/ WaitingAt(p, k)
        OBVIOUS
      <4>1. Rank \in Nat
        BY RankIsNat DEF LiveInv
      <4> HIDE DEF Rank
      <4> QED
        BY <4>1 DEF WaitingBelow, WaitingAt
    <3>2. Spec /\ []GuardsSuffice => (WaitingAt(p, k) ~> (Gone(p) \/ WaitingBelow(p, k)))
      BY WaitingFalls
    <3> QED
      BY <1>1, <3>1, <3>2, PTL DEF Leaves
  <2> SUFFICES ASSUME Spec /\ []GuardsSuffice PROVE Leaves(p, Most)
    OBVIOUS
  <2>4. PICK F : Named(F) /\ \A k \in Nat : F[k] = 1 <=> Leaves(p, k)
    <3>1. Named([k \in Nat |-> IF Leaves(p, k) THEN 1 ELSE 0])
      BY DEF Named
    <3> QED
      BY <3>1
  <2>5. F[0] = 1
    BY <2>2, <2>4
  <2>6. \A k \in Nat : F[k] = 1 => F[k + 1] = 1
    BY <2>3, <2>4
  <2>7. \A k \in Nat : F[k] = 1
    BY <2>5, <2>6, Induction
  <2>8. Most \in Nat
    BY NetworkingQueueAssumption
  <2> QED
    BY <2>4, <2>7, <2>8
<1>3. ASSUME NEW p \in Pdus
      PROVE  Spec /\ []GuardsSuffice => ((prepared >= p) ~> Gone(p))
  <2>1. LiveInv /\ prepared >= p => Gone(p) \/ WaitingBelow(p, Most)
    <3> SUFFICES ASSUME LiveInv, prepared >= p, ~Gone(p) PROVE WaitingBelow(p, Most)
      OBVIOUS
    <3>1. Rank \in Nat /\ MaxPdus \in Nat /\ Rank <= 11 * MaxPdus
      BY RankIsNat, NetworkingQueueAssumption DEF LiveInv
    <3> HIDE DEF Rank
    <3> QED
      BY <3>1 DEF WaitingBelow, Waiting
  <2> HIDE DEF Most
  <2> QED
    BY <1>1, <1>2, <2>1, PTL DEF Leaves
<1> QED
  BY <1>3 DEF PduLeaves, Gone

=============================================================================
