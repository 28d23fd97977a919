--------------------------- MODULE NetworkingQueue --------------------------
(***************************************************************************)
(* The queue of outgoing network PDUs of NetworkingController: a PDU for   *)
(* the proxy node itself is written at once while the queue is idle, every *)
(* other PDU is queued and written one per netPktSendInterval by           *)
(* networkingSendingTask on the handler thread.                            *)
(*                                                                         *)
(* networkingBusy is guarded by mNetworkBusyLock, the queue by its own     *)
(* monitor; pollNetworkingQueue takes them one after the other.  A thread's*)
(* code is cut wherever it is outside a critical section.  A critical      *)
(* section of the monitor is one step; mNetworkBusyLock is held over       *)
(* several steps, and is a variable.                                       *)
(***************************************************************************)
EXTENDS Naturals, Sequences, FiniteSets

CONSTANTS
  Threads,     \* threads that call into the controller
  Handler,     \* the one that runs networkingSendingTask
  Nobody,      \* no thread
  MaxPdus      \* bound: number of PDUs prepared

ASSUME NetworkingQueueAssumption ==
  Handler \in Threads /\ Nobody \notin Threads /\ MaxPdus \in Nat

VARIABLES
  queue,       \* mNetworkingQueue: numbers of the PDUs in it
  busy,        \* networkingBusy
  busyLock,    \* the thread that holds mNetworkBusyLock, or Nobody
  timers,      \* pending postings of networkingSendingTask
  pc, pdu,     \* where each thread is, and its payload
  prepared,    \* number of PDUs prepared so far; also the latest number
  air,         \* history: PDUs handed to the GATT connection
  dropped,     \* history: PDUs removed by a completion
  gap,         \* history: netPktSendInterval has passed since the last poll
  overlap,     \* history: the latest completion came in the middle of a poll
  purged,      \* history: a completion has come since the last write of a poll
  stranded,    \* history: PDUs queued behind a poll that had found the queue empty
  serial       \* history: no call has begun while another was under way

vars == <<queue, busy, busyLock, timers, pc, pdu, prepared, air, dropped,
          gap, overlap, purged, stranded, serial>>

Pdus == 1 .. MaxPdus
Elements(q) == {q[i] : i \in DOMAIN q}
Become(t, label) == pc' = [pc EXCEPT ![t] = label]

Init ==
  /\ queue = <<>> /\ busy = FALSE /\ busyLock = Nobody /\ timers = 0
  /\ pc = [t \in Threads |-> "idle"]
  /\ pdu = [t \in Threads |-> 0]
  /\ prepared = 0 /\ air = <<>> /\ dropped = {}
  /\ gap = TRUE /\ overlap = FALSE /\ purged = FALSE /\ stranded = {} /\ serial = TRUE

-----------------------------------------------------------------------------
(* onNetworkingPduPrepared *)

\* a PDU with the next sequence number; direct iff dstAddress = directAddress
Prepare(t) ==
  /\ pc[t] = "idle" /\ prepared < MaxPdus
  /\ prepared' = prepared + 1
  /\ pdu' = [pdu EXCEPT ![t] = prepared + 1]
  /\ \E direct \in BOOLEAN : Become(t, IF direct THEN "direct" ELSE "enqueue")
  /\ UNCHANGED <<queue, busy, busyLock, timers, air, dropped, gap, overlap, purged, stranded>>

\* first critical section of mNetworkBusyLock
SendDirect(t) ==
  /\ pc[t] = "direct" /\ busyLock = Nobody
  /\ IF busy
     THEN Become(t, "enqueue") /\ UNCHANGED air
     ELSE Become(t, "idle") /\ air' = Append(air, pdu[t])
  /\ UNCHANGED <<queue, busy, busyLock, timers, pdu, prepared, dropped, gap, overlap, purged, stranded>>

\* variant: the latest PDU goes first
BugEnqueue(t) ==
  /\ pc[t] = "enqueue"
  /\ queue' = <<pdu[t]>> \o queue
  /\ Become(t, "start")
  /\ UNCHANGED <<busy, busyLock, timers, pdu, prepared, air, dropped, gap, overlap, purged, stranded>>

Enqueue(t) ==
  /\ pc[t] = "enqueue"
  /\ queue' = Append(queue, pdu[t])
  /\ Become(t, "start")
  /\ UNCHANGED <<busy, busyLock, timers, pdu, prepared, air, dropped, gap, overlap, purged, stranded>>

Polling == {"poll", "write", "cancel", "arm", "drained"}

\* The flag is set, but whoever set it has found the queue empty and is about to
\* reset it: nobody comes back to the queue.
TooLate ==
  /\ \E u \in Threads : pc[u] = "drained"
  /\ timers = 0 /\ \A u \in Threads : pc[u] \notin Polling \ {"drained"}

\* variant: the flag is not tested
BugStartPolling(t) ==
  /\ pc[t] = "start" /\ busyLock = Nobody
  /\ busy' = TRUE /\ busyLock' = t /\ Become(t, "poll")
  /\ UNCHANGED <<queue, timers, pdu, prepared, air, dropped, gap, overlap, purged, stranded>>

\* second critical section of mNetworkBusyLock; it lasts until the poll is over
StartPolling(t) ==
  /\ pc[t] = "start" /\ busyLock = Nobody
  /\ \/ /\ busy
        /\ stranded' = stranded \cup IF TooLate THEN Elements(queue) ELSE {}
        /\ Become(t, "idle")
        /\ UNCHANGED <<busy, busyLock>>
     \/ /\ ~busy
        /\ busy' = TRUE /\ busyLock' = t
        /\ Become(t, "poll")
        /\ UNCHANGED stranded
  /\ UNCHANGED <<queue, timers, pdu, prepared, air, dropped, gap, overlap, purged>>

-----------------------------------------------------------------------------
(* pollNetworkingQueue *)

\* networkingSendingTask runs
TimerFires(t) ==
  /\ t = Handler /\ pc[t] = "idle" /\ timers > 0
  /\ timers' = timers - 1
  /\ gap' = TRUE
  /\ Become(t, "poll")
  /\ UNCHANGED <<queue, busy, busyLock, pdu, prepared, air, dropped, overlap, purged, stranded>>

\* variant: the payload stays in the queue
BugPoll(t) ==
  /\ pc[t] = "poll"
  /\ IF queue = <<>>
     THEN Become(t, "drained") /\ UNCHANGED pdu
     ELSE pdu' = [pdu EXCEPT ![t] = Head(queue)] /\ Become(t, "write")
  /\ UNCHANGED <<queue, busy, busyLock, timers, prepared, air, dropped, gap, overlap, purged, stranded>>

Poll(t) ==
  /\ pc[t] = "poll"
  /\ IF queue = <<>>
     THEN Become(t, "drained") /\ UNCHANGED <<queue, pdu>>
     ELSE /\ pdu' = [pdu EXCEPT ![t] = Head(queue)]
          /\ queue' = Tail(queue)
          /\ Become(t, "write")
  /\ UNCHANGED <<busy, busyLock, timers, prepared, air, dropped, gap, overlap, purged, stranded>>

\* the payload was null; mNetworkBusyLock is reentrant
Drained(t) ==
  /\ pc[t] = "drained" /\ busyLock \in {Nobody, t}
  /\ busy' = FALSE
  /\ busyLock' = Nobody
  /\ Become(t, "idle")
  /\ UNCHANGED <<queue, timers, pdu, prepared, air, dropped, gap, overlap, purged, stranded>>

\* onCommandPrepared
Write(t) ==
  /\ pc[t] = "write"
  /\ air' = Append(air, pdu[t])
  /\ gap' = FALSE /\ purged' = FALSE
  /\ Become(t, "cancel")
  /\ UNCHANGED <<queue, busy, busyLock, timers, pdu, prepared, dropped, overlap, stranded>>

CancelTimer(t) ==
  /\ pc[t] = "cancel"
  /\ timers' = 0
  /\ Become(t, "arm")
  /\ UNCHANGED <<queue, busy, busyLock, pdu, prepared, air, dropped, gap, overlap, purged, stranded>>

\* variant: the task is not posted again
BugArmTimer(t) ==
  /\ pc[t] = "arm"
  /\ busyLock' = (IF busyLock = t THEN Nobody ELSE busyLock)
  /\ Become(t, "idle")
  /\ UNCHANGED <<queue, busy, timers, pdu, prepared, air, dropped, gap, overlap, purged, stranded>>

\* postDelayed, then the critical section of onNetworkingPduPrepared ends
ArmTimer(t) ==
  /\ pc[t] = "arm"
  /\ timers' = timers + 1
  /\ busyLock' = IF busyLock = t THEN Nobody ELSE busyLock
  /\ Become(t, "idle")
  /\ UNCHANGED <<queue, busy, pdu, prepared, air, dropped, gap, overlap, purged, stranded>>

-----------------------------------------------------------------------------
\* onReliableMessageComplete and clear(): the backlog goes, without
\* mNetworkBusyLock
Complete(t) ==
  /\ pc[t] = "idle"
  /\ timers' = 0
  /\ busy' = FALSE
  /\ queue' = <<>>
  /\ dropped' = dropped \cup Elements(queue)
  /\ overlap' = \E u \in Threads : pc[u] \in Polling
  /\ purged' = TRUE
  /\ UNCHANGED <<busyLock, pc, pdu, prepared, air, gap, stranded>>

\* a thread goes on with what it has begun
Advance(t) ==
  \/ SendDirect(t) \/ Enqueue(t) \/ StartPolling(t)
  \/ Poll(t) \/ Drained(t) \/ Write(t) \/ CancelTimer(t) \/ ArmTimer(t)

Step(t) == Prepare(t) \/ Advance(t) \/ TimerFires(t) \/ Complete(t)

\* nobody else is in the middle of a call
Alone(t) == \A u \in Threads \ {t} : pc[u] = "idle"

Next == \E t \in Threads : Step(t) /\ serial' = (serial /\ Alone(t))

\* Some thread goes on with what it has begun, and the looper dispatches a task that is
\* due.  The monitors are not fair: which thread goes on is left open.
Runs == \E t \in Threads : Advance(t) /\ serial' = (serial /\ Alone(t))
Fires == TimerFires(Handler) /\ serial' = (serial /\ Alone(Handler))
Fairness == WF_vars(Runs) /\ WF_vars(Fires)

\* What fairness is about: the threads never wait for one another in a ring, and an idle
\* looper has nothing else to wait for.
Working == \E t \in Threads : pc[t] # "idle"
GuardsSuffice ==
  /\ Working => ENABLED <<Runs>>_vars
  /\ ~Working /\ timers > 0 => ENABLED <<Fires>>_vars

Spec == Init /\ [][Next]_vars /\ Fairness

-----------------------------------------------------------------------------
(* Properties *)

\* The shape of the state; mNetworkBusyLock is held by the thread that polls
\* under it, and by nobody when all are idle.
TypeOK ==
  /\ queue \in Seq(Pdus) /\ air \in Seq(Pdus) /\ dropped \subseteq Pdus /\ stranded \subseteq Pdus
  /\ busy \in BOOLEAN /\ gap \in BOOLEAN /\ overlap \in BOOLEAN /\ purged \in BOOLEAN
  /\ serial \in BOOLEAN
  /\ busyLock \in Threads \cup {Nobody}
  /\ timers \in Nat /\ prepared \in 0 .. MaxPdus
  /\ pc \in [Threads -> {"idle", "direct", "enqueue", "start"} \cup Polling]
  /\ pdu \in [Threads -> 0 .. MaxPdus]
  /\ busyLock # Nobody => pc[busyLock] \in Polling

\* "network packet sent to un-direct connected node should push to queue, and send
\* periodically" (netPktSendInterval): never two polls write within one interval.  A
\* completion resets the flag and the task without waiting for the interval, so that this
\* is not said of the first write after one (purged), nor, if it came in the middle of a
\* poll, of those that follow until the next completion (overlap): two threads may poll then.
Paced == [][\A t \in Threads : Write(t) /\ ~overlap /\ ~purged => gap]_vars

\* A PDU is not both on the air and dropped, nor twice on the air, nor lost on
\* the way: it is on the air, dropped, in the queue or in a thread's hands.
NotLostNorDuplicated ==
  /\ Cardinality(Elements(air)) = Len(air)
  /\ dropped \cap Elements(air) = {}
  /\ 1 .. prepared =
       Elements(air) \cup dropped \cup Elements(queue) \cup
         {pdu[t] : t \in {u \in Threads : pc[u] \in {"direct", "enqueue", "write"}}}

\* "If there is no payload in the queue, it sets the networkingBusy flag to false"
\* (pollNetworkingQueue), and the next PDU starts the polling again.  However calls, polls
\* and completions interleave, every PDU leaves the controller: it is written or dropped by
\* a completion, unless it was queued between a poll that found the queue empty and the
\* reset of the flag, and so waits for a later, unrelated call.
PduLeaves == \A p \in Pdus : (prepared >= p) ~> (p \in Elements(air) \cup dropped \cup stranded)

\* The payload taken from the queue and not yet written comes first.
InHand == {t \in Threads : pc[t] = "write"}
Backlog == IF InHand = {} THEN queue
           ELSE <<pdu[CHOOSE t \in InHand : TRUE]>> \o queue

Channel == INSTANCE PduChannel WITH Pdus <- Pdus, pending <- Backlog, air <- air

\* As long as the calls of the threads come one after the other, the queue is a PduChannel:
\* each step accepts, passes, transmits or discards.  The order on the air is then the
\* order of the calls: receivers drop a number below one they have seen.  (PduLeaves is
\* its liveness.)
IsChannel == Channel!Init /\ [][Channel!Next \/ ~serial']_(Channel!channel)
=============================================================================
