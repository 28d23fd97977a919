----------------------------- MODULE SegmentedRx ----------------------------
(***************************************************************************)
(* Incoming segmented access messages of NetworkingController.  There is   *)
(* one reassembly buffer for all sources.  The message in it is known by   *)
(* <lastSegSrc, lastSeqAuth>; lastSegComplete tells whether it may be      *)
(* replaced.  A message that comes while another is being received is      *)
(* refused with a block ack that shows no segment; one that was completed  *)
(* before is acknowledged again and not delivered.                         *)
(*                                                                         *)
(* Segments arrive on the GATT callback thread, the block ack and the      *)
(* reassembly timeout are tasks of the handler thread, and none of them    *)
(* takes a lock: a handler is cut at every access to what it shares with   *)
(* the other.  To remove and post a task is one step, and so is a call on  *)
(* the buffer.  clear() is one step of any thread, at any time.  A task    *)
(* that the looper has dequeued runs even if it is removed before its      *)
(* first instruction.                                                      *)
(***************************************************************************)
EXTENDS Naturals, FiniteSets

CONSTANTS
  Gatt,           \* the thread that hands in the segments
  Handler,        \* the one that runs the posted tasks
  Sources,        \* addresses of the other nodes
  SeqAuths,       \* SeqAuth values of their messages
  SegN,           \* index of the last segment, for each message
  Undecryptable,  \* messages for which the controller has no key
  MaxPdus         \* bound: number of segments received

Messages == Sources \X SeqAuths

ASSUME SegmentedRxAssumption ==
  /\ Gatt # Handler
  /\ Sources \subseteq Nat \ {0} /\ SeqAuths \subseteq Nat \ {0}
  /\ SegN \in [Messages -> Nat] /\ Undecryptable \subseteq Messages
  /\ MaxPdus \in Nat

VARIABLES
  lastSeqAuth, lastSegSrc, lastSegComplete,
  completed,      \* completedSeqAuthBuffer
  busy,           \* busySeqAuthBuffer
  buffer,         \* receivedSegmentedMessageBuffer: segO to message
  timers,         \* tasks posted to mDelayHandler
  ackSrc,         \* mAccessSegCheckTask.src
  pc,             \* where each thread is
  segment,        \* locals of Gatt: message and segO it handles, lastSegSrc it read
  src,            \* local of Handler: the source it read for a block ack
  current,        \* the message each source has come to
  pdus,           \* counts up to MaxPdus
  received,       \* history: segments that arrived
  delivered,      \* history: messages that were passed on
  interrupted,    \* history: messages hit by clear(), or by the timeout within a segment
  unnamed,        \* history: the buffer is a new message's, and ackSrc not yet its source
  overtaken,      \* history: src was read before the message in the buffer gave its own
  ack             \* the segment acknowledgment message sent in the latest step, or NoAck

last == <<lastSeqAuth, lastSegSrc, lastSegComplete>>
history == <<received, delivered, interrupted, unnamed, overtaken>>
vars == <<last, completed, busy, buffer, timers, ackSrc, pc, segment, src, current, pdus, history, ack>>

Threads == {Gatt, Handler}
Tasks == {"mAccessSegCheckTask", "segmentTimeoutTask"}
Segments(m) == 0 .. SegN[m]
Idle(t) == pc[t] = "idle"
Become(t, label) == pc' = [pc EXCEPT ![t] = label]
NoAck == [dst |-> 0, block |-> {}]
NoSegment == [msg |-> <<0, 0>>, segO |-> 0, src |-> 0]

\* the values of an absent key are 0
Init ==
  /\ lastSeqAuth = 0 /\ lastSegSrc = 0 /\ lastSegComplete = TRUE
  /\ completed = [s \in Sources \cup {0} |-> 0]
  /\ busy = [s \in Sources |-> 0]
  /\ buffer = <<>> /\ timers = {} /\ ackSrc = 0
  /\ pc = [t \in Threads |-> "idle"]
  /\ segment = NoSegment /\ src = 0
  /\ current = [s \in Sources |-> 0] /\ pdus = 0
  /\ received = [m \in Messages |-> {}]
  /\ delivered = {}
  /\ interrupted = {} /\ unnamed = FALSE /\ overtaken = FALSE /\ ack = NoAck

-----------------------------------------------------------------------------
(* Helpers of parseSegmentedAccessMessage *)

\* variant: only the source is compared
BugBusySource(m) == busy[m[1]] # 0

IsBusyAuthExists(m) == busy[m[1]] = m[2]
IsCompleteAuthExists(m) == completed[m[1]] = m[2]

Silent == ack' = NoAck

\* sendSegmentAckMessage for the segments of m in block
SendAck(dst, m, block, late) == ack' = [dst |-> dst, msg |-> m, block |-> block, overtaken |-> late]

\* sendSegmentBlockBusyAck
RefuseBusy(m) ==
  /\ busy' = [busy EXCEPT ![m[1]] = m[2]]
  /\ SendAck(m[1], m, {}, FALSE)

\* variant: the task keeps its source
BugCheckSegmentBlock(immediate, from) ==
  /\ timers' = IF immediate THEN (timers \ {"segmentTimeoutTask"}) \cup {"mAccessSegCheckTask"}
                            ELSE Tasks
  /\ ackSrc' = IF ackSrc = 0 THEN from ELSE ackSrc
  /\ unnamed' = FALSE

\* checkSegmentBlock
CheckSegmentBlock(immediate, from) ==
  /\ timers' = IF immediate THEN (timers \ {"segmentTimeoutTask"}) \cup {"mAccessSegCheckTask"}
                            ELSE Tasks
  /\ ackSrc' = from
  /\ unnamed' = FALSE

\* the timeout falls into the handling of a segment of m
Cross(m) == interrupted' = interrupted \cup ({m, <<lastSegSrc, lastSeqAuth>>} \cap Messages)

-----------------------------------------------------------------------------
(* parseSegmentedAccessMessage *)

IsNew(m) == m # <<lastSegSrc, lastSeqAuth>>

TakesOver(m) == IsNew(m) => lastSegComplete

\* where the timeout has set lastSegComplete and not yet forgotten the message
Forgetting == {"forgetSrc", "forgetAuth"}

\* Up to the decision.  A source sends one segmented message at a time, in the order of
\* their SeqAuth; a delayed PDU of an earlier one is dropped by validateSequenceNumber.
\* The timeout writes lastSegComplete, lastSegSrc and lastSeqAuth in this order, and the
\* code reads them in the other: whatever it finds was so at once.
ParseSegmentedAccessMessage(m, segO) ==
  /\ Idle(Gatt) /\ pdus < MaxPdus /\ m[2] >= current[m[1]]
  /\ pdus' = pdus + 1
  /\ current' = [current EXCEPT ![m[1]] = m[2]]
  /\ received' = [received EXCEPT ![m] = @ \cup {segO}]
  /\ \/ /\ IsBusyAuthExists(m)
        /\ RefuseBusy(m)
        /\ UNCHANGED <<pc, segment, interrupted>>
     \/ /\ ~IsBusyAuthExists(m) /\ IsCompleteAuthExists(m)
        /\ SendAck(m[1], m, Segments(m), FALSE)
        /\ UNCHANGED <<busy, pc, segment, interrupted>>
     \/ /\ ~IsBusyAuthExists(m) /\ ~IsCompleteAuthExists(m)
        /\ ~TakesOver(m)
        /\ RefuseBusy(m)
        /\ UNCHANGED <<pc, segment, interrupted>>
     \/ /\ ~IsBusyAuthExists(m) /\ ~IsCompleteAuthExists(m)
        /\ TakesOver(m)
        /\ segment' = [msg |-> m, segO |-> segO, src |-> 0]
        /\ Become(Gatt, IF IsNew(m) THEN "readSrc" ELSE "put")
        /\ IF pc[Handler] \in Forgetting THEN Cross(m) ELSE UNCHANGED interrupted
        /\ UNCHANGED busy /\ Silent
  /\ UNCHANGED <<last, completed, buffer, timers, ackSrc, src, delivered, unnamed, overtaken>>

\* the arguments of saveCompletedSeqAuth
ReadLastSegSrc ==
  /\ pc[Gatt] = "readSrc"
  /\ segment' = [segment EXCEPT !.src = lastSegSrc]
  /\ Become(Gatt, "save")
  /\ UNCHANGED <<last, completed, busy, buffer, timers, ackSrc, src, current, pdus, history>> /\ Silent

SaveCompletedSeqAuth ==
  /\ pc[Gatt] = "save"
  /\ completed' = [completed EXCEPT ![segment.src] = lastSeqAuth]
  /\ Become(Gatt, "open")
  /\ UNCHANGED <<last, busy, buffer, timers, ackSrc, segment, src, current, pdus, history>> /\ Silent

Open ==
  /\ pc[Gatt] = "open"
  /\ lastSegComplete' = FALSE
  /\ Become(Gatt, "setAuth")
  /\ UNCHANGED <<lastSeqAuth, lastSegSrc, completed, busy, buffer, timers, ackSrc, segment, src,
                 current, pdus, history>> /\ Silent

SetAuth ==
  /\ pc[Gatt] = "setAuth"
  /\ lastSeqAuth' = segment.msg[2]
  /\ Become(Gatt, "setSrc")
  /\ UNCHANGED <<lastSegSrc, lastSegComplete, completed, busy, buffer, timers, ackSrc, segment, src,
                 current, pdus, history>> /\ Silent

SetSrc ==
  /\ pc[Gatt] = "setSrc"
  /\ lastSegSrc' = segment.msg[1]
  /\ Become(Gatt, "empty")
  /\ UNCHANGED <<lastSeqAuth, lastSegComplete, completed, busy, buffer, timers, ackSrc, segment, src,
                 current, pdus, history>> /\ Silent

\* variant: the segments of the message before stay
BugEmpty ==
  /\ pc[Gatt] = "empty"
  /\ unnamed' = TRUE /\ overtaken' = (pc[Handler] = "clone")
  /\ Become(Gatt, "put")
  /\ UNCHANGED <<last, completed, busy, buffer, timers, ackSrc, segment, src, current, pdus,
                 received, delivered, interrupted>> /\ Silent

Empty ==
  /\ pc[Gatt] = "empty"
  /\ buffer' = <<>>
  /\ unnamed' = TRUE /\ overtaken' = (pc[Handler] = "clone")
  /\ Become(Gatt, "put")
  /\ UNCHANGED <<last, completed, busy, timers, ackSrc, segment, src, current, pdus,
                 received, delivered, interrupted>> /\ Silent

Put ==
  /\ pc[Gatt] = "put"
  /\ buffer' = [o \in DOMAIN buffer \cup {segment.segO} |->
                  IF o = segment.segO THEN segment.msg ELSE buffer[o]]
  /\ Become(Gatt, "size")
  /\ UNCHANGED <<last, completed, busy, timers, ackSrc, segment, src, current, pdus, history>> /\ Silent

Size ==
  /\ pc[Gatt] = "size"
  /\ Become(Gatt, IF Cardinality(DOMAIN buffer) = SegN[segment.msg] + 1 THEN "close" ELSE "keepAuth")
  /\ UNCHANGED <<last, completed, busy, buffer, timers, ackSrc, segment, src, current, pdus, history>> /\ Silent

\* segments are missing
KeepAuth ==
  /\ pc[Gatt] = "keepAuth"
  /\ lastSeqAuth' = segment.msg[2]
  /\ Become(Gatt, "check")
  /\ UNCHANGED <<lastSegSrc, lastSegComplete, completed, busy, buffer, timers, ackSrc, segment, src,
                 current, pdus, history>> /\ Silent

Check ==
  /\ pc[Gatt] = "check"
  /\ CheckSegmentBlock(FALSE, segment.msg[1])
  /\ segment' = NoSegment
  /\ Become(Gatt, "idle")
  /\ UNCHANGED <<last, completed, busy, buffer, src, current, pdus,
                 received, delivered, interrupted, overtaken>> /\ Silent

\* all have arrived
Close ==
  /\ pc[Gatt] = "close"
  /\ lastSegComplete' = TRUE
  /\ Become(Gatt, "checkNow")
  /\ UNCHANGED <<lastSeqAuth, lastSegSrc, completed, busy, buffer, timers, ackSrc, segment, src,
                 current, pdus, history>> /\ Silent

CheckNow ==
  /\ pc[Gatt] = "checkNow"
  /\ CheckSegmentBlock(TRUE, segment.msg[1])
  /\ Become(Gatt, "deliver")
  /\ UNCHANGED <<last, completed, busy, buffer, segment, src, current, pdus,
                 received, delivered, interrupted, overtaken>> /\ Silent

\* the message is decrypted, if it is still in the buffer, and passed to onAccessPduReceived
Deliver ==
  LET m == segment.msg
  IN /\ pc[Gatt] = "deliver"
     /\ \/ /\ IsCompleteAuthExists(m)
           /\ lastSeqAuth' = 0
           /\ UNCHANGED delivered
        \/ /\ ~IsCompleteAuthExists(m)
           /\ delivered' = IF m \notin Undecryptable /\ DOMAIN buffer = Segments(m)
                           THEN delivered \cup {m} ELSE delivered
           /\ UNCHANGED lastSeqAuth
     /\ segment' = NoSegment
     /\ Become(Gatt, "idle")
     /\ UNCHANGED <<lastSegSrc, lastSegComplete, completed, busy, buffer, timers, ackSrc, src,
                    current, pdus, received, interrupted, unnamed, overtaken>> /\ Silent

Parse ==
  \/ ReadLastSegSrc \/ SaveCompletedSeqAuth \/ Open \/ SetAuth \/ SetSrc \/ Empty
  \/ Put \/ Size \/ KeepAuth \/ Check \/ Close \/ CheckNow \/ Deliver

-----------------------------------------------------------------------------
(* Tasks *)

\* the looper takes a task out of its queue
Dequeue(task) ==
  /\ Idle(Handler) /\ task \in timers
  /\ timers' = timers \ {task}
  /\ Become(Handler, task)
  /\ UNCHANGED <<last, completed, busy, buffer, ackSrc, segment, src, current, pdus, history>> /\ Silent

\* SegmentAckMessageSentTask
ReadSrc ==
  /\ pc[Handler] = "mAccessSegCheckTask"
  /\ src' = ackSrc
  /\ overtaken' = unnamed
  /\ Become(Handler, "clone")
  /\ UNCHANGED <<last, completed, busy, buffer, timers, ackSrc, segment, current, pdus,
                 received, delivered, interrupted, unnamed>> /\ Silent

\* the message whose SeqZero the block ack carries
Buffer0 == buffer[CHOOSE o \in DOMAIN buffer : \A p \in DOMAIN buffer : o <= p]

\* sendSegmentBlockAck
SendSegmentBlockAck ==
  /\ pc[Handler] = "clone"
  /\ IF DOMAIN buffer = {}
     THEN Become(Handler, "idle") /\ Silent
     ELSE /\ SendAck(src, Buffer0, DOMAIN buffer, overtaken)
          /\ Become(Handler,
                    IF Cardinality(DOMAIN buffer) = SegN[Buffer0] + 1 THEN "idle" ELSE "post")
  /\ src' = 0 /\ overtaken' = FALSE
  /\ UNCHANGED <<last, completed, busy, buffer, timers, ackSrc, segment, current, pdus,
                 received, delivered, interrupted, unnamed>>

PostAgain ==
  /\ pc[Handler] = "post"
  /\ timers' = timers \cup {"mAccessSegCheckTask"}
  /\ Become(Handler, "idle")
  /\ UNCHANGED <<last, completed, busy, buffer, ackSrc, segment, src, current, pdus, history>> /\ Silent

\* segmentTimeoutTask: the message is given up
SegmentTimeout ==
  /\ pc[Handler] = "segmentTimeoutTask"
  /\ timers' = timers \ {"mAccessSegCheckTask"}
  /\ Become(Handler, "giveUp")
  /\ UNCHANGED <<last, completed, busy, buffer, ackSrc, segment, src, current, pdus, history>> /\ Silent

\* variant: only the timers are stopped
BugGiveUp ==
  /\ pc[Handler] = "giveUp"
  /\ Become(Handler, "idle")
  /\ UNCHANGED <<last, completed, busy, buffer, timers, ackSrc, segment, src, current, pdus, history>> /\ Silent

GiveUp ==
  /\ pc[Handler] = "giveUp"
  /\ lastSegComplete' = TRUE
  /\ IF Idle(Gatt) THEN UNCHANGED interrupted ELSE Cross(segment.msg)
  /\ Become(Handler, "forgetSrc")
  /\ UNCHANGED <<lastSeqAuth, lastSegSrc, completed, busy, buffer, timers, ackSrc, segment, src,
                 current, pdus, received, delivered, unnamed, overtaken>> /\ Silent

\* variant: the message is not forgotten
BugForgetSrc ==
  /\ pc[Handler] = "forgetSrc"
  /\ Become(Handler, "idle")
  /\ UNCHANGED <<last, completed, busy, buffer, timers, ackSrc, segment, src, current, pdus, history>> /\ Silent

ForgetSrc ==
  /\ pc[Handler] = "forgetSrc"
  /\ lastSegSrc' = 0
  /\ Become(Handler, "forgetAuth")
  /\ UNCHANGED <<lastSeqAuth, lastSegComplete, completed, busy, buffer, timers, ackSrc, segment, src,
                 current, pdus, history>> /\ Silent

ForgetAuth ==
  /\ pc[Handler] = "forgetAuth"
  /\ lastSeqAuth' = 0
  /\ Become(Handler, "idle")
  /\ UNCHANGED <<lastSegSrc, lastSegComplete, completed, busy, buffer, timers, ackSrc, segment, src,
                 current, pdus, history>> /\ Silent

Task ==
  \/ ReadSrc \/ SendSegmentBlockAck \/ PostAgain
  \/ SegmentTimeout \/ GiveUp \/ ForgetSrc \/ ForgetAuth

-----------------------------------------------------------------------------
InBuffer == {buffer[o] : o \in DOMAIN buffer}

\* clear(): lastSeqAuth and lastSegSrc stay
Clear ==
  /\ timers' = {} /\ buffer' = <<>> /\ lastSegComplete' = TRUE
  /\ interrupted' = interrupted \cup InBuffer \cup (IF Idle(Gatt) THEN {} ELSE {segment.msg})
  /\ UNCHANGED <<lastSeqAuth, lastSegSrc, completed, busy, ackSrc, pc, segment, src, current, pdus,
                 received, delivered, unnamed, overtaken>> /\ Silent

Next ==
  \/ \E m \in Messages : \E segO \in Segments(m) : ParseSegmentedAccessMessage(m, segO)
  \/ Parse \/ Task \/ Clear
  \/ \E task \in Tasks : Dequeue(task)

\* Threads run, and the looper serves its queue in the order of the due times.  The
\* segments are finitely many, so the timeout is not restarted for ever.
Fairness == WF_vars(Parse) /\ WF_vars(Task) /\ SF_vars(Dequeue("segmentTimeoutTask"))

\* What fairness is about: a thread that has begun needs nothing to go on.
GuardsSuffice ==
  /\ ~Idle(Gatt) => ENABLED <<Parse>>_vars
  /\ ~Idle(Handler) => ENABLED <<Task>>_vars
  /\ Idle(Handler) /\ "segmentTimeoutTask" \in timers
       => ENABLED <<Dequeue("segmentTimeoutTask")>>_vars

Spec == Init /\ [][Next]_vars /\ Fairness

-----------------------------------------------------------------------------
(* Properties *)

ParseLabels == {"readSrc", "save", "open", "setAuth", "setSrc", "empty", "put", "size",
                "keepAuth", "check", "close", "checkNow", "deliver"}
TaskLabels == Tasks \cup {"clone", "post", "giveUp"} \cup Forgetting

\* The shape of the state.
TypeOK ==
  /\ lastSeqAuth \in SeqAuths \cup {0} /\ lastSegSrc \in Sources \cup {0}
  /\ lastSegComplete \in BOOLEAN
  /\ completed \in [Sources \cup {0} -> SeqAuths \cup {0}]
  /\ busy \in [Sources -> SeqAuths \cup {0}]
  /\ InBuffer \subseteq Messages
  /\ timers \subseteq Tasks /\ ackSrc \in Sources \cup {0} /\ src \in Sources \cup {0}
  /\ pc \in [Threads -> {"idle"} \cup ParseLabels \cup TaskLabels]
  /\ pc[Gatt] \in {"idle"} \cup ParseLabels /\ pc[Handler] \in {"idle"} \cup TaskLabels
  /\ \/ Idle(Gatt) /\ segment = NoSegment
     \/ /\ ~Idle(Gatt) /\ segment \in [msg : Messages, segO : Nat, src : Sources \cup {0}]
        /\ segment.segO \in Segments(segment.msg)
  /\ current \in [Sources -> SeqAuths \cup {0}] /\ pdus \in 0 .. MaxPdus
  /\ received \in [Messages -> SUBSET Nat]
  /\ \A m \in Messages : received[m] \subseteq Segments(m)
  /\ delivered \subseteq Messages
  /\ interrupted \subseteq Messages
  /\ unnamed \in BOOLEAN /\ overtaken \in BOOLEAN

\* The buffer never mixes two messages, and when the next segment comes it is, unless
\* the timeout has forgotten it, the one lastSegSrc and lastSeqAuth name: else the
\* assembly would be garbage, or the name of one message would be recorded as complete
\* for another.
OneMessageInBuffer ==
  /\ \A m, n \in InBuffer : m = n
  /\ Idle(Gatt) /\ lastSegSrc # 0 /\ lastSeqAuth # 0
       => \A m \in InBuffer : m = <<lastSegSrc, lastSeqAuth>>

\* A block ack goes to the source of the message it names and shows only segments that
\* arrived: the source does not send again what is shown.  The task reads the source
\* before the buffer, and the GATT thread fills the buffer before it sets the source; if a
\* new message comes between (overtaken) its ack goes to the source of the one before.
\* clear(), and a timeout in the middle of a segment, leave an unfinished message named
\* as the last complete one (interrupted).
AckTruthful ==
  ack # NoAck => /\ ack.dst = ack.msg[1] \/ ack.overtaken
                 /\ ack.block \subseteq received[ack.msg] \/ ack.msg \in interrupted

\* A source whose message is acknowledged as a whole stops sending it: the message
\* is passed on, if there is a key for it.  As the code words it, seqAuth is
\* put in completedSeqAuthBuffer to "save the completed sequence authentication".
CompleteAckMeansDelivered ==
  ack # NoAck /\ ack.block = Segments(ack.msg)
    => ack.msg \in delivered \/ ack.msg \in Undecryptable \/ (pc[Gatt] \in {"size", "close", "checkNow", "deliver"} /\ segment.msg = ack.msg)

\* The same, for messages that clear() and the timeout did not hit.
CompleteAckUnlessCleared == CompleteAckMeansDelivered \/ ack.msg \in interrupted

\* "checks if a specific authentication sequence exists in the busy authentication
\* buffer" (isBusyAuthExists): a message is refused only while another one is being
\* received or was when the first segment was refused.
RefusedOnlyIfBusy ==
  [][\A m \in Messages :
       ack' # NoAck /\ ack'.msg = m /\ ack'.block = {}
         => ~lastSegComplete \/ (busy[m[1]] = m[2] /\ Cardinality(received[m]) > 0)]_vars

\* The buffer becomes available again: other sources are not refused for ever, and
\* reliableMessageTimeoutTask does not wait for ever.
ReceptionEnds == ~lastSegComplete ~> lastSegComplete
=============================================================================
