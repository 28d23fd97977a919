--------------------------- MODULE ReliableMessage --------------------------
(***************************************************************************)
(* Outgoing access messages of NetworkingController: one slot for a        *)
(* reliable message (a response is expected, the message is posted again   *)
(* when it does not come) and one slot for a segmented message to a        *)
(* unicast address (segments are repeated until a block ack shows them all *)
(* received).  A message can occupy both slots, and two messages can occupy*)
(* one each.                                                               *)
(*                                                                         *)
(* Messages are posted by the application, answers and block acks arrive   *)
(* on the GATT callback thread, the three timers fire on the handler       *)
(* thread.  Posts and tasks hold the lock of the slots in parts of their   *)
(* way only.  So they begin in one step and act in another, and what any   *)
(* thread does to the slots in between sets raced: the properties are      *)
(* about executions without that, and README.md says what happens in the   *)
(* others.  An answer, a block ack and clear() are one step each.          *)
(***************************************************************************)
EXTENDS Naturals, Sequences, FiniteSets

CONSTANTS
  Threads,        \* threads that call into the controller
  Handler,        \* the one that runs the posted tasks
  Nodes,          \* unicast addresses of the other nodes
  Kinds,          \* what the application sends, records as below
  RetryCnt,       \* MeshMessage.retryCnt
  MaxMsgs,        \* bound: number of messages sent
  MaxReceptions   \* bound: number of segmented messages received meanwhile

ASSUME ReliableMessageAssumption ==
  /\ Handler \in Threads
  /\ Kinds \subseteq [reliable : BOOLEAN, segmented : BOOLEAN,
                      dst : SUBSET Nodes, rspMax : Nat]
  /\ RetryCnt \in Nat /\ MaxMsgs \in Nat /\ MaxReceptions \in Nat

VARIABLES
  kind,           \* kinds of the messages sent so far
  retry,          \* their retryCnt
  relBusy,        \* reliableBusy
  sending,        \* mSendingReliableMessage, 0 for null
  responses,      \* mResponseMessageBuffer
  segBusy,        \* segmentedBusy
  sent,           \* the post whose segments sentSegmentedMessageBuffer holds, or 0
  timers,         \* tasks posted to mDelayHandler
  receiving,      \* ~lastSegComplete
  pc, msg,        \* where each thread is, and the message it posts
  status,         \* history: what sendMeshMessage returned
  reports,        \* history: onReliableMessageComplete callbacks
  heard,          \* history: nodes whose response came while the message waited
  posts,          \* history: segmented posts and what was reported of them
  acked,          \* history: posts whose segments were all acknowledged
  raced,          \* history: the slots have changed during another's post or task
  receptions      \* counts up to MaxReceptions

slots == <<relBusy, sending, responses, segBusy, sent>>
history == <<status, reports, heard, posts, acked>>
vars == <<kind, retry, slots, timers, receiving, pc, msg, history, raced, receptions>>

Msgs == 1 .. MaxMsgs
Tasks == {"reliableMessageTimeoutTask", "segmentedMessageTimeoutTask",
          "mSegmentBlockWaitingTask"}
SegmentTasks == Tasks \ {"reliableMessageTimeoutTask"}
Unicast(k) == Cardinality(k.dst) = 1
Idle(t) == pc[t] = "idle"
Become(t, label) == pc' = [pc EXCEPT ![t] = label]

Init ==
  /\ kind = <<>> /\ retry = [m \in Msgs |-> RetryCnt]
  /\ relBusy = FALSE /\ sending = 0 /\ responses = {}
  /\ segBusy = FALSE /\ sent = 0
  /\ timers = {} /\ receiving = FALSE
  /\ pc = [t \in Threads |-> "idle"] /\ msg = [t \in Threads |-> 0]
  /\ status = [m \in Msgs |-> "new"] /\ reports = [m \in Msgs |-> <<>>]
  /\ heard = [m \in Msgs |-> {}] /\ posts = <<>> /\ acked = {}
  /\ raced = FALSE /\ receptions = 0

-----------------------------------------------------------------------------
(* What the threads do to each other *)

\* A post or a task is under way: it has seen the slots, or was posted for what they held.
\* The first post of a message has seen nothing before its first test.
Exposed(t) ==
  /\ ~Idle(t)
  /\ pc[t] = "check" => status[msg[t]] # "new"

\* The slots change, or the message that is being posted again is cleared.
Disturbed(t) ==
  \/ slots' # slots
  \/ pc[t] \in {"check", "post"} /\ status'[msg[t]] # status[msg[t]]

\* what a step of t does to the others
Watch(t) == raced' = (raced \/ \E u \in Threads \ {t} : Exposed(u) /\ Disturbed(u))

-----------------------------------------------------------------------------
(* postMeshMessage *)

\* sendMeshMessage of a message with a valid destination and a key
Send(t) ==
  /\ Idle(t) /\ Len(kind) < MaxMsgs
  /\ \E k \in Kinds : kind' = Append(kind, k)
  /\ msg' = [msg EXCEPT ![t] = Len(kind) + 1]
  /\ Become(t, "check")
  /\ UNCHANGED <<retry, slots, timers, receiving, history, receptions>>
  /\ Watch(t)

\* return false to sendMeshMessage; the retry of a message ignores it
Refuse(t) ==
  /\ status' = [status EXCEPT ![msg[t]] = IF @ = "new" THEN "refused" ELSE @]
  /\ Become(t, "idle")

CheckSegmentedBusy(t) ==
  /\ pc[t] = "check"
  /\ IF kind[msg[t]].segmented /\ segBusy
     THEN Refuse(t)
     ELSE Become(t, "post") /\ UNCHANGED status
  /\ UNCHANGED <<kind, retry, slots, timers, receiving, msg, reports, heard,
                 posts, acked, receptions>>

\* the slots are taken, the timers armed and the PDUs passed to the queue
PostMeshMessage(t) ==
  /\ pc[t] = "post"
  /\ LET m == msg[t]
         k == kind[m]
     IN IF k.reliable /\ relBusy
        THEN Refuse(t) /\ UNCHANGED <<relBusy, sending, segBusy, sent, timers, posts>>
        ELSE
          /\ relBusy' = (relBusy \/ k.reliable)
          /\ sending' = IF k.reliable THEN m ELSE sending
          /\ IF k.segmented /\ Unicast(k)
             THEN /\ segBusy' = TRUE
                  /\ posts' = Append(posts, [msg |-> m, result |-> "none"])
                  /\ sent' = Len(posts) + 1
                  /\ timers' = timers \cup SegmentTasks
             ELSE /\ timers' = IF k.reliable
                               THEN timers \cup {"reliableMessageTimeoutTask"}
                               ELSE timers
                  /\ UNCHANGED <<segBusy, sent, posts>>
          /\ status' = [status EXCEPT ![m] = IF @ = "new" THEN "accepted" ELSE @]
          /\ Become(t, "idle")
  /\ UNCHANGED <<kind, retry, responses, receiving, msg, reports, heard, acked, receptions>>

-----------------------------------------------------------------------------
(* Completion of a segmented and of a reliable message *)

\* variant: the flag stays set
BugClearSegmentSendingState(result) ==
  /\ sent' = 0
  /\ posts' = IF sent = 0 THEN posts ELSE [posts EXCEPT ![sent].result = result]
  /\ UNCHANGED segBusy

\* clearSegmentSendingState
ClearSegmentSendingState(result) ==
  /\ segBusy' = FALSE
  /\ sent' = 0
  /\ posts' = IF sent = 0 THEN posts ELSE [posts EXCEPT ![sent].result = result]

KeepSegments == UNCHANGED <<segBusy, sent, posts>>

\* variant: the flag stays set
BugKeepBusy(success, m) ==
  /\ responses' = {}
  /\ reports' = [reports EXCEPT ![m] = Append(@, success)]
  /\ UNCHANGED relBusy

\* the part of onReliableMessageComplete that concerns the reliable slot; the
\* PDUs of the backlog are discarded as in NetworkingQueue
ClearReliable(success, m) ==
  /\ relBusy' = FALSE
  /\ responses' = {}
  /\ reports' = [reports EXCEPT ![m] = Append(@, success)]

KeepReliable == UNCHANGED <<relBusy, responses, reports>>

\* variant: the reliable timer is not started when the segments are through
BugOnSegmentedMessageComplete(success) ==
  /\ ClearSegmentSendingState(IF success THEN "success" ELSE "failure")
  /\ timers' = timers \ SegmentTasks
  /\ IF relBusy /\ ~success THEN ClearReliable(FALSE, sending) ELSE KeepReliable

\* stopSegmentedBlockAckWaiting(true, success)
OnSegmentedMessageComplete(success) ==
  /\ ClearSegmentSendingState(IF success THEN "success" ELSE "failure")
  /\ CASE ~relBusy ->
            KeepReliable /\ timers' = timers \ SegmentTasks
       [] relBusy /\ success ->
            /\ KeepReliable
            /\ timers' = (timers \ SegmentTasks) \cup {"reliableMessageTimeoutTask"}
       [] OTHER ->
            ClearReliable(FALSE, sending) /\ timers' = {}

OnReliableMessageComplete(success) ==
  /\ ClearReliable(success, sending)
  /\ IF success /\ segBusy /\ kind[sending].segmented
     THEN ClearSegmentSendingState("success") /\ timers' = {}
     ELSE KeepSegments /\ timers' = timers \ {"reliableMessageTimeoutTask"}

-----------------------------------------------------------------------------
(* What arrives from the network *)

\* onSegmentAckMessageReceived for the segments of post p, and
\* resendSegmentedMessages
OnSegmentAckMessageReceived(t, p, all) ==
  /\ Idle(t)
  /\ acked' = IF all THEN acked \cup {p} ELSE acked
  /\ IF segBusy /\ sent = p /\ all
     THEN OnSegmentedMessageComplete(TRUE)
     ELSE KeepSegments /\ KeepReliable
          /\ timers' = IF segBusy /\ sent = p
                       THEN timers \cup {"mSegmentBlockWaitingTask"} ELSE timers
  /\ UNCHANGED <<kind, retry, sending, receiving, pc, msg, status, heard, receptions>>
  /\ Watch(t)

\* updateReliableMessage for an access message from n with the opcode expected
UpdateReliableMessage(t, n) ==
  /\ Idle(t) /\ relBusy
  /\ LET k == kind[sending]
     IN /\ Unicast(k) => n \in k.dst
        /\ heard' = [heard EXCEPT ![sending] = @ \cup {n}]
        /\ IF Cardinality(responses \cup {n}) >= k.rspMax
           THEN OnReliableMessageComplete(TRUE)
           ELSE /\ responses' = responses \cup {n}
                /\ UNCHANGED <<relBusy, reports, timers>> /\ KeepSegments
  /\ UNCHANGED <<kind, retry, sending, receiving, pc, msg, status, acked, receptions>>
  /\ Watch(t)

\* the first, and later the last, segment of a message from another node: see
\* SegmentedRx
BeginReception(t) ==
  /\ Idle(t) /\ ~receiving /\ receptions < MaxReceptions
  /\ receiving' = TRUE /\ receptions' = receptions + 1
  /\ UNCHANGED <<kind, retry, slots, timers, pc, msg, history>>
  /\ Watch(t)

EndReception(t) ==
  /\ Idle(t) /\ receiving
  /\ receiving' = FALSE
  /\ UNCHANGED <<kind, retry, slots, timers, pc, msg, history, receptions>>
  /\ Watch(t)

-----------------------------------------------------------------------------
(* Timers *)

\* the looper takes a task out of its queue
Dequeue(t, task) ==
  /\ t = Handler /\ Idle(t) /\ task \in timers
  /\ timers' = timers \ {task}
  /\ Become(t, task)
  /\ UNCHANGED <<kind, retry, slots, receiving, msg, history, receptions>>
  /\ Watch(t)

\* the retry is posted after reliableBusy is reset
Retry(t) ==
  /\ retry[sending] > 0
  /\ retry' = [retry EXCEPT ![sending] = @ - 1]
  /\ relBusy' = FALSE
  /\ IF segBusy /\ kind[sending].segmented
     THEN /\ ClearSegmentSendingState("failure")
          /\ timers' = timers \ SegmentTasks
     ELSE KeepSegments /\ UNCHANGED timers
  /\ msg' = [msg EXCEPT ![t] = sending]
  /\ Become(t, "check")
  /\ UNCHANGED <<responses, reports>>

\* variant: one retry too few
BugGiveUp(t) ==
  /\ retry[sending] <= 1
  /\ OnReliableMessageComplete(FALSE)
  /\ Become(t, "idle")
  /\ UNCHANGED <<retry, msg>>

GiveUp(t) ==
  /\ retry[sending] = 0
  /\ OnReliableMessageComplete(FALSE)
  /\ Become(t, "idle")
  /\ UNCHANGED <<retry, msg>>

\* the answer may be in the segments being received
WaitForReception(t) ==
  /\ timers' = timers \cup {"reliableMessageTimeoutTask"}
  /\ Become(t, "idle")
  /\ KeepReliable /\ KeepSegments
  /\ UNCHANGED <<retry, msg>>

ReliableMessageTimeout(t) ==
  /\ pc[t] = "reliableMessageTimeoutTask"
  /\ IF receiving THEN WaitForReception(t) ELSE Retry(t) \/ GiveUp(t)
  /\ UNCHANGED <<kind, sending, receiving, status, heard, acked, receptions>>

SegmentedMessageTimeout(t) ==
  /\ pc[t] = "segmentedMessageTimeoutTask"
  /\ OnSegmentedMessageComplete(FALSE)
  /\ Become(t, "idle")
  /\ UNCHANGED <<kind, retry, sending, receiving, msg, status, heard, acked, receptions>>

\* no block ack came: all segments are sent again
SegmentBlockWaiting(t) ==
  /\ pc[t] = "mSegmentBlockWaitingTask"
  /\ timers' = IF sent # 0 THEN timers \cup {"mSegmentBlockWaitingTask"} ELSE timers
  /\ Become(t, "idle")
  /\ UNCHANGED <<kind, retry, slots, receiving, msg, history, receptions>>

-----------------------------------------------------------------------------
\* clear(): the mode of the controller changes or the connection is given up
Clear(t) ==
  /\ Idle(t)
  /\ timers' = {}
  /\ segBusy' = FALSE /\ sent' = 0
  /\ relBusy' = FALSE /\ responses' = {}
  /\ receiving' = FALSE
  /\ status' = [m \in Msgs |-> IF status[m] = "accepted" /\ reports[m] = <<>>
                               THEN "cleared" ELSE status[m]]
  /\ UNCHANGED <<kind, retry, sending, pc, msg, reports, heard, posts, acked, receptions>>
  /\ Watch(t)

\* a thread goes on with what it has begun
Advance(t) ==
  /\ \/ CheckSegmentedBusy(t) \/ PostMeshMessage(t)
     \/ ReliableMessageTimeout(t) \/ SegmentedMessageTimeout(t) \/ SegmentBlockWaiting(t)
  /\ Watch(t)

Next ==
  \E t \in Threads :
    \/ Send(t) \/ Advance(t) \/ BeginReception(t) \/ EndReception(t) \/ Clear(t)
    \/ \E p \in DOMAIN posts, all \in BOOLEAN : OnSegmentAckMessageReceived(t, p, all)
    \/ \E n \in Nodes : UpdateReliableMessage(t, n)
    \/ \E task \in Tasks : Dequeue(t, task)

\* The handler thread runs.  Its looper serves the queue in the order of the due times, so
\* a task is not overtaken for ever by one that is posted again and again.  A reception
\* ends, by its last segment or its timeout: SegmentedRx!ReceptionEnds.
Fairness ==
  /\ WF_vars(Advance(Handler))
  /\ SF_vars(Dequeue(Handler, "reliableMessageTimeoutTask"))
  /\ SF_vars(Dequeue(Handler, "segmentedMessageTimeoutTask"))
  /\ SF_vars(\E t \in Threads : EndReception(t))

\* What fairness is about: the guards of these actions are all they need.
GuardsSuffice ==
  /\ ~Idle(Handler) => ENABLED <<Advance(Handler)>>_vars
  /\ Idle(Handler) /\ receiving => ENABLED <<\E t \in Threads : EndReception(t)>>_vars
  /\ Idle(Handler) /\ "reliableMessageTimeoutTask" \in timers
       => ENABLED <<Dequeue(Handler, "reliableMessageTimeoutTask")>>_vars
  /\ Idle(Handler) /\ "segmentedMessageTimeoutTask" \in timers
       => ENABLED <<Dequeue(Handler, "segmentedMessageTimeoutTask")>>_vars

Spec == Init /\ [][Next]_vars /\ Fairness

-----------------------------------------------------------------------------
(* Properties *)

\* the shape of the messages, the slots and the threads
Typed ==
  /\ kind \in Seq(Kinds) /\ Len(kind) <= MaxMsgs
  /\ retry \in [Msgs -> 0 .. RetryCnt]
  /\ relBusy \in BOOLEAN /\ segBusy \in BOOLEAN /\ receiving \in BOOLEAN
  /\ sending \in 0 .. Len(kind) /\ responses \subseteq Nodes
  /\ sent \in {0, Len(posts)} /\ timers \subseteq Tasks
  /\ pc \in [Threads -> {"idle", "check", "post"} \cup Tasks]
  /\ msg \in [Threads -> 0 .. Len(kind)]
  /\ status \in [Msgs -> {"new", "refused", "accepted", "cleared"}]
  /\ reports \in [Msgs -> Seq(BOOLEAN)] /\ heard \in [Msgs -> SUBSET Nodes]
  /\ posts \in Seq([msg : Msgs, result : {"none", "success", "failure"}])
  /\ acked \subseteq DOMAIN posts /\ receptions \in 0 .. MaxReceptions

\* The shape of the state, and the buffer holds segments of the latest post.
TypeOK == Typed /\ raced \in BOOLEAN

Quiet == \A t \in Threads : Idle(t)
Waiting(m) == status[m] = "accepted" /\ kind[m].reliable /\ reports[m] = <<>>

\* "if true, message will be cached and checked completion by message response or
\* retryCnt == 0" (MeshMessage.isReliable): between two handlers, the message that
\* was accepted and not yet reported is the one in the slot, and some timer will
\* come back to it, the reliable one or the ones of the segments it waits for.
AcceptedIsTracked ==
  Quiet /\ ~raced =>
           /\ \A m \in 1 .. Len(kind) : Waiting(m) => relBusy /\ sending = m
           /\ relBusy => \/ "reliableMessageTimeoutTask" \in timers
                         \/ segBusy /\ SegmentTasks \subseteq timers
           /\ segBusy => SegmentTasks \subseteq timers /\ sent # 0

\* "reliable command complete" (onReliableMessageComplete): the application, which
\* sends its next message on it, is not told twice of the same message.
ReportedOnce == ~raced => \A m \in Msgs : Len(reports[m]) <= 1

\* Nothing is reported of a message that sendMeshMessage refused or that clear()
\* has given up: the mode it was sent in is over.
NoLateReport ==
  \A m \in Msgs : reports[m] # <<>> => status[m] = "accepted" /\ kind[m].reliable

\* "success if command response received": enough nodes have answered while the
\* message waited, none of them counted for an earlier message.
SuccessMeansAnswered ==
  \A m \in 1 .. Len(kind) :
    TRUE \in {reports[m][i] : i \in DOMAIN reports[m]}
      => Cardinality(heard[m]) >= kind[m].rspMax

\* "true: received completed block, false: timeout" (onSegmentedMessageComplete): a
\* segmented message that waits for a response is reported as sent only when a block
\* ack has shown all its segments, or the node has answered that very message.  A
\* segmented message that waits for none can be ended by the answer to another.
SegmentSuccessMeansReceived ==
  \A p \in DOMAIN posts :
    posts[p].result = "success" /\ kind[posts[p].msg].reliable
      => p \in acked \/ heard[posts[p].msg] # {}

\* "checked completion by message response or retryCnt == 0" (isReliable) and "if
\* segment timeout, no need to resend reliable message": a message fails after its
\* last retry, or because segments did not get through: its own, or those of a
\* message that waits for no response and was sent meanwhile.
FailureMeansGaveUp ==
  \A m \in 1 .. Len(kind) :
    FALSE \in {reports[m][i] : i \in DOMAIN reports[m]}
      => \/ retry[m] = 0
         \/ \E p \in DOMAIN posts :
              /\ posts[p].result = "failure"
              /\ posts[p].msg = m \/ ~kind[posts[p].msg].reliable

\* What the application is told of a message is true (onReliableMessageComplete and
\* onSegmentedMessageComplete), whatever was retried, cleared or answered late.
ReportsAreTrue ==
  ~raced => NoLateReport /\ SuccessMeansAnswered /\ SegmentSuccessMeansReceived /\ FailureMeansGaveUp

\* A message that was accepted is reported in the end, or cleared.
ReliableEnds == \A m \in Msgs : (m <= Len(kind) /\ Waiting(m)) ~> (~Waiting(m) \/ raced)

\* The segmented slot is free again in the end: no post blocks the next for ever.
SegmentedEnds == segBusy ~> (~segBusy \/ raced)

\* Neither slot of the controller stays taken: no message waits for ever, and none keeps
\* the next from being sent.
EveryMessageEnds == ReliableEnds /\ SegmentedEnds
=============================================================================
