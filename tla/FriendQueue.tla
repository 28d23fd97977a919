----------------------------- MODULE FriendQueue ----------------------------
(***************************************************************************)
(* The mailbox a friend node keeps for a low power node (mesh_fn.c), and   *)
(* how the low power node empties it (mesh_lpn.c).  The node sleeps, polls *)
(* with a one bit number FSN and listens for one answer: the head of the   *)
(* mailbox.  A poll with a new FSN tells the friend that the answer came,  *)
(* so it drops the head; the same FSN asks for the head again.             *)
(* The mailbox is a ring of slots.  A message that finds it full drops the *)
(* head, and the answer under way is a pointer into the ring, hence the    *)
(* flag cache_overwrite: "fn record the rsp pointer when receive poll, and *)
(* sent this rsp pointer directly when 150ms arrive".                      *)
(* The friendship is up; Friendship has its beginning and its end.  Polls  *)
(* and answers are advertisements of one hop: heard once or lost.          *)
(***************************************************************************)
EXTENDS Integers, FiniteSets

CONSTANTS MailSlots,    \* slots of the mailbox: 1 << FN_CACHE_SIZE_LOG
          RetryMax,     \* FRI_POLL_RETRY_MAX
          NoAnswer,     \* no answer is under way (delay_type is 0)
          NoPoll,       \* no poll is in the air
          MaxMsgs,      \* bound: messages and acks for the node
          MaxUpdates,   \* bound: updates of the friend
          MaxMap        \* bound: segments an ack can list

ASSUME FriendQueueAssumption ==
    /\ MailSlots \in Nat \ {0} /\ RetryMax \in Nat \ {0}
    /\ MaxMsgs \in Nat /\ MaxUpdates \in Nat \ {0} /\ MaxMap \in Nat \ {0}

VARIABLES
    cache,     \* p_cache: the ring of slots and its indexes wptr and rptr
    over,      \* cache_overwrite
    fnFsn,     \* fn_poll.FSN
    rsp,       \* poll_rsp: the slot of the answer under way, or NoAnswer
    nMsg,      \* the last number of the node that writes to the low power node
    nUpd,      \* the last number of the friend
    up,        \* the low power node keeps the friendship
    fsn,       \* mesh_lpn_par.poll.FSN
    retry,     \* poll_retry: 0 when no answer is waited for
    seen,      \* the last number the low power node accepted, per kind of source
    poll,      \* the poll in the air, or NoPoll
    answers,   \* the answers in the air
    got        \* history: numbers of the messages the low power node accepted

fnVars == <<cache, over, fnFsn, rsp>>
lpnVars == <<up, fsn, retry, seen, got>>
airVars == <<poll, answers>>
mailVars == <<fnVars, nMsg, nUpd, lpnVars, airVars>>

Message(n)    == [kind |-> "msg", sno |-> n, map |-> 0]
Ack(n, m)     == [kind |-> "ack", sno |-> n, map |-> m]
UpdateItem(n) == [kind |-> "upd", sno |-> n, map |-> 0]
Item == [kind : {"msg", "ack", "upd"}, sno : 0 .. MaxMsgs + MaxUpdates, map : 0 .. MaxMap]

----------------------------------------------------------------------------
(* The ring *)

Slot(i) == i % MailSlots
Count(c) == c.w - c.r
First(c) == c.ring[Slot(c.r)]
Offset(c, i) == Slot(c.r + i)
Pop(c) == [c EXCEPT !.r = @ + 1]
Free(c) == MailSlots - Count(c)
IsUpdate(c) == First(c).kind = "upd"

\* my_fifo_push_adv, which may overwrite the oldest
Push(c, it) ==
    LET d == IF Free(c) = 0 THEN Pop(c) ELSE c
    IN  [d EXCEPT !.ring[Slot(d.w)] = it, !.w = @ + 1]

\* the numbers of what the mailbox holds for the low power node
HeldItems(c) == {c.ring[Offset(c, i)] : i \in 0 .. Count(c) - 1}
Held(c) == {x.sno : x \in {y \in HeldItems(c) : y.kind # "upd"}}

----------------------------------------------------------------------------
(* What the friend caches *)

OldAcks(c) == {i \in 0 .. Count(c) - 1 : c.ring[Offset(c, i)].kind = "ack"}
FirstOf(S) == CHOOSE i \in S : \A j \in S : i <= j

\* friend_cache_check_replace: the mailbox with the item and whether the head changed
LoneUpdate(c) == Count(c) = 1 /\ IsUpdate(c)
Replaces(c, it) == LoneUpdate(c) \/ (it.kind = "ack" /\ OldAcks(c) # {})

ReplaceAck(c, it) ==
    LET i == FirstOf(OldAcks(c))
        old == c.ring[Offset(c, i)]
    IN  CASE old.map = it.map -> [c |-> c, over |-> FALSE]
          [] old.map # it.map /\ i = 0 -> [c |-> Push(Pop(c), it), over |-> TRUE]
          [] OTHER -> [c |-> [c EXCEPT !.ring[Offset(c, i)].map = it.map], over |-> FALSE]

Replaced(c, it) ==
    IF LoneUpdate(c) THEN [c |-> Push(Pop(c), it), over |-> TRUE] ELSE ReplaceAck(c, it)

\* variant: the head that an overwrite dropped is not told from the one that was sent
BugCached(c, it) ==
    IF Replaces(c, it) THEN Replaced(c, it) ELSE [c |-> Push(c, it), over |-> FALSE]

\* mesh_fri_cmd2cache
Cached(c, it) ==
    IF Replaces(c, it) THEN Replaced(c, it)
    ELSE [c |-> Push(c, it), over |-> Free(c) = 0]

Cache(it) ==
    LET d == Cached(cache, it)
    IN  /\ cache' = d.c
        /\ over' = (over \/ d.over)
        /\ UNCHANGED <<fnFsn, rsp>>

----------------------------------------------------------------------------
(* get_cache_buf_for_poll *)

\* variant: what an overwrite left at the head is dropped as if it had been sent
BugAfterNew == IF Count(cache) > 0 THEN Pop(cache) ELSE cache

\* a new FSN: drop the head that was sent
AfterNew == IF Count(cache) > 0 /\ ~over THEN Pop(cache) ELSE cache

\* the same FSN, or an answer chosen before an overwrite: an update gives way to a message
AfterAgain(c) == IF Count(c) > 1 /\ IsUpdate(c) THEN Pop(c) ELSE c

----------------------------------------------------------------------------
(* The friend *)

MailTypeOK ==
    /\ cache \in [ring : [0 .. MailSlots - 1 -> Item], w : Nat, r : Nat]
    /\ Count(cache) \in 0 .. MailSlots
    /\ over \in BOOLEAN /\ fnFsn \in {0, 1} /\ rsp \in 0 .. MailSlots - 1 \cup {NoAnswer}
    /\ nMsg \in 0 .. MaxMsgs /\ nUpd \in 0 .. MaxUpdates
    /\ up \in BOOLEAN /\ fsn \in {0, 1} /\ retry \in 0 .. 2 * RetryMax
    /\ seen \in [{"peer", "friend"} -> 0 .. MaxMsgs + MaxUpdates]
    /\ poll \in [fsn : {0, 1}, again : BOOLEAN] \cup {NoPoll}
    /\ answers \subseteq Item /\ got \subseteq 1 .. MaxMsgs

\* after CMD_CTL_REQUEST: "init to be different with the first poll FSN"
MailInit ==
    /\ cache = [ring |-> [i \in 0 .. MailSlots - 1 |-> UpdateItem(0)], w |-> 0, r |-> 0]
    /\ over = FALSE /\ fnFsn = 1 /\ rsp = NoAnswer
    /\ nMsg = 0 /\ nUpd = 0
    /\ up = TRUE /\ fsn = 0 /\ retry = 0
    /\ seen = [s \in {"peer", "friend"} |-> 0]
    /\ poll = NoPoll /\ answers = {} /\ got = {}


\* is_in_mesh_friend_st_fn: the first poll made the friendship and cached an update
LinkOk == nUpd > 0

\* a message or an ack of the segments of a long message arrives; such acks only grow
CacheMessage ==
    /\ LinkOk /\ nMsg < MaxMsgs
    /\ nMsg' = nMsg + 1
    /\ \/ Cache(Message(nMsg + 1))
       \/ \E m \in 1 .. MaxMap :
            /\ \A x \in HeldItems(cache) : x.map <= m
            /\ Cache(Ack(nMsg + 1, m))
    /\ UNCHANGED <<nUpd, lpnVars, airVars>>

\* mesh_iv_update_start_poll_fn: the IV index changes
CacheUpdate ==
    /\ LinkOk /\ nUpd < MaxUpdates
    /\ nUpd' = nUpd + 1
    /\ Cache(UpdateItem(nUpd + 1))
    /\ UNCHANGED <<nMsg, lpnVars, airVars>>

\* mesh_lpn_rcv_delay_wakeup: the receiver is off from a poll until RecDelay later, so of
\* the answers that were in the air with the poll none is heard
Heard == {}

\* CMD_CTL_POLL
TakePoll ==
    /\ poll # NoPoll
    /\ LET c == IF poll.fsn = fnFsn THEN AfterAgain(cache) ELSE AfterNew
           d == IF Count(c) = 0 THEN Push(c, UpdateItem(nUpd + 1)) ELSE c
       IN  /\ Count(c) = 0 => nUpd < MaxUpdates
           /\ nUpd' = nUpd + (IF Count(c) = 0 THEN 1 ELSE 0)
           /\ cache' = d
           /\ rsp' = Slot(d.r)
    /\ fnFsn' = poll.fsn
    /\ over' = FALSE
    /\ poll' = NoPoll /\ answers' = Heard
    /\ UNCHANGED <<nMsg, lpnVars>>

\* mesh_friend_response_delay_proc_fn, RecDelay after the poll
Answer ==
    /\ rsp # NoAnswer
    /\ LET c == IF over THEN AfterAgain(cache) ELSE cache
       IN  /\ cache' = c
           /\ answers' = answers \cup {c.ring[IF over THEN Slot(c.r) ELSE rsp]}
    /\ over' = FALSE
    /\ rsp' = NoAnswer
    /\ UNCHANGED <<fnFsn, nMsg, nUpd, lpnVars, poll>>

----------------------------------------------------------------------------
(* The low power node *)

\* mesh_friend_ship_start_poll: two rounds of polls
SendPoll ==
    /\ up /\ retry = 0 /\ poll = NoPoll
    /\ poll' = [fsn |-> fsn, again |-> FALSE]
    /\ retry' = 2 * RetryMax
    /\ UNCHANGED <<fnVars, nMsg, nUpd, up, fsn, seen, answers, got>>

\* variant: the second round starts the count again
BugPollAgain ==
    /\ up /\ retry > 1 /\ poll = NoPoll
    /\ retry' = IF retry - 1 = RetryMax THEN 2 * RetryMax ELSE retry - 1
    /\ fsn' = IF retry - 1 = RetryMax THEN 1 - fsn ELSE fsn
    /\ poll' = [fsn |-> fsn', again |-> retry' <= RetryMax]
    /\ UNCHANGED <<fnVars, nMsg, nUpd, up, seen, answers, got>>

\* no answer in time: poll again, "change FSN to retry the 2nd round"
PollAgain ==
    /\ up /\ retry > 1 /\ poll = NoPoll
    /\ retry' = retry - 1
    /\ fsn' = IF retry' = RetryMax THEN 1 - fsn ELSE fsn
    /\ poll' = [fsn |-> fsn', again |-> retry' <= RetryMax]
    /\ UNCHANGED <<fnVars, nMsg, nUpd, up, seen, answers, got>>

\* the last poll of the second round had no answer: look for a friend again
GiveUp ==
    /\ up /\ retry = 1 /\ poll = NoPoll
    /\ up' = FALSE /\ retry' = 0
    /\ UNCHANGED <<fnVars, nMsg, nUpd, fsn, seen, airVars, got>>

\* an answer is heard; one with an old number "will be ignored because sno is the old"
RxAnswer(x) ==
    LET src == IF x.kind = "upd" THEN "friend" ELSE "peer"
        accepted == x.sno > seen[src]
    IN  /\ up /\ retry > 0 /\ poll = NoPoll /\ x \in answers
        /\ answers' = answers \ {x}
        /\ fsn' = IF accepted THEN 1 - fsn ELSE fsn
        /\ retry' = IF accepted THEN 0 ELSE retry
        /\ seen' = IF accepted THEN [seen EXCEPT ![src] = x.sno] ELSE seen
        /\ got' = IF accepted /\ src = "peer" THEN got \cup {x.sno} ELSE got
        /\ UNCHANGED <<fnVars, nMsg, nUpd, up, poll>>

LosePoll ==
    /\ poll # NoPoll
    /\ poll' = NoPoll /\ answers' = Heard
    /\ UNCHANGED <<fnVars, nMsg, nUpd, lpnVars>>

LoseAnswer(x) ==
    /\ x \in answers
    /\ answers' = answers \ {x}
    /\ UNCHANGED <<fnVars, nMsg, nUpd, lpnVars, poll>>

MailNext ==
    \/ CacheMessage \/ CacheUpdate \/ TakePoll \/ Answer
    \/ SendPoll \/ PollAgain \/ GiveUp
    \/ \E x \in answers : RxAnswer(x) \/ LoseAnswer(x)
    \/ LosePoll

MailSpec == MailInit /\ [][MailNext]_mailVars

\* the loops of the two nodes run, and a poll in the air is heard or lost
MailFairSpec ==
    /\ MailSpec
    /\ WF_mailVars(Answer) /\ WF_mailVars(LosePoll)
    /\ WF_mailVars(SendPoll) /\ WF_mailVars(PollAgain) /\ WF_mailVars(GiveUp)

\* The actions of the low power node are possible, as actions that change something, as soon
\* as their conditions hold: what a proof takes of ENABLED.
MailGuardsSuffice ==
    /\ poll # NoPoll => ENABLED <<LosePoll>>_mailVars
    /\ up /\ retry = 0 /\ poll = NoPoll => ENABLED <<SendPoll>>_mailVars
    /\ up /\ retry > 1 /\ poll = NoPoll => ENABLED <<PollAgain>>_mailVars
    /\ up /\ retry = 1 /\ poll = NoPoll => ENABLED <<GiveUp>>_mailVars

----------------------------------------------------------------------------

\* While the polls of a first round go on, the friend drops from its mailbox only what the
\* low power node accepted: a lost answer, a late one or a mailbox that overflows between
\* a poll and its answer never make it drop the wrong item.  (A poll of the second round
\* may, which is how a head the low power node refuses leaves the mailbox; so may an item
\* cached in a full mailbox.)
DropsOnlyWhatWasAccepted ==
    [][ <<poll, rsp>>' # <<poll, rsp>> =>
            Held(cache) \ Held(cache') \subseteq got \/ (poll # NoPoll /\ poll.again) ]_mailVars

\* Whatever the mailbox holds behind the head it sent will be accepted: the low power node
\* never has a newer number, which an answer out of the order of the mailbox would give it
\* and which would make it refuse the older items until the second round drops them.
HeldIsAcceptable ==
    \A i \in 0 .. Count(cache) - 1 :
        LET x == cache.ring[Offset(cache, i)]
        IN  x.kind # "upd" /\ (i > 0 \/ over) => x.sno > seen["peer"]

\* An item cannot stay in the mailbox of a friendship that goes on: the low power node
\* polls it out, or its retries end and it leaves the friend.
EveryItemLeaves ==
    \A n \in 1 .. MaxMsgs : n \in Held(cache) ~> (~up \/ n \notin Held(cache))

=============================================================================
