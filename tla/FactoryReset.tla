---------------------------- MODULE FactoryReset ----------------------------
(***************************************************************************)
(* Factory reset by power cycles (factory_reset.c): a lamp has no button,  *)
(* so it counts in flash the sessions that ended between two limits of its *)
(* table factory_reset_serials.  When all of them did, the next start      *)
(* erases the node's data.  A message does so too (kick_out), without the  *)
(* count that would resume it.                                             *)
(* The count is odd from the start of a session to its first limit, even   *)
(* to the second one, then cleared; each new value goes to the next byte of*)
(* a sector.  Flash is NOR: writing only clears bits, so writing over a    *)
(* cleared byte leaves it 0.  The power may go between two writes.         *)
(***************************************************************************)
EXTENDS Integers, Sequences, Functions

CONSTANTS Serials,    \* factory_reset_serials: first and second limit of each session
          NBytes,     \* bytes of the sector
          CleanFrom,  \* 3840: from this byte on the sector is erased before a write
          Data,       \* sectors with the node's data, in the order they are erased
          MaxTime     \* bound: the longest session told from a longer one

Trigger == Len(Serials)  \* RESET_TRIGGER_VAL
Sessions == Trigger \div 2

ASSUME FactoryResetAssumption ==
    /\ Serials \in Seq(0 .. MaxTime - 1) /\ MaxTime \in Nat
    /\ Trigger % 2 = 0 /\ Trigger \in 1 .. 99
    /\ \A i \in 1 .. Sessions : Serials[2 * i - 1] <= Serials[2 * i]
    /\ NBytes \in Nat /\ CleanFrom \in 1 .. NBytes - 2
    /\ Data \in Seq(Range(Data)) /\ Data # <<>>

VARIABLES
    bytes,   \* the sector FLASH_ADR_RESET_CNT
    idx,     \* adr_reset_cnt_idx
    st,      \* clear_st: 4 (before 50 ms) to 0
    ops,     \* what the call under way still has to do to the flash
    limit,   \* reset_check_time, or Unread
    time,    \* seconds since the start
    full,    \* the sectors of Data that are not erased
    kicked,  \* history: the data is, or is being, erased by kick_out
    past     \* history: how the last sessions ended, oldest first

vars == <<bytes, idx, st, ops, limit, time, full, kicked, past>>

Sectors == Range(Data)
Keys == Data[1]           \* FLASH_ADR_MESH_KEY: without it the node is not provisioned

FF == 255
Unread == -1
Count == bytes[idx]   \* get_reset_cnt

Write(v) == [op |-> "write", value |-> v]
NextByte == [op |-> "next", value |-> 0]
EraseData(s) == [op |-> "data", value |-> s]
EraseCount == [op |-> "count", value |-> 0]
Reboot == [op |-> "reboot", value |-> 0]

\* variant: the count goes first
BugFactoryResetOps == <<EraseCount>> \o [i \in DOMAIN Data |-> EraseData(Data[i])] \o <<Reboot>>

\* factory_reset: the count "at last should be better, when power off during factory
\* reset erase"
FactoryResetOps == [i \in DOMAIN Data |-> EraseData(Data[i])] \o <<EraseCount, Reboot>>

\* variant: the present byte is not cleared
BugIncreaseOps(c) == IF c \in {0, FF} THEN <<Write(1)>> ELSE <<NextByte, Write(c + 1)>>

\* increase_reset_cnt, from a count c read at the present byte
IncreaseOps(c) ==
    IF c = FF THEN <<Write(1)>>
    ELSE IF c # 0 THEN <<Write(0), NextByte, Write(c + 1)>>
    ELSE <<Write(1)>>

\* reset_cnt_get_idx: the first byte that is not 0
FirstByte == CHOOSE i \in 0 .. NBytes - 1 :
                /\ bytes[i] # 0
                /\ \A j \in 0 .. i - 1 : bytes[j] = 0

\* variant: a session cut before its first limit is counted
BugIsInvalid(c) == c # FF /\ c > Trigger

\* a session that ended before its first limit, or no count of this table
IsInvalid(c) == c # FF /\ (c > Trigger \/ c % 2 = 1)

-----------------------------------------------------------------------------
Init ==
    /\ bytes = [i \in 0 .. NBytes - 1 |-> FF]
    /\ idx = 0
    /\ st = 4
    /\ ops = <<>>
    /\ limit = 0
    /\ time = 0
    /\ full = Sectors
    /\ kicked = FALSE
    /\ past = <<>>

\* factory_reset_handle, 50 ms after the start
Handle ==
    /\ st = 4 /\ ops = <<>>
    /\ idx' = FirstByte
    /\ LET c == bytes[FirstByte]
       IN  IF c = Trigger THEN st' = 4 /\ ops' = FactoryResetOps
           ELSE /\ st' = 3
                /\ ops' = IF IsInvalid(c) THEN <<Write(0)>> \o IncreaseOps(0) ELSE IncreaseOps(c)
    /\ UNCHANGED <<bytes, limit, time, full, kicked, past>>

\* reset_check_time = factory_reset_serials[get_reset_cnt() - 1]: with a count of 0 this
\* is the byte before the table, whatever it is.
ReadLimit ==
    /\ st = 3 \/ (st = 1 /\ limit = Unread)
    /\ ops = <<>>
    /\ st' = IF st = 3 THEN 2 ELSE 1
    /\ limit' \in IF Count = 0 THEN 0 .. MaxTime ELSE {Serials[Count]}
    /\ UNCHANGED <<bytes, idx, ops, time, full, kicked, past>>

FirstLimit ==
    /\ st = 2 /\ ops = <<>> /\ time >= limit
    /\ st' = 1
    /\ ops' = IncreaseOps(Count)
    /\ limit' = Unread
    /\ UNCHANGED <<bytes, idx, time, full, kicked, past>>

SecondLimit ==
    /\ st = 1 /\ limit # Unread /\ ops = <<>> /\ time >= limit
    /\ st' = 0
    /\ ops' = <<Write(0)>>
    /\ UNCHANGED <<bytes, idx, limit, time, full, kicked, past>>

\* reset_cnt_clean, called by write_reset_cnt: the sector and the index
Cleaned == IF idx < CleanFrom THEN <<bytes, idx>> ELSE <<[i \in DOMAIN bytes |-> FF], 0>>

\* One flash operation of the call under way.
FlashOp ==
    /\ ops # <<>>
    /\ ops' = Tail(ops)
    /\ \/ /\ Head(ops).op = "write"
          /\ idx' = Cleaned[2]
          /\ bytes' = [Cleaned[1] EXCEPT ![Cleaned[2]] = IF @ = FF THEN Head(ops).value ELSE 0]
          /\ UNCHANGED <<st, limit, time, full, kicked, past>>
       \/ /\ Head(ops).op = "next"
          /\ idx' = idx + 1
          /\ UNCHANGED <<bytes, st, limit, time, full, kicked, past>>
       \/ /\ Head(ops).op = "data"
          /\ full' = full \ {Head(ops).value}
          /\ UNCHANGED <<bytes, idx, st, limit, time, kicked, past>>
       \/ /\ Head(ops).op = "count"
          /\ bytes' = [i \in DOMAIN bytes |-> FF]
          /\ past' = <<>>
          /\ UNCHANGED <<idx, st, limit, time, full, kicked>>
       \/ /\ Head(ops).op = "reboot"
          /\ st' = 4 /\ time' = 0 /\ limit' = 0 /\ idx' = 0 /\ kicked' = FALSE
          /\ UNCHANGED <<bytes, full, past>>

\* The main loop has nothing to do.
Settled == st \in {0, 1, 2} /\ ops = <<>> /\ (st # 0 => limit # Unread /\ time < limit)

\* The main loop is faster than the clock.
Tick ==
    /\ Settled
    /\ time < MaxTime
    /\ time' = time + 1
    /\ UNCHANGED <<bytes, idx, st, ops, limit, full, kicked, past>>

\* The session has not touched the count: less than 50 ms, or cut before it clears the
\* count it found.
NoTrace == st = 4 \/ (st = 3 /\ ops # <<>> /\ Head(ops) = Write(0))

\* The power goes and comes back.
PowerCycle ==
    /\ past' = IF NoTrace THEN past
               ELSE SubSeq(Append(past, [time |-> time, done |-> Settled /\ st = 0, torn |-> ~Settled]),
                           IF Len(past) <= Sessions THEN 1 ELSE 2,
                           Len(past) + 1)
    /\ st' = 4 /\ ops' = <<>> /\ time' = 0 /\ limit' = 0 /\ idx' = 0
    /\ kicked' = (kicked /\ full # Sectors)
    /\ UNCHANGED <<bytes, full>>

\* kick_out: of a Node Reset (proc_node_reset) or a provisioning that was not completed
KickOut ==
    /\ Keys \in full /\ st # 4 /\ ops = <<>>
    /\ ops' = FactoryResetOps
    /\ kicked' = TRUE
    /\ UNCHANGED <<bytes, idx, st, limit, time, full, past>>

\* The node is provisioned and stores its parameters.
Configure ==
    /\ Keys \notin full /\ st # 4 /\ ops = <<>>
    /\ full' = Sectors
    /\ kicked' = FALSE
    /\ UNCHANGED <<bytes, idx, st, ops, limit, time, past>>

Running == Handle \/ ReadLimit \/ FirstLimit \/ SecondLimit \/ FlashOp \/ Tick

Next == Running \/ PowerCycle \/ KickOut \/ Configure

\* What fairness is about: a start has its handler, and a call under way its next operation.
GuardsSuffice == st = 4 \/ ops # <<>> => ENABLED <<Running>>_vars

Spec == Init /\ [][Next]_vars

\* Someone leaves the power on long enough.
FairSpec == Spec /\ WF_vars(Running) /\ <>[][~PowerCycle]_vars

-----------------------------------------------------------------------------
\* Each variable has its type.
TypeOK ==
    /\ bytes \in [0 .. NBytes - 1 -> (0 .. Trigger) \union {FF}]
    /\ idx \in 0 .. NBytes - 1
    /\ st \in 0 .. 4
    /\ limit \in {Unread} \union 0 .. MaxTime
    /\ time \in 0 .. MaxTime
    /\ full \subseteq Sectors
    /\ kicked \in BOOLEAN
    /\ Len(past) <= Sessions + 1

\* The last sessions ended each between its limits (at a limit, if the power went
\* while it was being recorded).
InRange(e, i) == e.time >= Serials[2 * i - 1] /\ (e.time < Serials[2 * i] \/ (e.torn /\ e.time = Serials[2 * i]))
Sequence ==
    /\ Len(past) >= Sessions
    /\ \A i \in 1 .. Sessions : InRange(past[Len(past) - Sessions + i], i)

\* An erasure has begun.
Resetting == ops # <<>> /\ ops[Len(ops)] = Reboot

\* Without a message to do so, the data is erased only after the whole sequence of
\* sessions, whatever power cycles came before, early, late or in the middle of a write.
ResetOnlyBySequence == (Resetting /\ ~kicked /\ full = Sectors) => Sequence

\* The sequence, done without a cut in the middle of a write after a session that
\* lasted until the count was cleared, resets the node at the next start.
SequenceResets ==
    (/\ st = 3
     /\ Len(past) = Sessions + 1 /\ past[1].done
     /\ \A i \in 2 .. Sessions + 1 : ~past[i].torn) => ~Sequence

\* The count of the sequence is there, and the next start erases.
Resumes == \E i \in DOMAIN bytes : bytes[i] = Trigger /\ \A j \in 0 .. i - 1 : bytes[j] = 0

\* A node whose data is partly erased does not work with the rest of it: its start
\* goes on with the erasure, unless it was a message that began it.
PartialMeansResetting == full \notin {{}, Sectors} /\ ~kicked => Resumes

\* ... without the restriction: the count is erased "at last should be better, when power
\* off during factory reset erase", but kick_out erases with any count.
PartialMeansResettingAlways == full \notin {{}, Sectors} => Resetting \/ Resumes

\* An erasure that the sequence began is completed, through power losses.
ResetCompletes == (Resetting /\ ~kicked) ~> full = {}
=============================================================================
