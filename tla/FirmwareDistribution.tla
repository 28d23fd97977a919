------------------------ MODULE FirmwareDistribution ------------------------
(***************************************************************************)
(* A gateway distributes a firmware image to the nodes of a list           *)
(* (fw_distribut_srv_proc and mesh_ota_master_proc in mesh_ota.c, push     *)
(* mode).  It goes through the list once per state: each node gets a       *)
(* reliable command, and the next node follows on its answer or, with the  *)
(* node marked to be skipped, when the retries are used up.  Chunks go     *)
(* unacknowledged to the group of all nodes; what a node says it misses is *)
(* sent again.  The nodes are FirmwareUpdater.                             *)
(* A command is handled where it is sent or lost; the answers of a node    *)
(* may be lost or come late, in their order (a PDU with a lower sequence   *)
(* number is refused).                                                     *)
(***************************************************************************)
EXTENDS FirmwareUpdater

CONSTANTS Nodes,       \* the list of receivers
          Connected,   \* the one with the GATT connection: the last to be applied, or none
          RetryMax,    \* g_reliable_retry_cnt_def
          MaxLoss,     \* bound: lost chunks
          MaxBack,     \* bound: answers of a node under way
          MaxStarts,   \* bound: distributions
          MaxFaults    \* bound: faults

ASSUME DistributionAssumption ==
    /\ Nodes \in Seq({Nodes[i] : i \in DOMAIN Nodes}) /\ Len(Nodes) > 0
    /\ \A i, j \in 1 .. Len(Nodes) : Nodes[i] = Nodes[j] => i = j   \* fw_distribut_receivers_add
    /\ {RetryMax, MaxLoss, MaxBack, MaxStarts, MaxFaults} \subseteq Nat /\ MaxBack > 0

Cnt == Len(Nodes)   \* node_cnt
Node == {Nodes[i] : i \in 1 .. Cnt}
All == "all"        \* the group

VARIABLES
    st,       \* st_distr
    at,       \* node_num, from 1
    wait,     \* st_wait_flag
    block,    \* block_start.block_num
    missing,  \* miss_mask: chunks still to send, or that some node misses
    list,     \* per receiver: skip, started, noMissing, phase, applied
    cmd,      \* mesh_tx_reliable
    back,     \* per node: its answers under way, oldest first
    node,     \* per node: FirmwareUpdater
    lost,     \* chunks lost
    starts,   \* distributions started
    faults,   \* times that a command or its answer was lost, that a command was repeated
              \* with its answer still under way, that a node restarted or that the
              \* application cancelled
    updated,  \* history: nodes that started with the new firmware of this distribution
    plain     \* history: nodes that went through this distribution from an idle state,
              \* without a restart and without that an answer to another command counted

vars == <<st, at, wait, block, missing, list, cmd, back, node, lost, starts, faults,
          updated, plain>>
history == <<updated, plain>>

\* The states that send a command to each receiver, in order; those that only ask it
\* something before the update starts (metadata, subscription, information) are "query".
Rounds == {"query", "updateStart", "transferGet", "transferStart", "blockStart", "blockGet",
           "updateGet", "apply"}
States == Rounds \union {"idle", "checkResult", "chunkStart", "cancel"}

NoCmd == [op |-> "none", to |-> {}, of |-> <<0, "idle", 0>>, left |-> 0, retry |-> 0, acked |-> TRUE]
Receiver0 == [skip |-> FALSE, started |-> FALSE, noMissing |-> FALSE, phase |-> "idle", applied |-> FALSE]

\* Which command it is that an answer belongs to.
Current == <<starts, st, block>>

\* get_op_rsp: the status message that answers a command
KindOf(op) == CASE op = "query" -> "query"
                [] op \in {"updateStart", "updateGet", "apply", "cancel"} -> "fw"
                [] op \in {"transferGet", "transferStart"} -> "transfer"
                [] op \in {"blockStart", "blockGet"} -> "block"
                [] OTHER -> "none"

\* More than one segment, so that segment acknowledgments are waited for.
Segmented(op) == op \in {"updateStart", "transferStart"}

\* A node in state r handles a command about block b, and answers.
Handled(op, r, b) ==
    CASE op = "updateStart" -> UpdateStart(r)
      [] op = "transferStart" -> TransferStart(r)
      [] op = "blockStart" -> BlockStart(r, b)
      [] op = "blockGet" -> BlockGet(r)
      [] op = "updateGet" -> UpdateGet(r)
      [] op = "apply" -> UpdateApply(r)
      [] op = "cancel" -> UpdateCancel(r)
      [] OTHER -> r

AnswerTo(op, r, b) ==
    CASE op = "updateStart" -> UpdateStartAnswer(r)
      [] op = "transferGet" -> TransferStatus(TRUE)
      [] op = "transferStart" -> TransferStartAnswer(r)
      [] op = "blockStart" -> BlockStartAnswer(r, b)
      [] op = "blockGet" -> BlockGetAnswer(r)
      [] op = "updateGet" -> FwStatus(UpdateGet(r), TRUE)
      [] op = "apply" -> UpdateApplyAnswer(r)
      [] op = "cancel" -> FwStatus(UpdateCancel(r), TRUE)
      [] OTHER -> Answer("query", TRUE, "idle", {})

Init ==
    /\ st = "idle" /\ at = 1 /\ wait = FALSE /\ block = 0 /\ missing = {}
    /\ list = [i \in 1 .. Cnt |-> Receiver0]
    /\ cmd = NoCmd
    /\ back = [n \in Node |-> <<>>]
    /\ node = [n \in Node |-> Nodes0]
    /\ lost = 0 /\ starts = 0 /\ faults = 0
    /\ updated = {} /\ plain = {}

-----------------------------------------------------------------------------
\* mesh_tx_cmd2_access: "reached" get the command, the answers of "heard" will arrive, and
\* of a segmented command acked says whether a segment acknowledgment does.
Transmit(c, late) ==
    \E reached \in SUBSET c.to, acked \in BOOLEAN :
        \E heard \in SUBSET reached :
            /\ \A n \in heard : Len(back[n]) < MaxBack
            /\ IF Segmented(c.op) THEN acked => reached # {} ELSE acked
            /\ node' = [n \in Node |-> IF n \in reached THEN Handled(c.op, node[n], c.of[3]) ELSE node[n]]
            /\ back' = [n \in Node |->
                          IF n \in heard
                          THEN Append(back[n], [of |-> c.of, answer |-> AnswerTo(c.op, node[n], c.of[3])])
                          ELSE back[n]]
            /\ cmd' = [c EXCEPT !.acked = acked]
            /\ faults' = faults + late + IF heard # c.to \/ ~acked THEN 1 ELSE 0
            /\ faults' <= MaxFaults

\* mesh_tx_cmd_reliable and mesh_tx_reliable_start
Reliable(op, to, abrupt) ==
    Transmit([op |-> op, to |-> to, of |-> Current, left |-> Cardinality(to), retry |-> RetryMax, acked |-> TRUE],
             abrupt)

\* mesh_ota_master_proc goes on when nothing is under way.
Ready == st # "idle" /\ ~wait /\ cmd = NoCmd

\* mesh_ota_check_skip_current_node, and a receiver known to miss nothing of the block
Passed(r) == r.skip \/ (st = "blockGet" /\ r.noMissing)

InRound == Ready /\ st \in Rounds \ {"apply"} /\ ~(st = "blockStart" /\ block = NumBlocks)

PassReceiver ==
    /\ InRound /\ at <= Cnt /\ Passed(list[at])
    /\ at' = at + 1
    /\ UNCHANGED <<st, wait, block, missing, list, cmd, back, node, lost, starts, faults, history>>

SendToReceiver ==
    /\ InRound /\ at <= Cnt /\ ~Passed(list[at])
    /\ Reliable(st, {Nodes[at]}, 0)
    /\ wait' = TRUE
    /\ UNCHANGED <<st, at, block, missing, list, lost, starts, history>>

AllSkipped == \A i \in 1 .. Cnt : list[i].skip

\* mesh_ota_master_next_block
NextBlock ==
    /\ st' = "blockStart" /\ block' = block + 1 /\ at' = 1 /\ missing' = {}
    /\ list' = [i \in 1 .. Cnt |-> [list[i] EXCEPT !.noMissing = FALSE]]

\* The state after a round of state s that is not about blocks.
After(s) == CASE s = "query" -> "updateStart"
              [] s = "updateStart" -> "transferGet"
              [] s = "transferGet" -> "transferStart"
              [] s = "transferStart" -> IF AllSkipped THEN "cancel" ELSE "blockStart"
              [] s = "updateGet" -> IF AllSkipped THEN "cancel" ELSE "apply"

EndRound ==
    /\ InRound /\ at > Cnt
    /\ \/ /\ st \notin {"blockStart", "blockGet"}
          /\ st' = After(st) /\ at' = 1
          /\ UNCHANGED <<block, missing, list>>
       \/ /\ st = "blockStart"
          /\ st' = "checkResult"
          /\ UNCHANGED <<at, block, missing, list>>
       \/ \* mesh_ota_missing_chunk_handle
          /\ st = "blockGet"
          /\ IF missing # {} THEN st' = "chunkStart" /\ UNCHANGED <<at, block, missing, list>> ELSE NextBlock
    /\ UNCHANGED <<wait, cmd, back, node, lost, starts, faults, history>>

\* is_need_block_transfer: also a receiver that is skipped by now counts
CheckResult ==
    /\ Ready /\ st = "checkResult"
    /\ IF \E i \in 1 .. Cnt : list[i].started
       THEN st' = "chunkStart" /\ missing' = Chunks(block) /\ UNCHANGED <<at, block, list>>
       ELSE NextBlock
    /\ UNCHANGED <<wait, cmd, back, node, lost, starts, faults, history>>

LastBlock ==
    /\ Ready /\ st = "blockStart" /\ block = NumBlocks
    /\ st' = "updateGet" /\ at' = 1
    /\ UNCHANGED <<wait, block, missing, list, cmd, back, node, lost, starts, faults, history>>

\* variant: the last of the chunks is not sent
BugToSend == {c \in missing \intersect Chunks(block) : c + 1 \in Chunks(block)}

ToSend == missing \intersect Chunks(block)

NextChunk == {c \in ToSend : \A d \in ToSend : c <= d}

\* The chunk with the lowest number goes to the group, and the nodes of "out" do not get
\* it; when no other is left, mesh_ota_set_block_get_state.
SendChunk ==
    /\ Ready /\ st = "chunkStart"
    /\ \E out \in SUBSET Node :
          /\ lost' = lost + Cardinality(out) /\ lost' <= MaxLoss
          /\ node' = [n \in Node |-> IF n \in out \/ NextChunk = {} THEN node[n]
                                    ELSE ChunkTransfer(node[n], block, CHOOSE c \in NextChunk : TRUE)]
    /\ IF ToSend = NextChunk THEN st' = "blockGet" /\ at' = 1 /\ missing' = {}
       ELSE missing' = missing \ NextChunk /\ UNCHANGED <<st, at>>
    /\ UNCHANGED <<wait, block, list, cmd, back, starts, faults, history>>

-----------------------------------------------------------------------------
\* distribut_get_not_apply_cnt
NotApplied == Cardinality({i \in 1 .. Cnt : ~list[i].applied})

\* The receiver with the connection to the gateway comes last: it is the way to the others.
PassApplied ==
    /\ Ready /\ st = "apply" /\ at <= Cnt
    /\ list[at].applied \/ (Nodes[at] = Connected /\ NotApplied > 1)
    /\ at' = at + 1
    /\ UNCHANGED <<st, wait, block, missing, list, cmd, back, node, lost, starts, faults, history>>

\* Receivers that are skipped get a FW_UPDATE_CANCEL too.
SendApply ==
    /\ Ready /\ st = "apply" /\ at <= Cnt
    /\ ~list[at].applied /\ ~(Nodes[at] = Connected /\ NotApplied > 1)
    /\ list' = [list EXCEPT ![at].applied = TRUE]
    /\ Reliable(IF list[at].phase \in {"verified", "applying"} THEN "apply" ELSE "cancel", {Nodes[at]}, 0)
    /\ wait' = TRUE
    /\ UNCHANGED <<st, at, block, missing, lost, starts, history>>

EndApply ==
    /\ Ready /\ st = "apply" /\ at > Cnt
    /\ at' = 1
    /\ st' = IF NotApplied = 0 THEN "cancel" ELSE "apply"
    /\ UNCHANGED <<wait, block, missing, list, cmd, back, node, lost, starts, faults, history>>

\* distribut_srv_proc_init
Cleaned == st' = "idle" /\ at' = 1 /\ wait' = FALSE /\ block' = 0 /\ missing' = {}
           /\ list' = [i \in 1 .. Cnt |-> Receiver0]

\* gateway_upload_mesh_ota_sts reports the receivers that were skipped; then the gateway
\* cancels its own distribution, which sends nothing any more.
Report ==
    /\ Ready /\ st = "cancel"
    /\ Cleaned
    /\ UNCHANGED <<cmd, back, node, lost, starts, faults, history>>

-----------------------------------------------------------------------------
\* mesh_ota_master_rx takes it for the answer it waits for.
Taken(n, a) == wait /\ Nodes[at] = n /\ a.kind = KindOf(st)

\* It looks at that one and keeps the phase of any FW_UPDATE_STATUS.
Looked(n, a) == wait /\ Nodes[at] = n /\ a.kind \in {"fw", KindOf(st)}

\* What mesh_ota_master_rx stores of an answer it takes.
Noted(r, a) ==
    [r EXCEPT !.skip = IF a.ok THEN @ ELSE st # "apply",
              !.started = IF st = "blockStart" THEN a.ok ELSE @,
              !.noMissing = @ \/ (st = "blockGet" /\ a.ok /\ a.miss = NoMissing)]

MissingWith(a) ==
    IF st # "blockGet" \/ ~a.ok \/ a.miss = NoMissing THEN missing
    ELSE missing \union IF a.miss = AllMissing THEN Chunks(block) ELSE a.miss

RxAnswer(n) ==
    /\ back[n] # <<>>
    /\ back' = [back EXCEPT ![n] = Tail(@)]
    /\ LET a == Head(back[n]).answer
           known == IF Looked(n, a) /\ a.kind = "fw" THEN [list EXCEPT ![at].phase = a.phase] ELSE list
       IN  /\ IF Taken(n, a)
              THEN /\ list' = [known EXCEPT ![at] = Noted(@, a)]
                   /\ missing' = MissingWith(a)
                   /\ at' = at + 1
                   /\ wait' = FALSE
              ELSE list' = known /\ UNCHANGED <<missing, at, wait>>
           /\ plain' = IF Looked(n, a) /\ Head(back[n]).of # Current THEN plain \ {n} ELSE plain
           \* is_rsp2tx_reliable, rf_link_slave_read_status_update
           /\ cmd' = IF a.kind # KindOf(cmd.op) \/ n \notin cmd.to THEN cmd
                     ELSE IF cmd.left = 1 THEN NoCmd ELSE [cmd EXCEPT !.left = @ - 1]
    /\ UNCHANGED <<st, block, node, lost, starts, faults, updated>>

\* variant: the receiver is not marked
BugGiveUp == list' = list /\ at' = (IF wait THEN at + 1 ELSE at) /\ wait' = FALSE

\* variant: the end of the retries is not passed on
BugGiveUpNever == UNCHANGED <<list, at, wait>>

\* mesh_ota_master_ack_timeout_handle
GiveUp ==
    IF wait THEN list' = [list EXCEPT ![at].skip = TRUE] /\ at' = at + 1 /\ wait' = FALSE
    ELSE UNCHANGED <<list, at, wait>>

Late == \E n \in cmd.to, i \in 1 .. MaxBack : i <= Len(back[n]) /\ back[n][i].of = cmd.of

\* mesh_tx_reliable_proc
Retry ==
    /\ cmd.op # "none" /\ cmd.acked
    /\ \/ /\ cmd.retry > 0
          /\ Transmit([cmd EXCEPT !.retry = @ - 1], IF Late THEN 1 ELSE 0)
          /\ UNCHANGED <<list, at, wait>>
       \/ /\ cmd.retry = 0
          /\ cmd' = NoCmd
          /\ GiveUp
          /\ faults' = faults + (IF Late THEN 1 ELSE 0) /\ faults' <= MaxFaults
          /\ UNCHANGED <<node, back>>
    /\ UNCHANGED <<st, block, missing, lost, starts, history>>

\* mesh_seg_ack_poll_tx: without a segment acknowledgment the reliable command ends by
\* mesh_tx_reliable_finish alone, and st_wait_flag stays.
SegmentTimeout ==
    /\ cmd.op # "none" /\ ~cmd.acked
    /\ cmd' = NoCmd
    /\ UNCHANGED <<st, at, wait, block, missing, list, back, node, lost, starts, faults, history>>

-----------------------------------------------------------------------------
\* mesh_cmd_sig_fw_distribut_start_tlk.  The application leaves applied nodes the 3 s of
\* their reboot: the code does not stop a pending reboot when a new update starts.
AppStart ==
    /\ st = "idle" /\ starts < MaxStarts
    /\ \A n \in Node : node[n].reboot # "success"
    /\ st' = "query"
    /\ starts' = starts + 1
    /\ plain' = {n \in Node : node[n] = Nodes0} /\ updated' = {}
    /\ UNCHANGED <<at, wait, block, missing, list, cmd, back, node, lost, faults>>

\* mesh_cmd_sig_fw_distribut_cancel: a FW_UPDATE_CANCEL to the group.  The gateway's own
\* application also ends a segmented command (mesh_tx_reliable_check_and_init); another
\* initiator is refused while one is under way.
AppCancel ==
    /\ st # "idle"
    /\ Cleaned
    /\ Reliable("cancel", Node, 1)
    /\ UNCHANGED <<lost, starts, history>>

\* mesh_ota_reboot_proc, 3 s after the apply or the cancel
Reboot(n) ==
    /\ node[n].reboot # "none"
    /\ node' = [node EXCEPT ![n] = Restarted]
    /\ updated' = IF node[n].reboot = "success" THEN updated \union {n} ELSE updated
    /\ UNCHANGED <<st, at, wait, block, missing, list, cmd, back, lost, starts, faults, plain>>

\* A node loses its power.
Restart(n) ==
    /\ faults < MaxFaults /\ faults' = faults + 1
    /\ node' = [node EXCEPT ![n] = Restarted]
    /\ plain' = plain \ {n}
    /\ UNCHANGED <<st, at, wait, block, missing, list, cmd, back, lost, starts, updated>>

Proc == \/ PassReceiver \/ SendToReceiver \/ EndRound \/ CheckResult \/ LastBlock
        \/ SendChunk \/ PassApplied \/ SendApply \/ EndApply \/ Report

Next ==
    \/ Proc \/ Retry \/ SegmentTimeout \/ AppStart \/ AppCancel
    \/ \E n \in Node : RxAnswer(n) \/ Reboot(n) \/ Restart(n)

Spec == Init /\ [][Next]_vars

\* The main loop of the gateway runs, its timers fire, answers under way arrive, and a
\* node's reboot is a timer.  Losses are bounded by MaxLoss (chunks) and by the retries.
Arrives == \E n \in Node : RxAnswer(n)
Reboots == \E n \in Node : Reboot(n)
FairSpec ==
    /\ Spec /\ WF_vars(Proc) /\ WF_vars(Retry) /\ WF_vars(SegmentTimeout)
    /\ WF_vars(Arrives) /\ WF_vars(Reboots)

\* What fairness is about: the gateway goes on, and the timer of a command fires, when the
\* answers before have arrived; what is under way or pending can come.
GuardsSuffice ==
    /\ Ready /\ (\A n \in Node : back[n] = <<>>) => ENABLED <<Proc>>_vars
    /\ cmd.op # "none" /\ cmd.acked /\ (\A n \in Node : back[n] = <<>>) => ENABLED <<Retry>>_vars
    /\ cmd.op # "none" /\ ~cmd.acked => ENABLED <<SegmentTimeout>>_vars
    /\ (\E n \in Node : back[n] # <<>>) => ENABLED <<Arrives>>_vars
    /\ (\E n \in Node : node[n].reboot # "none") => ENABLED <<Reboots>>_vars

-----------------------------------------------------------------------------
TypeOK ==
    /\ st \in States /\ at \in 1 .. Cnt + 1 /\ block \in 0 .. NumBlocks
    /\ wait \in BOOLEAN /\ (wait => st \in Rounds /\ at <= Cnt)
    /\ missing \subseteq UNION {Chunks(b) : b \in Blocks}
    /\ \A i \in 1 .. Cnt : list[i] \in [skip : BOOLEAN, started : BOOLEAN, noMissing : BOOLEAN,
                                        phase : UpdatePhases, applied : BOOLEAN]
    /\ cmd.to \subseteq Node /\ cmd.retry \in 0 .. RetryMax
    /\ \A n \in Node : Len(back[n]) <= MaxBack /\ node[n] \in NodeStates
    /\ lost \in 0 .. MaxLoss /\ faults \in 0 .. MaxFaults
    /\ updated \subseteq Node /\ plain \subseteq Node

\* Only a whole image is started: whatever was lost, repeated, cancelled or taken over
\* from an earlier distribution, a node whose reboot will set the new firmware has every
\* chunk at its place (the check of bin_crc_done before mesh_ota_reboot_set(OTA_SUCCESS)).
AppliedIsWhole == \A n \in Node : node[n].reboot = "success" => Whole(node[n])

\* A chunk message does not say its block, and a node stores it in the block it is in.
\* A receiver that is not skipped stores none at a wrong place: the distributor does not
\* leave a block before all of those have it.
ChunksInPlace ==
    \A i \in 1 .. Cnt : st # "idle" /\ Nodes[i] \in plain /\ ~list[i].skip =>
        \A p \in Image : node[Nodes[i]].flash[p] \in {Erased, p}

\* A receiver that the gateway does not report as failed starts with the new firmware.
ReportIsTrue ==
    [][st = "cancel" /\ st' = "idle" =>
         \A i \in 1 .. Cnt : Nodes[i] \in plain /\ ~list[i].skip =>
             Nodes[i] \in updated \/ node[Nodes[i]].reboot = "success"]_vars

\* st_wait_flag is on after a segmented command, and nothing is left that could clear it.
Hung == wait /\ Segmented(st) /\ cmd = NoCmd /\ back[Nodes[at]] = <<>>

\* mesh_ota_missing_chunk_handle has no limit of rounds: the gateway never ends if a receiver
\* that it does not skip waits for chunks of another block.  Late answers can bring that
\* about: one of the block before that stands for the answer to a block get, and the next
\* one for the answer to a block start that was lost.
Astray ==
    /\ st \in {"chunkStart", "blockGet"}
    /\ \E i \in 1 .. Cnt :
          ~list[i].skip /\ node[Nodes[i]].tp = "waitChunk" /\ node[Nodes[i]].bcur # block

\* A distribution ends, with some receivers skipped if need be, or does not in one of the two
\* ways the code has: a segmented command of which no segment was acknowledged, a receiver
\* that was left behind in another block.
DistributionEnds == (st # "idle") ~> (st = "idle" \/ Hung \/ Astray)

\* Chunks may be lost: as long as commands are answered in time and nobody cancels, every
\* receiver ends up with the new firmware.
EveryReceiverUpdated == (st # "idle") ~> (faults > 0 \/ updated = Node)
=============================================================================
