-------------------------- MODULE FirmwareUpdater --------------------------
(***************************************************************************)
(* A node that receives a firmware image over the mesh (fw_update_srv_proc *)
(* in mesh_ota.c, push mode): one operator per command it handles, from    *)
(* the state of the node to the next one, and one for the answer.  The     *)
(* image is cut in blocks and those in chunks; a chunk message carries its *)
(* number and not the number of its block.                                 *)
(* The flash is NOR: a position is written once, writing other data over   *)
(* it leaves neither.  Content is named by the position it belongs to.     *)
(***************************************************************************)
EXTENDS Integers, Sequences, FiniteSets

CONSTANT Lengths  \* Lengths[b][c]: length of chunk c of block b

ASSUME LengthsAssumption ==
    /\ IsFiniteSet(DOMAIN Lengths) /\ 0 \in DOMAIN Lengths
    /\ DOMAIN Lengths = 0 .. Cardinality(DOMAIN Lengths) - 1
    /\ \A b \in DOMAIN Lengths :
          /\ IsFiniteSet(DOMAIN Lengths[b]) /\ 0 \in DOMAIN Lengths[b]
          /\ DOMAIN Lengths[b] = 0 .. Cardinality(DOMAIN Lengths[b]) - 1
          /\ \A c \in DOMAIN Lengths[b] : Lengths[b][c] \in Nat \ {0}

Blocks == DOMAIN Lengths
NumBlocks == Cardinality(Blocks)
Chunks(b) == DOMAIN Lengths[b]
Image == UNION {{b} \X Chunks(b) : b \in Blocks}
Erased == <<>>
Spoilt == <<-1>>

UpdatePhases == {"idle", "active", "verified", "verifyFail", "applying"}
TransferPhases == {"inactive", "waitStart", "waitBlock", "waitChunk", "complete"}

\* fw_update_srv_proc; up is update_phase, tp blob_trans_phase (blob_trans_busy is on
\* from waitBlock on), bcur the block whose size is bk_size_current, begun that "start"
\* is not all zero, sums the blocks added to crc_total and whether with the right data.
\* With them the update area of the flash and the pending reboot.
Nodes0 == [up |-> "idle", busy |-> FALSE, begun |-> FALSE, tp |-> "inactive",
           bnum |-> 0, bcur |-> 0, rxok |-> FALSE, miss |-> {},
           sums |-> [b \in Blocks |-> "none"], crcDone |-> "none",
           flash |-> [p \in Image |-> Erased], reboot |-> "none"]

NodeStates ==
    [up : UpdatePhases, busy : BOOLEAN, begun : BOOLEAN, tp : TransferPhases,
     bnum : Blocks, bcur : Blocks, rxok : BOOLEAN, miss : SUBSET UNION {Chunks(b) : b \in Blocks},
     sums : [Blocks -> {"none", "right", "wrong"}], crcDone : {"none", "ok", "fail"},
     flash : [Image -> Image \union {Erased, Spoilt}], reboot : {"none", "fail", "success"}]

\* memset(&fw_update_srv_proc, 0, ...)
Cleared(r) == [Nodes0 EXCEPT !.flash = r.flash, !.reboot = r.reboot]

\* fw_update_srv_proc_init_keep_start_par_and_crc
KeepStartAndCrc(r) ==
    [Cleared(r) EXCEPT !.begun = r.begun, !.crcDone = IF r.crcDone = "ok" THEN "ok" ELSE "none"]

\* blob_trans_busy
Transferring(r) == r.tp \in {"waitBlock", "waitChunk", "complete"}

\* updater_get_block_rx_ok_cnt
RxOkCount(r) == r.bnum + IF r.rxok THEN 1 ELSE 0

Whole(r) == \A p \in Image : r.flash[p] = p

-----------------------------------------------------------------------------
\* Answers: the status message, its result, the phase and the missing chunks it reports.
Answer(kind, ok, phase, miss) == [kind |-> kind, ok |-> ok, phase |-> phase, miss |-> miss]
FwStatus(r, ok) == Answer("fw", ok, r.up, {})
TransferStatus(ok) == Answer("transfer", ok, "idle", {})
BlockStatus(ok, miss) == Answer("block", ok, "idle", miss)
AllMissing == {-1}
NoMissing == {-2}

\* mesh_cmd_sig_fw_update_start: again with the same parameters it keeps the progress
StartIsRepeat(r) == r.up # "verifyFail" /\ (r.busy \/ r.up \in {"verified", "applying"})
UpdateStart(r) ==
    IF StartIsRepeat(r) THEN IF r.busy THEN [r EXCEPT !.up = "active"] ELSE r
    ELSE [Cleared(r) EXCEPT !.up = "active", !.busy = TRUE, !.begun = TRUE, !.tp = "waitStart"]
\* after an apply the length of the metadata is 0: no parameters are the same
UpdateStartAnswer(r) == FwStatus(UpdateStart(r), StartIsRepeat(r) => r.busy)

\* mesh_cmd_sig_blob_transfer_handle, BLOB_TRANSFER_START: the blob id is known when busy
TransferStart(r) ==
    IF r.busy /\ r.tp \notin {"waitChunk", "complete"} THEN [r EXCEPT !.tp = "waitBlock"] ELSE r
TransferStartAnswer(r) == TransferStatus(r.busy)

\* blob_block_start_par_check; bk_size_current is set before the check
BlockStartOk(r, b) == Transferring(r) /\ b <= RxOkCount(r)

\* variant: the number of the block is not taken over
BugBlockStart(r, b) ==
    LET s == [r EXCEPT !.bcur = b]
    IN  IF BlockStartOk(r, b) /\ b = RxOkCount(r)
        THEN [s EXCEPT !.miss = Chunks(b), !.rxok = FALSE, !.tp = "waitChunk"]
        ELSE s

\* mesh_cmd_sig_blob_block_start: the block that is due is begun, or begun again
BlockStart(r, b) ==
    LET s == [r EXCEPT !.bcur = b]
    IN  IF BlockStartOk(r, b) /\ b = RxOkCount(r)
        THEN [s EXCEPT !.bnum = b, !.miss = Chunks(b), !.rxok = FALSE, !.tp = "waitChunk"]
        ELSE s
\* mesh_tx_cmd_blob_block_st, after the command was handled
BlockStartAnswer(r, b) ==
    BlockStatus(BlockStartOk(r, b), IF b < RxOkCount(BlockStart(r, b)) THEN NoMissing ELSE AllMissing)

-----------------------------------------------------------------------------
\* variant: the sum of every block is taken as right
BugSumOf(r) == "right"

\* block_crc32_check_current: what it reads back is right when every chunk is and the
\* size is that of the block
SumOf(r) == IF /\ \A c \in Chunks(r.bnum) : r.flash[<<r.bnum, c>>] = <<r.bnum, c>>
               /\ Lengths[r.bcur] = Lengths[r.bnum]
            THEN "right" ELSE "wrong"

\* set_phase_block_all_chunk_rx_ok: a block is added to the total once
AllChunksRx(r) ==
    LET s == [r EXCEPT !.sums[r.bnum] = IF ~r.rxok /\ @ = "none" THEN SumOf(r) ELSE @, !.rxok = TRUE]
    IN  [s EXCEPT !.tp = IF RxOkCount(s) = NumBlocks THEN "complete" ELSE "waitBlock"]

\* is_valid_chunk_transfer_size, with the data of chunk c of block b
ChunkFits(r, b, c) == c \in Chunks(r.bcur) /\ Lengths[b][c] = Lengths[r.bcur][c]

\* mesh_cmd_sig_blob_chunk_transfer, mesh_ota_save_data
ChunkTransfer(r, b, c) ==
    IF ~(r.tp = "waitChunk" /\ ChunkFits(r, b, c) /\ c \in r.miss) THEN r
    ELSE LET s == [r EXCEPT !.miss = @ \ {c}, !.crcDone = "none",
                            !.flash[<<r.bnum, c>>] = IF @ \in {Erased, <<b, c>>} THEN <<b, c>> ELSE Spoilt]
         IN  IF s.miss = {} THEN AllChunksRx(s) ELSE s

\* mesh_cmd_sig_blob_block_get: no chunk missing counts the block as received
BlockGet(r) == IF Transferring(r) /\ r.miss = {} THEN AllChunksRx(r) ELSE r
\* the chunks are looked for among those bk_size_current gives
BlockGetAnswer(r) ==
    BlockStatus(Transferring(r), CASE r.miss = {} -> NoMissing
                                   [] r.miss = Chunks(r.bcur) -> AllMissing
                                   [] OTHER -> r.miss \intersect Chunks(r.bcur))

-----------------------------------------------------------------------------
\* is_valid_mesh_ota_calibrate_val: "bin_crc_done" keeps the result
CrcDone(r) == IF r.crcDone # "none" THEN r.crcDone
              ELSE IF \A b \in Blocks : r.sums[b] = "right" THEN "ok" ELSE "fail"

\* mesh_cmd_sig_fw_update_get
UpdateGet(r) ==
    IF ~(r.busy /\ Transferring(r) /\ RxOkCount(r) = NumBlocks) THEN r
    ELSE [r EXCEPT !.crcDone = CrcDone(r), !.up = IF CrcDone(r) = "ok" THEN "verified" ELSE "verifyFail"]

\* mesh_cmd_sig_fw_update_apply: the reboot comes 3 s later
CanApply(r) == r.up \in {"verified", "verifyFail", "applying"}
UpdateApply(r) ==
    IF ~CanApply(r) THEN r
    ELSE IF CrcDone(r) = "ok"
         THEN [KeepStartAndCrc([r EXCEPT !.crcDone = "ok"]) EXCEPT !.up = "applying", !.reboot = "success"]
         ELSE [KeepStartAndCrc(r) EXCEPT !.up = "verifyFail", !.reboot = "fail"]
UpdateApplyAnswer(r) == FwStatus(UpdateApply(r), CanApply(r) /\ CrcDone(r) = "ok")

\* mesh_cmd_sig_fw_update_cancel
UpdateCancel(r) ==
    IF ~r.begun THEN r
    ELSE [KeepStartAndCrc(r) EXCEPT !.reboot = IF r.reboot = "none" THEN "fail" ELSE r.reboot]

\* mesh_ota_reboot_proc and the start after it: the update area is erased
Restarted == Nodes0
=============================================================================
