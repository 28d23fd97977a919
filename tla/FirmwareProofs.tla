---------------------------- MODULE FirmwareProofs ----------------------------
(***************************************************************************)
(* Proofs about the distribution of a firmware, for any image, list of     *)
(* receivers, number of retries and bounds: only a whole image is started, *)
(* chunks go to their block, the report is true, and the distribution ends *)
(* but for the two ways in which it cannot.                                *)
(***************************************************************************)
EXTENDS FirmwareDistribution, FiniteSetTheorems, SequenceTheorems, WellFoundedInduction, TLAPS

-----------------------------------------------------------------------------
(* Types *)

AllChunks == UNION {Chunks(b) : b \in Blocks}
Receivers == [skip : BOOLEAN, started : BOOLEAN, noMissing : BOOLEAN, phase : UpdatePhases,
              applied : BOOLEAN]
Kinds == {"query", "fw", "transfer", "block", "none"}
Answers == [kind : Kinds, ok : BOOLEAN, phase : UpdatePhases,
            miss : (SUBSET AllChunks) \union {AllMissing, NoMissing}]
Moments == Nat \X States \X (0 .. NumBlocks)
Entries == [of : Moments, answer : Answers]
Commands == [op : (Rounds \ {"apply"}) \union {"apply", "cancel"}, to : SUBSET Node, of : Moments,
             left : Nat \ {0}, retry : 0 .. RetryMax, acked : BOOLEAN]

GatewayTyped ==
    /\ st \in States /\ at \in 1 .. Cnt + 1 /\ block \in 0 .. NumBlocks
    /\ wait \in BOOLEAN /\ (wait => st \in Rounds /\ at <= Cnt)
    /\ missing \in SUBSET AllChunks
    /\ list \in [1 .. Cnt -> Receivers]

CountsTyped ==
    /\ lost \in 0 .. MaxLoss /\ faults \in 0 .. MaxFaults /\ starts \in Nat
    /\ updated \subseteq Node /\ plain \subseteq Node

-----------------------------------------------------------------------------
(* The gateway *)

\* The block that a state is about; a distribution that is over left nothing.
PlaceOK ==
    /\ st \in {"checkResult", "chunkStart", "blockGet"} => block \in Blocks
    /\ st \in {"query", "updateStart", "transferGet", "transferStart"} => block = 0
    /\ st \in {"updateGet", "apply"} => block = NumBlocks
    /\ st = "blockStart" /\ block = NumBlocks => at = 1 /\ ~wait
    /\ st = "idle" => /\ ~wait /\ at = 1 /\ block = 0 /\ missing = {}
                      /\ list = [i \in 1 .. Cnt |-> Receiver0]
    /\ \A i \in 1 .. Cnt : /\ list[i].applied => st \in {"apply", "cancel"}
                           /\ list[i].noMissing => st \in {"chunkStart", "blockGet"}

\* The command under way is the one that the state waits for, or the cancel of an earlier
\* distribution.
CmdOK ==
    /\ cmd = NoCmd \/ cmd \in Commands
    /\ cmd # NoCmd =>
          /\ ~cmd.acked => Segmented(cmd.op)
          /\ wait => /\ cmd.to = {Nodes[at]} /\ cmd.left = 1 /\ cmd.of = Current
                     /\ IF st = "apply" THEN cmd.op \in {"apply", "cancel"} ELSE cmd.op = st
          /\ ~wait => /\ cmd.op = "cancel" /\ cmd.of[1] <= starts
                      /\ st # "idle" => st = "query" /\ cmd.of[1] < starts
    /\ wait => /\ cmd = NoCmd => Segmented(st)
               /\ IF st = "apply" THEN list[at].applied ELSE ~list[at].skip

\* What is about to start with the new firmware is left alone.
Quiet == (\E n \in Node : node[n].reboot = "success") => st \in {"apply", "cancel", "idle"}

-----------------------------------------------------------------------------
(* A node *)

\* What a node believes of its flash is so.
Sound(r) ==
    /\ r.rxok => r.miss = {}
    /\ \A b \in Blocks : /\ r.sums[b] # "none" => b < RxOkCount(r)
                         /\ r.sums[b] = "right" => \A c \in Chunks(b) : r.flash[<<b, c>>] = <<b, c>>
    /\ r.crcDone = "ok" => Whole(r)
    /\ r.reboot = "success" => Whole(r)

NodesOK ==
    /\ node \in [Node -> NodeStates] /\ \A n \in Node : Sound(node[n])
    /\ back \in [Node -> Seq(Entries)] /\ \A n \in Node : Len(back[n]) <= MaxBack

SafeInv == GatewayTyped /\ CountsTyped /\ PlaceOK /\ CmdOK /\ NodesOK /\ Quiet

Started == [Nodes0 EXCEPT !.up = "active", !.busy = TRUE, !.begun = TRUE, !.tp = "waitStart"]
Armed == [Started EXCEPT !.tp = "waitBlock"]

Stored(r, p) == p[1] < RxOkCount(r) \/ (p[1] = r.bnum /\ r.tp = "waitChunk" /\ p[2] \notin r.miss)

\* A node that receives blocks, with all it stored at its place.
Good(r) ==
    /\ r.up = "active" /\ r.busy /\ r.begun /\ r.tp \in {"waitBlock", "waitChunk", "complete"}
    /\ r.bcur = r.bnum /\ r.crcDone = "none" /\ r.reboot = "none"
    /\ r.miss \subseteq Chunks(r.bnum)
    /\ r.tp = "waitChunk" => r.miss # {} /\ ~r.rxok
    /\ r.tp # "waitChunk" => r.miss = {}
    /\ \A b \in Blocks : r.sums[b] = IF b < RxOkCount(r) THEN "right" ELSE "none"
    /\ \A p \in Image : r.flash[p] = IF Stored(r, p) THEN p ELSE Erased

Due(r, b)     == Good(r) /\ RxOkCount(r) = b /\ (r.tp = "waitChunk" => r.miss = Chunks(b))
Begun(r, b)   == Good(r) /\ r.tp = "waitChunk" /\ r.bnum = b /\ r.miss = Chunks(b)
InBlock(r, b) == Good(r) /\ r.bnum = b /\ (r.tp = "waitChunk" \/ r.rxok)

Verified(r) ==
    /\ r.up = "verified" /\ r.busy /\ Transferring(r) /\ RxOkCount(r) = NumBlocks
    /\ r.crcDone = "ok" /\ r.reboot = "none" /\ Whole(r)
Rebooting(r) == r.up = "applying" /\ r.crcDone = "ok" /\ r.reboot = "success" /\ Whole(r)
Applied(n) == Rebooting(node[n]) \/ (node[n] = Nodes0 /\ n \in updated)

-----------------------------------------------------------------------------
(* The receivers of a distribution *)

\* Where a receiver is that the gateway does not skip.
Stage(i) ==
    LET r == node[Nodes[i]]
        past == at > i
    IN  /\ st = "query" => r = Nodes0
        /\ st = "updateStart" => r = Started \/ (~past /\ r = Nodes0)
        /\ st = "transferGet" => r = Started
        /\ st = "transferStart" => r = Armed \/ (~past /\ r = Started)
        /\ st = "blockStart" => Due(r, block) /\ (past => Begun(r, block) /\ list[i].started)
        /\ st = "checkResult" => Begun(r, block) /\ list[i].started
        /\ st \in {"chunkStart", "blockGet"} => InBlock(r, block) /\ (list[i].noMissing => r.rxok)
        /\ st = "blockGet" /\ past => list[i].noMissing \/ missing # {}
        /\ st = "updateGet" => \/ Verified(r) /\ (past => list[i].phase = "verified")
                               \/ ~past /\ Due(r, NumBlocks)
        /\ st = "apply" =>
              IF ~list[i].applied THEN Verified(r) /\ list[i].phase = "verified"
              ELSE IF wait /\ at = i THEN cmd.op = "apply" /\ (Verified(r) \/ Applied(Nodes[i]))
              ELSE Applied(Nodes[i])
        /\ st = "cancel" => Applied(Nodes[i])

\* One that is skipped is not verified when it gets its last command, which is a cancel.
PhaseOK(i) ==
    /\ list[i].phase \in {"verified", "applying"} =>
          /\ (st = "updateGet" /\ at > i /\ ~list[i].skip) \/ st \in {"apply", "cancel"}
          /\ list[i].skip => list[i].applied /\ ~(wait /\ at = i)
    /\ list[i].skip /\ wait /\ at = i => cmd.op = "cancel"

Order(s) ==
    CASE s = "query" -> 1 [] s = "updateStart" -> 2 [] s = "transferGet" -> 3
      [] s = "transferStart" -> 4 [] s = "blockStart" -> 5 [] s = "checkResult" -> 6
      [] s \in {"chunkStart", "blockGet"} -> 7 [] s = "updateGet" -> 8 [] s = "apply" -> 9
      [] OTHER -> 10

Once == {"updateStart", "transferStart", "blockStart", "updateGet"}

\* An answer is not of a command to come.
Known(i, e) ==
    /\ e.of[1] <= starts
    /\ st # "idle" /\ e.of[1] = starts =>
          /\ e.answer.kind = KindOf(e.of[2])
          /\ e.of[3] < block \/ (e.of[3] = block /\ Order(e.of[2]) <= Order(st))
    /\ e.of = Current => /\ st \in Once => at > i \/ (wait /\ at = i)
                         /\ st = "apply" => list[i].applied

\* What the answer that is waited for tells of its node.
Fits(i, a) ==
    LET r == node[Nodes[i]]
    IN  /\ st = "updateStart" => r = Started /\ a.phase = "active"
        /\ st = "transferStart" => r = Armed
        /\ st = "blockStart" => Begun(r, block)
        /\ st = "updateGet" => Verified(r) /\ a.phase = "verified" /\ a.ok
        /\ st = "apply" => IF list[i].skip THEN a.ok ELSE Applied(Nodes[i])

\* An answer about the missing chunks may be of an earlier time in the same block.
Missed(i, a) == a.miss # {} /\ (a.miss = NoMissing => node[Nodes[i]].rxok)

\* The answers of a receiver that are under way.
Under(i) == {back[Nodes[i]][k] : k \in 1 .. Len(back[Nodes[i]])}

AnswersOK(i) ==
    \A e \in Under(i) :
        /\ e.of = Current /\ wait /\ at = i => Fits(i, e.answer)
        /\ st \in {"chunkStart", "blockGet"} /\ ~list[i].skip /\ e.of = <<starts, "blockGet", block>>
           => Missed(i, e.answer)

ReceiverOK(i) ==
    st # "idle" /\ Nodes[i] \in plain => (~list[i].skip => Stage(i)) /\ PhaseOK(i) /\ AnswersOK(i)

KnownOK == \A i \in 1 .. Cnt : \A e \in Under(i) : Known(i, e)
ReceiversOK == \A i \in 1 .. Cnt : ReceiverOK(i)

DistrInv == SafeInv /\ KnownOK /\ ReceiversOK

-----------------------------------------------------------------------------
(* The image and the list *)

\* Blocks and chunks are numbered from 0.
LEMMA Numbers ==
  /\ NumBlocks \in Nat \ {0} /\ Blocks = 0 .. NumBlocks - 1 /\ 0 \in Blocks
  /\ \A b \in Blocks : /\ 0 \in Chunks(b) /\ Chunks(b) \subseteq Nat
                       /\ Chunks(b) \in SUBSET AllChunks
  /\ AllChunks \subseteq Nat
<1>1. NumBlocks \in Nat /\ Blocks = 0 .. NumBlocks - 1 /\ 0 \in Blocks
  BY LengthsAssumption, FS_CardinalityType DEF NumBlocks, Blocks
<1>2. NumBlocks \in Nat \ {0}
  BY <1>1
<1>3. ASSUME NEW b \in Blocks PROVE 0 \in Chunks(b) /\ Chunks(b) \subseteq Nat
  <2>1. IsFiniteSet(Chunks(b)) /\ 0 \in Chunks(b) /\ Chunks(b) = 0 .. Cardinality(Chunks(b)) - 1
    BY <1>3, LengthsAssumption DEF Blocks, Chunks
  <2>2. Cardinality(Chunks(b)) \in Nat
    BY <2>1, FS_CardinalityType
  <2> QED
    BY <2>1, <2>2
<1> QED
  BY <1>1, <1>2, <1>3 DEF AllChunks

\* A position is a block and one of its chunks.
LEMMA Positions ==
  /\ \A p \in Image : p = <<p[1], p[2]>> /\ p[1] \in Blocks /\ p[2] \in Chunks(p[1])
  /\ \A b \in Blocks : \A c \in Chunks(b) : <<b, c>> \in Image
BY DEF Image

\* The list names each receiver once.
LEMMA ListOnce ==
  /\ Cnt \in Nat \ {0} /\ IsFiniteSet(Node)
  /\ \A i \in 1 .. Cnt : Nodes[i] \in Node
  /\ \A n \in Node : \E i \in 1 .. Cnt : n = Nodes[i]
  /\ \A i, j \in 1 .. Cnt : Nodes[i] = Nodes[j] => i = j
  /\ Cardinality(Node) \in Nat \ {0}
<1>1. Cnt \in Nat \ {0}
  BY DistributionAssumption DEF Cnt
<1>2. IsFiniteSet(Node)
  <2> DEFINE f == [i \in 1 .. Cnt |-> Nodes[i]]
  <2>1. f \in Surjection(1 .. Cnt, Node)
    BY DEF Surjection, Node
  <2>2. IsFiniteSet(1 .. Cnt)
    BY <1>1, FS_Interval
  <2> QED
    BY <2>1, <2>2, FS_Surjection
<1>3. Nodes[1] \in Node
  BY <1>1 DEF Node
<1>4. Cardinality(Node) \in Nat \ {0}
  BY <1>2, <1>3, FS_CardinalityType, FS_EmptySet
<1> QED
  BY <1>1, <1>2, <1>4, DistributionAssumption DEF Cnt, Node

-----------------------------------------------------------------------------
(* What the commands do to a node: types, and a node that knows its flash *)

\* The first state.
LEMMA Nodes0OK == Nodes0 \in NodeStates /\ Sound(Nodes0) /\ Nodes0.reboot = "none"
BY Numbers, Positions DEF Nodes0, NodeStates, Sound, UpdatePhases, TransferPhases, RxOkCount

\* The states that the handlers build by clearing the procedure.
LEMMA ClearedOK ==
  ASSUME NEW r \in NodeStates, Sound(r)
  PROVE  /\ Cleared(r) \in NodeStates /\ KeepStartAndCrc(r) \in NodeStates
         /\ Sound(Cleared(r)) /\ Sound(KeepStartAndCrc(r))
         /\ Cleared(r).flash = r.flash /\ KeepStartAndCrc(r).flash = r.flash
         /\ Cleared(r).reboot = r.reboot /\ KeepStartAndCrc(r).reboot = r.reboot
<1>1. Cleared(r) \in NodeStates /\ Cleared(r).flash = r.flash /\ Cleared(r).reboot = r.reboot
  BY Nodes0OK DEF Cleared, NodeStates
<1>2. /\ Cleared(r).rxok = FALSE /\ Cleared(r).sums = [b \in Blocks |-> "none"]
      /\ Cleared(r).crcDone = "none"
  BY DEF Cleared, Nodes0
<1> DEFINE s == Cleared(r)
<1> HIDE DEF s
<1>3. Sound(Cleared(r))
  BY <1>1, <1>2 DEF Sound, Whole
<1>4. KeepStartAndCrc(r) = [s EXCEPT !.begun = r.begun, !.crcDone = IF r.crcDone = "ok" THEN "ok" ELSE "none"]
  BY DEF KeepStartAndCrc, s
<1>5. KeepStartAndCrc(r) \in NodeStates /\ KeepStartAndCrc(r).flash = r.flash /\ KeepStartAndCrc(r).reboot = r.reboot
  BY <1>1, <1>4 DEF NodeStates, s
<1>6. Sound(KeepStartAndCrc(r))
  BY <1>1, <1>2, <1>3, <1>4 DEF Sound, Whole, s, RxOkCount, NodeStates
<1> QED
  BY <1>1, <1>3, <1>5, <1>6

\* A handler that keeps the types and what the node knows, and orders no start.
Keeps(r, s) == s \in NodeStates /\ Sound(s) /\ (s.reboot = "success" => r.reboot = "success")

\* mesh_cmd_sig_fw_update_start keeps them.
LEMMA UpdateStartOK ==
  ASSUME NEW r \in NodeStates, Sound(r)
  PROVE  Keeps(r, UpdateStart(r))
<1>1. CASE StartIsRepeat(r)
  <2> DEFINE s == UpdateStart(r)
  <2>1. s = IF r.busy THEN [r EXCEPT !.up = "active"] ELSE r
    BY <1>1 DEF UpdateStart
  <2>2. s \in NodeStates
    BY <2>1 DEF NodeStates, UpdatePhases
  <2>3. /\ s.rxok = r.rxok /\ s.miss = r.miss /\ s.sums = r.sums /\ s.bnum = r.bnum
        /\ s.flash = r.flash /\ s.crcDone = r.crcDone /\ s.reboot = r.reboot
    BY <2>1 DEF NodeStates
  <2> QED
    BY <2>2, <2>3 DEF Keeps, Sound, Whole, RxOkCount
<1>2. CASE ~StartIsRepeat(r)
  <2> DEFINE q == Cleared(r)
             s == UpdateStart(r)
  <2>1. q \in NodeStates /\ Sound(q) /\ q.reboot = r.reboot
    BY ClearedOK
  <2>2. s = [q EXCEPT !.up = "active", !.busy = TRUE, !.begun = TRUE, !.tp = "waitStart"]
    BY <1>2 DEF UpdateStart
  <2> HIDE DEF q, s
  <2>3. s \in NodeStates
    BY <2>1, <2>2 DEF NodeStates, UpdatePhases, TransferPhases
  <2>4. /\ s.rxok = q.rxok /\ s.miss = q.miss /\ s.sums = q.sums /\ s.bnum = q.bnum
        /\ s.flash = q.flash /\ s.crcDone = q.crcDone /\ s.reboot = q.reboot
    BY <2>1, <2>2 DEF NodeStates
  <2>5. Keeps(r, s)
    BY <2>1, <2>3, <2>4 DEF Keeps, Sound, Whole, RxOkCount
  <2> QED
    BY <2>5 DEF s
<1> QED
  BY <1>1, <1>2

\* So does the start of a transfer.
LEMMA TransferStartOK ==
  ASSUME NEW r \in NodeStates, Sound(r)
  PROVE  Keeps(r, TransferStart(r))
<1> DEFINE s == TransferStart(r)
<1>1. s \in NodeStates
  BY DEF TransferStart, NodeStates, TransferPhases
<1>2. /\ s.rxok = r.rxok /\ s.miss = r.miss /\ s.sums = r.sums /\ s.bnum = r.bnum
      /\ s.flash = r.flash /\ s.crcDone = r.crcDone /\ s.reboot = r.reboot
  BY DEF TransferStart, NodeStates
<1> QED
  BY <1>1, <1>2 DEF Keeps, Sound, Whole, RxOkCount

\* The numbers of blocks received.
LEMMA RxOkCountType ==
  ASSUME NEW r \in NodeStates
  PROVE  /\ r.bnum \in Nat /\ RxOkCount(r) \in Nat
         /\ r.rxok => RxOkCount(r) = r.bnum + 1
         /\ ~r.rxok => RxOkCount(r) = r.bnum
BY Numbers DEF RxOkCount, NodeStates

\* So does the start of a block.
LEMMA BlockStartOK ==
  ASSUME NEW r \in NodeStates, Sound(r), NEW b \in Blocks
  PROVE  Keeps(r, BlockStart(r, b))
<1> DEFINE s == BlockStart(r, b)
<1>1. CASE BlockStartOk(r, b) /\ b = RxOkCount(r)
  <2>1. s = [r EXCEPT !.bcur = b, !.bnum = b, !.miss = Chunks(b), !.rxok = FALSE, !.tp = "waitChunk"]
    <3>1. s = [[r EXCEPT !.bcur = b] EXCEPT !.bnum = b, !.miss = Chunks(b), !.rxok = FALSE, !.tp = "waitChunk"]
      BY <1>1, Zenon DEF BlockStart
    <3> QED
      BY <3>1 DEF NodeStates
  <2>2. Chunks(b) \in SUBSET AllChunks
    BY Numbers
  <2>3. s \in NodeStates
    <3>1. "waitChunk" \in TransferPhases /\ FALSE \in BOOLEAN
      BY DEF TransferPhases
    <3> QED
      BY <2>1, <2>2, <3>1 DEF NodeStates, AllChunks
  <2>4. /\ s.rxok = FALSE /\ s.bnum = b /\ s.sums = r.sums
        /\ s.flash = r.flash /\ s.crcDone = r.crcDone /\ s.reboot = r.reboot
    BY <2>1 DEF NodeStates
  <2>5. RxOkCount(s) = RxOkCount(r)
    BY <1>1, <2>3, <2>4, RxOkCountType
  <2> QED
    BY <2>3, <2>4, <2>5 DEF Keeps, Sound, Whole
<1>2. CASE ~(BlockStartOk(r, b) /\ b = RxOkCount(r))
  <2>1. s = [r EXCEPT !.bcur = b]
    BY <1>2 DEF BlockStart
  <2>2. s \in NodeStates
    BY <2>1 DEF NodeStates
  <2>3. /\ s.rxok = r.rxok /\ s.miss = r.miss /\ s.sums = r.sums /\ s.bnum = r.bnum
        /\ s.flash = r.flash /\ s.crcDone = r.crcDone /\ s.reboot = r.reboot
    BY <2>1 DEF NodeStates
  <2> QED
    BY <2>2, <2>3 DEF Keeps, Sound, Whole, RxOkCount
<1> QED
  BY <1>1, <1>2

\* The block that is complete: it is summed once, and its sum is right when its chunks are.
LEMMA AllChunksRxOK ==
  ASSUME NEW r \in NodeStates, Sound(r), r.miss = {}
  PROVE  /\ Keeps(r, AllChunksRx(r))
         /\ AllChunksRx(r).reboot = r.reboot
<1> DEFINE q == [r EXCEPT !.sums[r.bnum] = IF ~r.rxok /\ @ = "none" THEN SumOf(r) ELSE @, !.rxok = TRUE]
           t == IF RxOkCount(q) = NumBlocks THEN "complete" ELSE "waitBlock"
           s == AllChunksRx(r)
<1>1. s = [q EXCEPT !.tp = t]
  BY DEF AllChunksRx
<1>2. /\ q \in NodeStates /\ q.rxok = TRUE /\ q.miss = {} /\ q.bnum = r.bnum /\ q.flash = r.flash
      /\ q.crcDone = r.crcDone /\ q.reboot = r.reboot
      /\ \A b \in Blocks : q.sums[b] = IF b = r.bnum /\ ~r.rxok /\ r.sums[b] = "none" THEN SumOf(r) ELSE r.sums[b]
  BY DEF NodeStates, SumOf
<1> HIDE DEF q
<1>3. /\ s \in NodeStates /\ s.rxok = TRUE /\ s.miss = {} /\ s.bnum = r.bnum /\ s.flash = r.flash
      /\ s.crcDone = r.crcDone /\ s.reboot = r.reboot /\ s.sums = q.sums
  BY <1>1, <1>2 DEF NodeStates, TransferPhases
<1> HIDE DEF s
<1>4. RxOkCount(s) = r.bnum + 1 /\ RxOkCount(r) <= RxOkCount(s) /\ RxOkCount(r) \in Nat
  BY <1>3, RxOkCountType
<1>5. ASSUME NEW b \in Blocks
      PROVE  /\ s.sums[b] # "none" => b < RxOkCount(s)
             /\ s.sums[b] = "right" => \A c \in Chunks(b) : s.flash[<<b, c>>] = <<b, c>>
  <2>1. b \in Nat /\ r.bnum \in Nat
    BY Numbers, RxOkCountType
  <2>2. CASE b = r.bnum /\ ~r.rxok /\ r.sums[b] = "none"
    BY <1>2, <1>3, <1>4, <2>1, <2>2 DEF SumOf
  <2>3. CASE ~(b = r.bnum /\ ~r.rxok /\ r.sums[b] = "none")
    BY <1>2, <1>3, <1>4, <2>1, <2>3 DEF Sound
  <2> QED
    BY <2>2, <2>3
<1>6. Sound(s)
  BY <1>3, <1>5 DEF Sound, Whole
<1> QED
  BY <1>3, <1>6 DEF Keeps, s

\* A chunk is stored in the block that the node is in, which it has not summed yet.  That the
\* update is not about to start is what keeps the new firmware whole.
LEMMA ChunkTransferOK ==
  ASSUME NEW r \in NodeStates, Sound(r), NEW b \in Blocks, NEW c \in Chunks(b), r.reboot # "success"
  PROVE  Keeps(r, ChunkTransfer(r, b, c))
<1>1. CASE r.tp = "waitChunk" /\ ChunkFits(r, b, c) /\ c \in r.miss
  <2> DEFINE s == [r EXCEPT !.miss = @ \ {c}, !.crcDone = "none",
                            !.flash[<<r.bnum, c>>] = IF @ \in {Erased, <<b, c>>} THEN <<b, c>> ELSE Spoilt]
  <2>1. ChunkTransfer(r, b, c) = IF s.miss = {} THEN AllChunksRx(s) ELSE s
    BY <1>1 DEF ChunkTransfer
  <2>2. s \in NodeStates
    <3>1. <<b, c>> \in Image
      BY Positions
    <3> QED
      BY <3>1 DEF NodeStates
  <2>3. /\ s.rxok = r.rxok /\ s.sums = r.sums /\ s.bnum = r.bnum /\ s.crcDone = "none"
        /\ s.reboot = r.reboot
        /\ \A p \in Image : p # <<r.bnum, c>> => s.flash[p] = r.flash[p]
    BY DEF NodeStates
  <2>4. ~r.rxok
    BY <1>1 DEF Sound
  <2> HIDE DEF s
  <2>5. RxOkCount(s) = r.bnum /\ RxOkCount(r) = r.bnum /\ r.bnum \in Nat
    BY <2>2, <2>3, <2>4, RxOkCountType
  <2>6. ASSUME NEW d \in Blocks, r.sums[d] = "right"
        PROVE  \A e \in Chunks(d) : s.flash[<<d, e>>] = <<d, e>>
    <3>1. d # r.bnum
      BY <2>5, <2>6 DEF Sound
    <3> QED
      BY <2>3, <2>6, <3>1, Positions DEF Sound
  <2>7. Sound(s)
    BY <2>3, <2>4, <2>5, <2>6 DEF Sound
  <2>8. s.miss = {} => Keeps(s, AllChunksRx(s))
    BY <2>2, <2>7, AllChunksRxOK
  <2> QED
    BY <2>1, <2>2, <2>3, <2>7, <2>8 DEF Keeps
<1>2. CASE ~(r.tp = "waitChunk" /\ ChunkFits(r, b, c) /\ c \in r.miss)
  BY <1>2 DEF ChunkTransfer, Keeps
<1> QED
  BY <1>1, <1>2

\* So does the question for the missing chunks.
LEMMA BlockGetOK ==
  ASSUME NEW r \in NodeStates, Sound(r)
  PROVE  Keeps(r, BlockGet(r))
BY AllChunksRxOK DEF BlockGet, Keeps

\* A check of the whole image that succeeds means that the image is whole.
LEMMA CrcDoneOK ==
  ASSUME NEW r \in NodeStates, Sound(r)
  PROVE  CrcDone(r) \in {"ok", "fail"} /\ (CrcDone(r) = "ok" => Whole(r))
<1>1. CrcDone(r) \in {"ok", "fail"}
  BY DEF CrcDone, NodeStates
<1>2. ASSUME \A b \in Blocks : r.sums[b] = "right" PROVE Whole(r)
  BY <1>2, Positions DEF Sound, Whole
<1> QED
  BY <1>1, <1>2 DEF CrcDone, Sound

\* mesh_cmd_sig_fw_update_get calculates what a node keeps as checked from the sums.
LEMMA UpdateGetOK ==
  ASSUME NEW r \in NodeStates, Sound(r)
  PROVE  Keeps(r, UpdateGet(r))
<1> DEFINE s == UpdateGet(r)
           d == CrcDone(r)
           t == [r EXCEPT !.crcDone = d, !.up = IF d = "ok" THEN "verified" ELSE "verifyFail"]
<1>1. s = r \/ s = t
  BY DEF UpdateGet
<1>2. d \in {"ok", "fail"} /\ (d = "ok" => Whole(r))
  BY CrcDoneOK
<1> HIDE DEF d, s
<1>3. /\ t \in NodeStates /\ t.rxok = r.rxok /\ t.miss = r.miss /\ t.sums = r.sums
      /\ t.bnum = r.bnum /\ t.flash = r.flash /\ t.reboot = r.reboot /\ t.crcDone = d
  BY <1>2 DEF NodeStates, UpdatePhases
<1> HIDE DEF t
<1>4. Sound(t)
  BY <1>2, <1>3 DEF Sound, Whole, RxOkCount
<1> QED
  BY <1>1, <1>3, <1>4 DEF Keeps, s

\* The one command that orders a start with the new firmware.
LEMMA UpdateApplyOK ==
  ASSUME NEW r \in NodeStates, Sound(r)
  PROVE  UpdateApply(r) \in NodeStates /\ Sound(UpdateApply(r))
<1>1. CASE ~CanApply(r)
  BY <1>1 DEF UpdateApply
<1>2. CASE CanApply(r) /\ CrcDone(r) = "ok"
  <2> DEFINE q == [r EXCEPT !.crcDone = "ok"]
             k == KeepStartAndCrc(q)
             s == [k EXCEPT !.up = "applying", !.reboot = "success"]
  <2>1. Whole(r)
    BY <1>2, CrcDoneOK
  <2>2. /\ q \in NodeStates /\ q.rxok = r.rxok /\ q.miss = r.miss /\ q.sums = r.sums
        /\ q.bnum = r.bnum /\ q.flash = r.flash /\ q.reboot = r.reboot
    BY DEF NodeStates
  <2> HIDE DEF q
  <2>3. Sound(q)
    BY <2>1, <2>2 DEF Sound, Whole, RxOkCount
  <2>4. k \in NodeStates /\ Sound(k) /\ k.flash = r.flash
    BY <2>2, <2>3, ClearedOK
  <2> HIDE DEF k
  <2>5. /\ s \in NodeStates /\ s.rxok = k.rxok /\ s.miss = k.miss /\ s.sums = k.sums
        /\ s.bnum = k.bnum /\ s.flash = k.flash
    BY <2>4 DEF NodeStates, UpdatePhases
  <2>6. Sound(s)
    BY <2>1, <2>4, <2>5 DEF Sound, Whole, RxOkCount
  <2> QED
    BY <1>2, <2>5, <2>6 DEF UpdateApply, q, k
<1>3. CASE CanApply(r) /\ CrcDone(r) # "ok"
  <2> DEFINE k == KeepStartAndCrc(r)
             s == [k EXCEPT !.up = "verifyFail", !.reboot = "fail"]
  <2>1. k \in NodeStates /\ Sound(k)
    BY ClearedOK
  <2> HIDE DEF k
  <2>2. /\ s \in NodeStates /\ s.rxok = k.rxok /\ s.miss = k.miss /\ s.sums = k.sums
        /\ s.bnum = k.bnum /\ s.flash = k.flash /\ s.crcDone = k.crcDone /\ s.reboot = "fail"
    BY <2>1 DEF NodeStates, UpdatePhases
  <2>3. Sound(s)
    BY <2>1, <2>2 DEF Sound, Whole, RxOkCount
  <2> QED
    BY <1>3, <2>2, <2>3 DEF UpdateApply, k
<1> QED
  BY <1>1, <1>2, <1>3

\* A cancel orders a restart with the old firmware, unless one is ordered.
LEMMA UpdateCancelOK ==
  ASSUME NEW r \in NodeStates, Sound(r)
  PROVE  Keeps(r, UpdateCancel(r))
<1>1. CASE ~r.begun
  BY <1>1 DEF UpdateCancel, Keeps
<1>2. CASE r.begun
  <2> DEFINE k == KeepStartAndCrc(r)
             s == [k EXCEPT !.reboot = IF r.reboot = "none" THEN "fail" ELSE r.reboot]
  <2>1. k \in NodeStates /\ Sound(k) /\ k.reboot = r.reboot
    BY ClearedOK
  <2> HIDE DEF k
  <2>2. /\ s \in NodeStates /\ s.rxok = k.rxok /\ s.miss = k.miss /\ s.sums = k.sums
        /\ s.bnum = k.bnum /\ s.flash = k.flash /\ s.crcDone = k.crcDone
        /\ s.reboot = IF r.reboot = "none" THEN "fail" ELSE r.reboot
    BY <2>1 DEF NodeStates
  <2>3. Sound(s)
    BY <2>1, <2>2 DEF Sound, Whole, RxOkCount
  <2> QED
    BY <1>2, <2>1, <2>2, <2>3 DEF UpdateCancel, Keeps, k
<1> QED
  BY <1>1, <1>2

\* Any command.
LEMMA HandledOK ==
  ASSUME NEW r \in NodeStates, Sound(r), NEW op, NEW b, op = "blockStart" => b \in Blocks
  PROVE  /\ Handled(op, r, b) \in NodeStates /\ Sound(Handled(op, r, b))
         /\ Handled(op, r, b).reboot = "success" => r.reboot = "success" \/ op = "apply"
<1>1. CASE op = "blockStart"
  BY <1>1, BlockStartOK DEF Handled, Keeps
<1>2. CASE op = "apply"
  BY <1>2, UpdateApplyOK DEF Handled
<1>3. CASE op \notin {"blockStart", "apply"}
  BY <1>3, UpdateStartOK, TransferStartOK, BlockGetOK, UpdateGetOK, UpdateCancelOK DEF Handled, Keeps
<1> QED
  BY <1>1, <1>2, <1>3

\* Any answer.
LEMMA AnswerType ==
  ASSUME NEW r \in NodeStates, Sound(r), NEW op, NEW b, op = "blockStart" => b \in Blocks
  PROVE  /\ AnswerTo(op, r, b) \in Answers
         /\ op \in Rounds \union {"cancel"} => AnswerTo(op, r, b).kind = KindOf(op)
<1>1. ASSUME NEW s \in NodeStates, NEW ok \in BOOLEAN
      PROVE  FwStatus(s, ok) \in Answers /\ FwStatus(s, ok).kind = "fw"
  BY <1>1 DEF FwStatus, Answer, Answers, Kinds, NodeStates
<1>2. ASSUME NEW ok \in BOOLEAN
      PROVE  TransferStatus(ok) \in Answers /\ TransferStatus(ok).kind = "transfer"
  BY DEF TransferStatus, Answer, Answers, Kinds, UpdatePhases
<1>3. ASSUME NEW ok \in BOOLEAN, NEW m \in (SUBSET AllChunks) \union {AllMissing, NoMissing}
      PROVE  BlockStatus(ok, m) \in Answers /\ BlockStatus(ok, m).kind = "block"
  BY DEF BlockStatus, Answer, Answers, Kinds, UpdatePhases
<1>4. CASE op \in {"updateStart", "updateGet", "cancel"}
  <2>1. Handled(op, r, b) \in NodeStates
    BY <1>4, HandledOK
  <2>2. CASE op = "updateStart"
    BY <1>1, <2>1, <2>2 DEF AnswerTo, Handled, UpdateStartAnswer, KindOf, StartIsRepeat, NodeStates
  <2>3. CASE op = "updateGet"
    BY <1>1, <2>1, <2>3 DEF AnswerTo, Handled, KindOf
  <2>4. CASE op = "cancel"
    BY <1>1, <2>1, <2>4 DEF AnswerTo, Handled, KindOf
  <2> QED
    BY <1>4, <2>2, <2>3, <2>4
<1>5. CASE op = "apply"
  <2>1. UpdateApply(r) \in NodeStates /\ (CanApply(r) /\ CrcDone(r) = "ok") \in BOOLEAN
    BY UpdateApplyOK
  <2> QED
    BY <1>1, <1>5, <2>1 DEF AnswerTo, UpdateApplyAnswer, KindOf
<1>6. CASE op \in {"transferGet", "transferStart"}
  BY <1>2, <1>6 DEF AnswerTo, TransferStartAnswer, KindOf, NodeStates
<1>7. CASE op = "blockStart"
  BY <1>3, <1>7 DEF AnswerTo, BlockStartAnswer, KindOf, BlockStartOk, Transferring
<1>8. CASE op = "blockGet"
  <2>1. r.miss \intersect Chunks(r.bcur) \in SUBSET AllChunks
    BY DEF NodeStates, AllChunks
  <2> DEFINE m == CASE r.miss = {} -> NoMissing
                    [] r.miss = Chunks(r.bcur) -> AllMissing
                    [] OTHER -> r.miss \intersect Chunks(r.bcur)
  <2>2. m \in (SUBSET AllChunks) \union {AllMissing, NoMissing}
    BY <2>1
  <2>3. AnswerTo(op, r, b) = BlockStatus(Transferring(r), m) /\ Transferring(r) \in BOOLEAN
    BY <1>8 DEF AnswerTo, BlockGetAnswer, Transferring
  <2> HIDE DEF m
  <2> QED
    BY <1>3, <1>8, <2>2, <2>3 DEF KindOf
<1>9. CASE op \notin {"updateStart", "updateGet", "cancel", "apply", "transferGet", "transferStart",
                      "blockStart", "blockGet"}
  BY <1>9 DEF AnswerTo, Answer, Answers, Kinds, UpdatePhases, Rounds, KindOf
<1> QED
  BY <1>4, <1>5, <1>6, <1>7, <1>8, <1>9

-----------------------------------------------------------------------------
(* The steps of the gateway, and what is safe whatever the receivers answer *)

Ops == (Rounds \ {"apply"}) \union {"apply", "cancel"}

\* What goes out with a command: the nodes that it reaches handle it, and some answers come.
LEMMA TransmitOK ==
  ASSUME NodesOK, NEW c \in Commands, c.op = "blockStart" => c.of[3] \in Blocks,
         faults \in 0 .. MaxFaults, NEW late \in {0, 1}, Transmit(c, late)
  PROVE  /\ NodesOK' /\ faults' \in 0 .. MaxFaults
         /\ cmd' = [c EXCEPT !.acked = cmd'.acked] /\ cmd' \in Commands
         /\ ~cmd'.acked => Segmented(c.op)
         /\ \A n \in Node :
               \/ node'[n] = node[n] /\ back'[n] = back[n]
               \/ /\ n \in c.to /\ node'[n] = Handled(c.op, node[n], c.of[3])
                  /\ \/ back'[n] = back[n]
                     \/ back'[n] = Append(back[n], [of |-> c.of, answer |-> AnswerTo(c.op, node[n], c.of[3])])
         /\ \A n \in Node : node'[n].reboot = "success" => node[n].reboot = "success" \/ c.op = "apply"
<1>1. PICK reached \in SUBSET c.to, acked \in BOOLEAN :
        \E heard \in SUBSET reached :
            /\ \A n \in heard : Len(back[n]) < MaxBack
            /\ IF Segmented(c.op) THEN acked => reached # {} ELSE acked
            /\ node' = [n \in Node |-> IF n \in reached THEN Handled(c.op, node[n], c.of[3]) ELSE node[n]]
            /\ back' = [n \in Node |->
                          IF n \in heard
                          THEN Append(back[n], [of |-> c.of, answer |-> AnswerTo(c.op, node[n], c.of[3])])
                          ELSE back[n]]
            /\ cmd' = [c EXCEPT !.acked = acked]
            /\ faults' = faults + late + IF heard # c.to \/ ~acked THEN 1 ELSE 0
            /\ faults' <= MaxFaults
  BY DEF Transmit
<1>2. PICK heard \in SUBSET reached :
            /\ \A n \in heard : Len(back[n]) < MaxBack
            /\ IF Segmented(c.op) THEN acked => reached # {} ELSE acked
            /\ node' = [n \in Node |-> IF n \in reached THEN Handled(c.op, node[n], c.of[3]) ELSE node[n]]
            /\ back' = [n \in Node |->
                          IF n \in heard
                          THEN Append(back[n], [of |-> c.of, answer |-> AnswerTo(c.op, node[n], c.of[3])])
                          ELSE back[n]]
            /\ cmd' = [c EXCEPT !.acked = acked]
            /\ faults' = faults + late + IF heard # c.to \/ ~acked THEN 1 ELSE 0
            /\ faults' <= MaxFaults
  BY <1>1
<1>3. \A n \in Node : Handled(c.op, node[n], c.of[3]) \in NodeStates /\ Sound(Handled(c.op, node[n], c.of[3]))
  BY HandledOK DEF NodesOK
<1>4. node' \in [Node -> NodeStates] /\ \A n \in Node : Sound(node'[n])
  BY <1>2, <1>3 DEF NodesOK
<1>5. ASSUME NEW n \in Node, n \in heard
      PROVE  back'[n] \in Seq(Entries) /\ Len(back'[n]) <= MaxBack
  <2> DEFINE e == [of |-> c.of, answer |-> AnswerTo(c.op, node[n], c.of[3])]
  <2>1. AnswerTo(c.op, node[n], c.of[3]) \in Answers
    BY AnswerType DEF NodesOK
  <2>2. e \in Entries
    BY <2>1 DEF Entries, Commands
  <2>3. back'[n] = Append(back[n], e) /\ back[n] \in Seq(Entries) /\ Len(back[n]) < MaxBack
    BY <1>2, <1>5 DEF NodesOK
  <2> HIDE DEF e
  <2>4. MaxBack \in Nat
    BY DistributionAssumption
  <2> QED
    BY <2>2, <2>3, <2>4
<1>6. back' \in [Node -> Seq(Entries)] /\ \A n \in Node : Len(back'[n]) <= MaxBack
  BY <1>2, <1>5 DEF NodesOK
<1>7. faults' \in 0 .. MaxFaults
  BY <1>2, DistributionAssumption
<1>8. NodesOK'
  BY <1>4, <1>6 DEF NodesOK
<1>9. cmd' = [c EXCEPT !.acked = acked] /\ cmd'.acked = acked /\ cmd' \in Commands
  BY <1>2 DEF Commands
<1>10. \A n \in Node : node'[n].reboot = "success" => node[n].reboot = "success" \/ c.op = "apply"
  BY <1>2, HandledOK DEF NodesOK
<1> QED
  BY <1>2, <1>7, <1>8, <1>9, <1>10

\* The gateway as it is ready for its next step: nothing is under way before and after.
LEMMA ReadyStep ==
  ASSUME SafeInv, Ready, UNCHANGED <<wait, cmd, back, node, lost, starts, faults, history>>,
         GatewayTyped', PlaceOK', st' = "query" => st = "query",
         st \in {"apply", "cancel"} => st' \in {"apply", "cancel", "idle"}
  PROVE  SafeInv'
<1>1. cmd' = NoCmd /\ ~wait'
  BY DEF Ready
<1>2. CmdOK'
  BY <1>1 DEF CmdOK
<1>3. NodesOK' /\ CountsTyped'
  BY DEF SafeInv, NodesOK, CountsTyped, history
<1>4. Quiet'
  BY DEF SafeInv, Quiet, Ready
<1> QED
  BY <1>2, <1>3, <1>4 DEF SafeInv

\* The types of a gateway that waits for no answer.
LEMMA TypedNext ==
  ASSUME wait' = FALSE, st' \in States, at' \in 1 .. Cnt + 1, block' \in 0 .. NumBlocks,
         missing' \in SUBSET AllChunks, list' \in [1 .. Cnt -> Receivers]
  PROVE  GatewayTyped'
<1>1. wait' \in BOOLEAN /\ (wait' => st' \in Rounds /\ at' <= Cnt)
  OBVIOUS
<1> QED
  BY <1>1 DEF GatewayTyped

\* The same at the first receiver, with the rest unchanged.
LEMMA TypedFirst ==
  ASSUME GatewayTyped, wait' = FALSE, st' \in States, at' = 1, UNCHANGED <<block, missing, list>>
  PROVE  GatewayTyped'
<1>1. at' \in 1 .. Cnt + 1
  BY ListOnce
<1>2. block \in 0 .. NumBlocks /\ missing \in SUBSET AllChunks /\ list \in [1 .. Cnt -> Receivers]
  BY DEF GatewayTyped
<1> QED
  BY <1>1, <1>2, TypedNext

\* A ready gateway waits for no answer, and neither does it after a step that sends nothing.
LEMMA ReadyWaits ==
  ASSUME GatewayTyped, ~wait, wait' = wait
  PROVE  wait' = FALSE
BY DEF GatewayTyped

\* A gateway without a distribution.
LEMMA CleanedOK ==
  ASSUME Cleaned
  PROVE  GatewayTyped' /\ PlaceOK'
<1>1. Cnt \in Nat \ {0} /\ NumBlocks \in Nat \ {0}
  BY ListOnce, Numbers
<1>2. Receiver0 \in Receivers /\ ~Receiver0.applied /\ ~Receiver0.noMissing
  BY DEF Receiver0, Receivers, UpdatePhases
<1>3. list' \in [1 .. Cnt -> Receivers] /\ \A i \in 1 .. Cnt : list'[i] = Receiver0
  BY <1>2 DEF Cleaned
<1>4. GatewayTyped'
  <2>1. st' \in States
    BY DEF Cleaned, States
  <2>2. at' \in 1 .. Cnt + 1 /\ block' \in 0 .. NumBlocks
    BY <1>1 DEF Cleaned
  <2>3. wait' = FALSE
    BY DEF Cleaned
  <2>4. wait' \in BOOLEAN
    BY <2>3
  <2>5. missing' \in SUBSET AllChunks
    BY DEF Cleaned
  <2>6. list' \in [1 .. Cnt -> Receivers]
    BY <1>3
  <2> QED
    BY <2>1, <2>2, <2>3, <2>4, <2>5, <2>6 DEF GatewayTyped
<1> QED
  BY <1>1, <1>2, <1>3, <1>4 DEF Cleaned, PlaceOK

\* A step of a ready gateway that leaves the commands and the nodes alone.
ReadyOnly == Ready /\ UNCHANGED <<wait, cmd, back, node, lost, starts, faults, history>>

\* The gateway passes a receiver.
LEMMA PassSafe ==
  ASSUME SafeInv, PassReceiver \/ PassApplied
  PROVE  SafeInv'
<1>1. GatewayTyped /\ PlaceOK /\ Cnt \in Nat \ {0}
  BY ListOnce DEF SafeInv
<1>2. ReadyOnly
  BY DEF ReadyOnly, PassReceiver, PassApplied, InRound
<1>3. /\ at <= Cnt /\ at' = at + 1 /\ UNCHANGED <<st, block, missing, list>>
      /\ ~(st = "blockStart" /\ block = NumBlocks)
  BY DEF PassReceiver, PassApplied, InRound
<1>4. ~wait /\ wait' = FALSE /\ st # "idle"
  BY <1>1, <1>2, ReadyWaits DEF ReadyOnly, Ready
<1>5. at' \in 1 .. Cnt + 1
  BY <1>1, <1>3 DEF GatewayTyped
<1>6. GatewayTyped'
  BY <1>1, <1>3, <1>4, <1>5, TypedNext DEF GatewayTyped
<1>7. PlaceOK'
  BY <1>1, <1>3, <1>4 DEF PlaceOK
<1> QED
  BY <1>2, <1>3, <1>6, <1>7, ReadyStep DEF ReadyOnly

\* The next block, in the state that sends its start.
LEMMA NextBlockSafe ==
  ASSUME SafeInv, ReadyOnly, NextBlock, st \in {"checkResult", "blockGet"}
  PROVE  SafeInv'
<1>1. GatewayTyped /\ PlaceOK /\ Cnt \in Nat \ {0} /\ NumBlocks \in Nat \ {0} /\ Blocks = 0 .. NumBlocks - 1
  BY ListOnce, Numbers DEF SafeInv
<1>2. ~wait /\ wait' = FALSE /\ st' = "blockStart" /\ block' = block + 1 /\ at' = 1 /\ missing' = {}
  BY <1>1, ReadyWaits DEF ReadyOnly, Ready, NextBlock
<1>3. block \in Blocks /\ block' \in 1 .. NumBlocks
  BY <1>1, <1>2 DEF PlaceOK
<1>4. list' \in [1 .. Cnt -> Receivers]
      /\ \A i \in 1 .. Cnt : list'[i].noMissing = FALSE /\ list'[i].applied = list[i].applied
  BY <1>1 DEF NextBlock, GatewayTyped, Receivers
<1>5. GatewayTyped'
  <2>1. at' \in 1 .. Cnt + 1 /\ block' \in 0 .. NumBlocks /\ st' \in States
    BY <1>1, <1>2, <1>3 DEF States, Rounds
  <2>2. missing' \in SUBSET AllChunks
    BY <1>2
  <2> QED
    BY <1>2, <1>4, <2>1, <2>2, TypedNext
<1>6. PlaceOK'
  BY <1>1, <1>2, <1>3, <1>4 DEF PlaceOK
<1> QED
  BY <1>2, <1>5, <1>6, ReadyStep DEF ReadyOnly

\* The end of a round.
LEMMA EndRoundSafe ==
  ASSUME SafeInv, EndRound
  PROVE  SafeInv'
<1>1. GatewayTyped /\ PlaceOK /\ Cnt \in Nat \ {0} /\ NumBlocks \in Nat \ {0} /\ Blocks = 0 .. NumBlocks - 1
  BY ListOnce, Numbers DEF SafeInv
<1>2. ReadyOnly /\ ~wait /\ wait' = FALSE /\ st # "idle"
  BY <1>1, ReadyWaits DEF EndRound, InRound, ReadyOnly, Ready
<1>3. CASE st \notin {"blockStart", "blockGet"}
  <2>1. /\ st \in Rounds \ {"apply", "blockStart", "blockGet"}
        /\ st' = After(st) /\ at' = 1 /\ UNCHANGED <<block, missing, list>>
    BY <1>3 DEF EndRound, InRound
  <2>2. st' \in States \ {"idle", "checkResult", "chunkStart", "blockGet", "query"}
    BY <2>1 DEF After, Rounds, States
  <2>3. /\ st' = "blockStart" => block = 0
        /\ st' \in {"updateStart", "transferGet", "transferStart"} => block = 0
        /\ st' \in {"updateGet", "apply"} => block = NumBlocks
    BY <1>1, <2>1 DEF PlaceOK, After, Rounds
  <2>4. \A i \in 1 .. Cnt : ~list[i].applied /\ ~list[i].noMissing
    BY <1>1, <2>1 DEF PlaceOK, Rounds
  <2>5. GatewayTyped'
    BY <1>1, <1>2, <2>1, <2>2, TypedFirst
  <2>6. PlaceOK'
    BY <1>1, <1>2, <2>1, <2>2, <2>3, <2>4 DEF PlaceOK
  <2> QED
    BY <1>2, <2>1, <2>2, <2>5, <2>6, ReadyStep DEF ReadyOnly, Rounds
<1>4. CASE st = "blockStart"
  <2>1. block # NumBlocks /\ st' = "checkResult" /\ UNCHANGED <<at, block, missing, list>>
    BY <1>4 DEF EndRound, InRound
  <2>2. GatewayTyped'
    BY <1>1, <1>2, <2>1, TypedNext DEF GatewayTyped, States
  <2>3. block \in Blocks
    BY <1>1, <2>1 DEF GatewayTyped
  <2>4. PlaceOK'
    BY <1>1, <1>2, <1>4, <2>1, <2>3 DEF PlaceOK
  <2> QED
    BY <1>2, <1>4, <2>1, <2>2, <2>4, ReadyStep DEF ReadyOnly
<1>5. CASE st = "blockGet" /\ missing # {}
  <2>1. st' = "chunkStart" /\ UNCHANGED <<at, block, missing, list>>
    BY <1>5 DEF EndRound
  <2>2. GatewayTyped'
    BY <1>1, <1>2, <2>1, TypedNext DEF GatewayTyped, States
  <2>3. PlaceOK'
    BY <1>1, <1>2, <1>5, <2>1 DEF PlaceOK
  <2> QED
    BY <1>2, <1>5, <2>1, <2>2, <2>3, ReadyStep DEF ReadyOnly
<1>6. CASE st = "blockGet" /\ missing = {}
  <2>1. NextBlock
    BY <1>6 DEF EndRound
  <2> QED
    BY <1>2, <1>6, <2>1, NextBlockSafe
<1> QED
  BY <1>3, <1>4, <1>5, <1>6

\* The other steps of a gateway that sends nothing.
LEMMA OtherReadySafe ==
  ASSUME SafeInv, CheckResult \/ LastBlock \/ EndApply \/ Report
  PROVE  SafeInv'
<1>1. GatewayTyped /\ PlaceOK /\ Cnt \in Nat \ {0} /\ NumBlocks \in Nat \ {0} /\ Blocks = 0 .. NumBlocks - 1
  BY ListOnce, Numbers DEF SafeInv
<1>2. ~wait /\ st # "idle"
  BY DEF CheckResult, LastBlock, EndApply, Report, Ready
<1>3. CASE CheckResult
  <2>1. ReadyOnly /\ wait' = FALSE /\ st = "checkResult"
    BY <1>1, <1>3, ReadyWaits DEF CheckResult, ReadyOnly, Ready
  <2>2. CASE st' = "chunkStart" /\ missing' = Chunks(block) /\ UNCHANGED <<at, block, list>>
    <3>1. block \in Blocks /\ Chunks(block) \in SUBSET AllChunks
      BY <1>1, <2>1, Numbers DEF PlaceOK
    <3>2. GatewayTyped'
      BY <1>1, <2>1, <2>2, <3>1, TypedNext DEF GatewayTyped, States
    <3>3. PlaceOK'
      BY <1>1, <2>1, <2>2, <3>1 DEF PlaceOK
    <3> QED
      BY <2>1, <2>2, <3>2, <3>3, ReadyStep DEF ReadyOnly
  <2>3. CASE NextBlock
    BY <2>1, <2>3, NextBlockSafe
  <2> QED
    BY <1>3, <2>2, <2>3 DEF CheckResult
<1>4. CASE LastBlock
  <2>1. /\ ReadyOnly /\ wait' = FALSE /\ st = "blockStart" /\ block = NumBlocks /\ st' = "updateGet" /\ at' = 1
        /\ UNCHANGED <<block, missing, list>>
    BY <1>1, <1>4, ReadyWaits DEF LastBlock, ReadyOnly, Ready
  <2>2. GatewayTyped'
    BY <1>1, <2>1, TypedFirst DEF States, Rounds
  <2>3. PlaceOK'
    BY <1>1, <2>1 DEF PlaceOK
  <2> QED
    BY <2>1, <2>2, <2>3, ReadyStep DEF ReadyOnly
<1>5. CASE EndApply
  <2>1. /\ ReadyOnly /\ wait' = FALSE /\ st = "apply" /\ st' \in {"cancel", "apply"} /\ at' = 1
        /\ UNCHANGED <<block, missing, list>>
    BY <1>1, <1>5, ReadyWaits DEF EndApply, ReadyOnly, Ready
  <2>2. GatewayTyped'
    BY <1>1, <2>1, TypedFirst DEF States, Rounds
  <2>3. PlaceOK'
    BY <1>1, <2>1 DEF PlaceOK
  <2> QED
    BY <2>1, <2>2, <2>3, ReadyStep DEF ReadyOnly
<1>6. CASE Report
  <2>1. ReadyOnly /\ st = "cancel" /\ Cleaned
    <3>1. wait' = FALSE /\ ~wait
      BY <1>6 DEF Report, Ready, Cleaned
    <3>2. wait' = wait
      BY <1>1, <3>1 DEF GatewayTyped
    <3> QED
      BY <1>6, <3>2 DEF Report, ReadyOnly
  <2>2. GatewayTyped' /\ PlaceOK'
    BY <2>1, CleanedOK
  <2> QED
    BY <2>1, <2>2, ReadyStep DEF ReadyOnly, Cleaned
<1> QED
  BY <1>3, <1>4, <1>5, <1>6

\* The command that a state sends to the receiver at hand.
CommandOf(op, to) ==
    [op |-> op, to |-> to, of |-> Current, left |-> Cardinality(to), retry |-> RetryMax, acked |-> TRUE]

\* It is a command, with one answer to come when it goes to one node.
LEMMA CommandType ==
  ASSUME SafeInv, NEW op \in Ops, NEW to \in SUBSET Node, to = Node \/ (\E n \in Node : to = {n})
  PROVE  /\ CommandOf(op, to) \in Commands
         /\ (\E n \in Node : to = {n}) => CommandOf(op, to).left = 1
<1>1. /\ (\E n \in Node : to = {n}) => Cardinality(to) = 1
      /\ Cardinality(to) \in Nat \ {0}
  <2>1. ASSUME NEW n \in Node, to = {n} PROVE Cardinality(to) = 1
    BY <2>1, FS_Singleton
  <2> QED
    BY <2>1, ListOnce
<1>2. Current \in Moments
  BY DEF Current, Moments, SafeInv, GatewayTyped, CountsTyped
<1>3. RetryMax \in 0 .. RetryMax
  BY DistributionAssumption
<1>4. op \in (Rounds \ {"apply"}) \union {"apply", "cancel"}
  BY DEF Ops
<1> QED
  BY <1>1, <1>2, <1>3, <1>4 DEF CommandOf, Commands

\* A command is sent to the receiver at hand.
LEMMA SendSafe ==
  ASSUME SafeInv, at <= Cnt, ~wait, wait' = TRUE, UNCHANGED <<st, at, block, missing, lost, starts, history>>,
         st \in Rounds, NEW op \in Ops, IF st = "apply" THEN op \in {"apply", "cancel"} ELSE op = st,
         ~(st = "blockStart" /\ block = NumBlocks), Reliable(op, {Nodes[at]}, 0),
         list' \in [1 .. Cnt -> Receivers],
         \A i \in 1 .. Cnt : list'[i].noMissing = list[i].noMissing /\ list'[i].skip = list[i].skip,
         IF st = "apply" THEN list'[at].applied ELSE list' = list /\ ~list[at].skip
  PROVE  SafeInv'
<1> DEFINE c == CommandOf(op, {Nodes[at]})
<1>1. /\ GatewayTyped /\ CountsTyped /\ PlaceOK /\ CmdOK /\ NodesOK /\ Quiet
      /\ Cnt \in Nat \ {0} /\ Blocks = 0 .. NumBlocks - 1 /\ at \in 1 .. Cnt /\ Nodes[at] \in Node
  BY ListOnce, Numbers DEF SafeInv, GatewayTyped
<1>2. c \in Commands /\ c.left = 1
  BY <1>1, CommandType
<1>3. c.op = op /\ c.to = {Nodes[at]} /\ c.of = Current /\ Transmit(c, 0)
  BY DEF CommandOf, Reliable
<1> HIDE DEF c
<1>4. c.op = "blockStart" => c.of[3] \in Blocks
  <2>1. ASSUME op = "blockStart" PROVE block \in Blocks
    BY <1>1, <2>1, Numbers DEF GatewayTyped
  <2>2. c.of[3] = block
    BY <1>3 DEF Current
  <2> QED
    BY <1>3, <2>1, <2>2
<1>5. /\ NodesOK' /\ faults' \in 0 .. MaxFaults
      /\ cmd' = [c EXCEPT !.acked = cmd'.acked] /\ cmd' \in Commands
      /\ ~cmd'.acked => Segmented(c.op)
      /\ \A n \in Node : node'[n].reboot = "success" => node[n].reboot = "success" \/ c.op = "apply"
  BY <1>1, <1>2, <1>3, <1>4, TransmitOK DEF CountsTyped
<1>6. cmd'.op = op /\ cmd'.to = {Nodes[at]} /\ cmd'.of = Current /\ cmd'.left = 1
  BY <1>2, <1>3, <1>5 DEF Commands
<1>7. cmd' # NoCmd
  BY <1>6 DEF Ops, Rounds, NoCmd
<1>8. Current' = Current
  BY DEF Current
<1>9. GatewayTyped'
  <2>1. wait' \in BOOLEAN
    OBVIOUS
  <2>2. st' \in Rounds /\ at' <= Cnt
    OBVIOUS
  <2> QED
    BY <1>1, <2>1, <2>2 DEF GatewayTyped
<1>10. CountsTyped'
  BY <1>1, <1>5 DEF CountsTyped, history
<1>11. PlaceOK'
  BY <1>1 DEF PlaceOK, Rounds
<1>12. CmdOK'
  BY <1>1, <1>5, <1>6, <1>7, <1>8, <1>3 DEF CmdOK
<1>13. Quiet'
  BY <1>1, <1>3, <1>5 DEF Quiet, Rounds
<1> QED
  BY <1>5, <1>9, <1>10, <1>11, <1>12, <1>13 DEF SafeInv

\* So of every state that sends.
LEMMA SendsSafe ==
  ASSUME SafeInv, SendToReceiver \/ SendApply
  PROVE  SafeInv'
<1>1. /\ GatewayTyped /\ Cnt \in Nat \ {0}
  BY ListOnce DEF SafeInv
<1>2. at <= Cnt /\ ~wait /\ wait' = TRUE /\ UNCHANGED <<st, at, block, missing, lost, starts, history>>
  BY DEF SendToReceiver, SendApply, InRound, Ready
<1>3. CASE SendToReceiver
  <2>1. st \in Ops /\ st \in Rounds /\ st # "apply" /\ list' = list
    BY <1>3 DEF SendToReceiver, InRound, Ops
  <2>2. ~list[at].skip /\ Reliable(st, {Nodes[at]}, 0) /\ ~(st = "blockStart" /\ block = NumBlocks)
    BY <1>3 DEF SendToReceiver, InRound, Passed
  <2>3. list' \in [1 .. Cnt -> Receivers]
    BY <1>1, <2>1 DEF GatewayTyped
  <2> QED
    BY <1>1, <1>2, <2>1, <2>2, <2>3, SendSafe
<1>4. CASE SendApply
  <2> DEFINE op == IF list[at].phase \in {"verified", "applying"} THEN "apply" ELSE "cancel"
  <2>1. st = "apply" /\ st \in Rounds /\ op \in Ops /\ op \in {"apply", "cancel"}
    BY <1>4 DEF SendApply, Rounds, Ops
  <2>2. Reliable(op, {Nodes[at]}, 0) /\ list' = [list EXCEPT ![at].applied = TRUE]
    BY <1>4 DEF SendApply
  <2> HIDE DEF op
  <2>3. at \in 1 .. Cnt
    BY <1>1, <1>2 DEF GatewayTyped
  <2>4. list' \in [1 .. Cnt -> Receivers] /\ list'[at].applied
        /\ \A i \in 1 .. Cnt : list'[i].noMissing = list[i].noMissing /\ list'[i].skip = list[i].skip
    BY <1>1, <2>2, <2>3 DEF GatewayTyped, Receivers
  <2> QED
    BY <1>1, <1>2, <2>1, <2>2, <2>4, SendSafe
<1> QED
  BY <1>3, <1>4

\* A reliable command is repeated or given up.
LEMMA RetrySafe ==
  ASSUME SafeInv, Retry
  PROVE  SafeInv'
<1>1. /\ GatewayTyped /\ CountsTyped /\ PlaceOK /\ CmdOK /\ NodesOK /\ Quiet
      /\ Cnt \in Nat \ {0} /\ Blocks = 0 .. NumBlocks - 1
  BY ListOnce, Numbers DEF SafeInv
<1>2. cmd # NoCmd /\ cmd \in Commands /\ UNCHANGED <<st, block, missing, lost, starts, history>>
  BY <1>1 DEF Retry, NoCmd, CmdOK
<1>3. CASE cmd.retry > 0 /\ Transmit([cmd EXCEPT !.retry = @ - 1], IF Late THEN 1 ELSE 0) /\ UNCHANGED <<list, at, wait>>
  <2> DEFINE c == [cmd EXCEPT !.retry = @ - 1]
             late == IF Late THEN 1 ELSE 0
  <2>1. /\ c.op = cmd.op /\ c.to = cmd.to /\ c.of = cmd.of /\ c.left = cmd.left /\ c \in Commands
        /\ late \in {0, 1} /\ Transmit(c, late)
    <3>1. cmd.retry - 1 \in 0 .. RetryMax
      BY <1>2, <1>3, DistributionAssumption DEF Commands
    <3> QED
      BY <1>2, <1>3, <3>1 DEF Commands
  <2>2. c.op = "blockStart" => c.of[3] \in Blocks
    <3>1. ASSUME cmd.op = "blockStart" PROVE wait /\ st = "blockStart" /\ cmd.of = Current
      BY <1>1, <1>2, <3>1 DEF CmdOK
    <3>2. ASSUME cmd.op = "blockStart" PROVE block \in Blocks
      BY <1>1, <3>1, <3>2, Numbers DEF GatewayTyped, PlaceOK
    <3> QED
      BY <2>1, <3>1, <3>2 DEF Current
  <2> HIDE DEF c, late
  <2>3. /\ NodesOK' /\ faults' \in 0 .. MaxFaults
        /\ cmd' = [c EXCEPT !.acked = cmd'.acked] /\ cmd' \in Commands
        /\ ~cmd'.acked => Segmented(c.op)
        /\ \A n \in Node : node'[n].reboot = "success" => node[n].reboot = "success" \/ c.op = "apply"
    BY <1>1, <2>1, <2>2, TransmitOK DEF CountsTyped
  <2>4. cmd'.op = cmd.op /\ cmd'.to = cmd.to /\ cmd'.of = cmd.of /\ cmd'.left = cmd.left
    BY <2>1, <2>3 DEF Commands
  <2>5. cmd' # NoCmd
    BY <2>4, <1>2 DEF Retry, NoCmd
  <2>6. Current' = Current
    BY <1>2 DEF Current
  <2>7. GatewayTyped' /\ CountsTyped' /\ PlaceOK'
    BY <1>1, <1>2, <1>3, <2>3 DEF GatewayTyped, CountsTyped, PlaceOK, history
  <2>8. CmdOK'
    BY <1>1, <1>2, <1>3, <2>1, <2>3, <2>4, <2>5, <2>6 DEF CmdOK
  <2>9. cmd.op = "apply" => st = "apply"
    BY <1>1, <1>2, Numbers DEF CmdOK, GatewayTyped, Rounds
  <2>10. Quiet'
    BY <1>1, <1>2, <2>1, <2>3, <2>9 DEF Quiet
  <2> QED
    BY <2>3, <2>7, <2>8, <2>10 DEF SafeInv
<1>4. CASE cmd' = NoCmd /\ GiveUp /\ faults' = faults + (IF Late THEN 1 ELSE 0) /\ faults' <= MaxFaults /\ UNCHANGED <<node, back>>
  <2>1. faults' \in 0 .. MaxFaults
    BY <1>1, <1>4, DistributionAssumption DEF CountsTyped
  <2>2. NodesOK' /\ CountsTyped' /\ Quiet'
    BY <1>1, <1>2, <1>4, <2>1 DEF NodesOK, CountsTyped, Quiet, history
  <2>3. wait' = FALSE
    BY <1>1, <1>4 DEF GiveUp, GatewayTyped
  <2>4. CmdOK'
    BY <1>4, <2>3 DEF CmdOK
  <2>5. CASE wait
    <3>1. at \in 1 .. Cnt /\ at' = at + 1 /\ list' = [list EXCEPT ![at].skip = TRUE] /\ st \in Rounds
      BY <1>1, <1>4, <2>5 DEF GiveUp, GatewayTyped
    <3>2. /\ list' \in [1 .. Cnt -> Receivers]
          /\ \A i \in 1 .. Cnt : list'[i].noMissing = list[i].noMissing /\ list'[i].applied = list[i].applied
      BY <1>1, <3>1 DEF GatewayTyped, Receivers
    <3>3. at' \in 1 .. Cnt + 1
      BY <1>1, <3>1
    <3>4. st \in States /\ block \in 0 .. NumBlocks /\ missing \in SUBSET AllChunks
      BY <1>1 DEF GatewayTyped
    <3>5. GatewayTyped'
      BY <1>2, <2>3, <3>2, <3>3, <3>4, TypedNext
    <3>6. st # "idle" /\ ~(st = "blockStart" /\ block = NumBlocks)
      BY <1>1, <2>5 DEF PlaceOK
    <3>7. PlaceOK'
      BY <1>1, <1>2, <3>2, <3>6 DEF PlaceOK
    <3> QED
      BY <2>2, <2>4, <3>5, <3>7 DEF SafeInv
  <2>6. CASE ~wait
    <3>1. UNCHANGED <<list, at, wait>>
      BY <1>4, <2>6 DEF GiveUp
    <3>2. GatewayTyped' /\ PlaceOK'
      BY <1>1, <1>2, <3>1 DEF GatewayTyped, PlaceOK
    <3> QED
      BY <2>2, <2>4, <3>2 DEF SafeInv
  <2> QED
    BY <2>5, <2>6
<1> QED
  BY <1>3, <1>4 DEF Retry

\* A segmented command ends without a segment acknowledgment.
LEMMA SegmentTimeoutSafe ==
  ASSUME SafeInv, SegmentTimeout
  PROVE  SafeInv'
<1>1. /\ GatewayTyped /\ CountsTyped /\ PlaceOK /\ CmdOK /\ NodesOK /\ Quiet
  BY DEF SafeInv
<1>2. /\ cmd # NoCmd /\ ~cmd.acked /\ cmd' = NoCmd
      /\ UNCHANGED <<st, at, wait, block, missing, list, back, node, lost, starts, faults, history>>
  BY DEF SegmentTimeout, NoCmd
<1>3. CmdOK'
  BY <1>1, <1>2 DEF CmdOK, Segmented
<1>4. GatewayTyped' /\ CountsTyped' /\ PlaceOK' /\ NodesOK' /\ Quiet'
  BY <1>1, <1>2 DEF GatewayTyped, CountsTyped, PlaceOK, NodesOK, Quiet, history
<1> QED
  BY <1>3, <1>4 DEF SafeInv

\* A chunk goes to the group.
LEMMA SendChunkSafe ==
  ASSUME SafeInv, SendChunk
  PROVE  SafeInv'
<1>1. /\ GatewayTyped /\ CountsTyped /\ PlaceOK /\ CmdOK /\ NodesOK /\ Quiet /\ Cnt \in Nat \ {0}
  BY ListOnce DEF SafeInv
<1>2. /\ st = "chunkStart" /\ ~wait /\ cmd = NoCmd /\ wait' = wait
      /\ UNCHANGED <<block, list, cmd, back, starts, faults, history>>
  BY DEF SendChunk, Ready
<1>3. PICK out \in SUBSET Node :
          /\ lost' = lost + Cardinality(out) /\ lost' <= MaxLoss
          /\ node' = [n \in Node |-> IF n \in out \/ NextChunk = {} THEN node[n]
                                    ELSE ChunkTransfer(node[n], block, CHOOSE c \in NextChunk : TRUE)]
  BY DEF SendChunk
<1>4. lost' \in 0 .. MaxLoss
  <2>1. Cardinality(out) \in Nat
    BY ListOnce, FS_Subset, FS_CardinalityType
  <2> QED
    BY <1>1, <1>3, <2>1, DistributionAssumption DEF CountsTyped
<1>5. block \in Blocks /\ NextChunk \in SUBSET Chunks(block)
  BY <1>1, <1>2 DEF PlaceOK, NextChunk, ToSend
<1>6. \A n \in Node : node[n].reboot # "success"
  BY <1>1, <1>2 DEF Quiet
<1>7. ASSUME NEW n \in Node
      PROVE  node'[n] \in NodeStates /\ Sound(node'[n]) /\ node'[n].reboot # "success"
  <2>1. node[n] \in NodeStates /\ Sound(node[n]) /\ node[n].reboot # "success"
    BY <1>1, <1>6 DEF NodesOK
  <2>2. CASE n \in out \/ NextChunk = {}
    BY <1>3, <2>1, <2>2
  <2>3. CASE ~(n \in out \/ NextChunk = {})
    <3> DEFINE c == CHOOSE c \in NextChunk : TRUE
    <3>1. c \in Chunks(block)
      BY <1>5, <2>3
    <3>2. node'[n] = ChunkTransfer(node[n], block, c)
      BY <1>3, <2>3
    <3> HIDE DEF c
    <3>3. Keeps(node[n], ChunkTransfer(node[n], block, c))
      BY <1>5, <2>1, <3>1, ChunkTransferOK
    <3> QED
      BY <2>1, <3>2, <3>3 DEF Keeps
  <2> QED
    BY <2>2, <2>3
<1>8. node' \in [Node -> NodeStates]
  BY <1>3, <1>7
<1>9. NodesOK' /\ Quiet'
  BY <1>1, <1>2, <1>7, <1>8 DEF NodesOK, Quiet
<1>10. CountsTyped' /\ CmdOK'
  BY <1>1, <1>2, <1>4 DEF CountsTyped, CmdOK, history
<1>11. /\ st' \in {"chunkStart", "blockGet"} /\ at' \in 1 .. Cnt + 1 /\ missing' \in SUBSET AllChunks
  <2>1. at \in 1 .. Cnt + 1 /\ missing \in SUBSET AllChunks
    BY <1>1 DEF GatewayTyped
  <2>2. 1 \in 1 .. Cnt + 1
    BY <1>1
  <2> QED
    BY <1>2, <2>1, <2>2 DEF SendChunk
<1>12. GatewayTyped'
  <2>1. wait' = FALSE
    BY <1>1, <1>2, ReadyWaits
  <2>2. block' \in 0 .. NumBlocks /\ list' \in [1 .. Cnt -> Receivers]
    BY <1>1, <1>2 DEF GatewayTyped
  <2>3. st' \in States
    BY <1>11 DEF States, Rounds
  <2> QED
    BY <1>11, <2>1, <2>2, <2>3, TypedNext
<1>13. PlaceOK'
  BY <1>1, <1>2, <1>5, <1>11 DEF PlaceOK
<1> QED
  BY <1>9, <1>10, <1>12, <1>13 DEF SafeInv

\* An answer arrives.
LEMMA RxAnswerSafe ==
  ASSUME SafeInv, NEW n \in Node, RxAnswer(n)
  PROVE  SafeInv'
<1> DEFINE a == Head(back[n]).answer
           known == IF Looked(n, a) /\ a.kind = "fw" THEN [list EXCEPT ![at].phase = a.phase] ELSE list
<1>1. /\ GatewayTyped /\ CountsTyped /\ PlaceOK /\ CmdOK /\ NodesOK /\ Quiet
      /\ Cnt \in Nat \ {0} /\ Blocks = 0 .. NumBlocks - 1
  BY ListOnce, Numbers DEF SafeInv
<1>2. /\ back[n] # <<>> /\ back' = [back EXCEPT ![n] = Tail(@)]
      /\ plain' \in {plain, plain \ {n}}
      /\ UNCHANGED <<st, block, node, lost, starts, faults, updated>>
  BY DEF RxAnswer
<1>3. a \in Answers
  <2>1. back[n] \in Seq(Entries)
    BY <1>1 DEF NodesOK
  <2>2. Head(back[n]) \in Entries
    BY <1>2, <2>1
  <2> QED
    BY <2>2 DEF Entries
<1>4. NodesOK'
  <2>1. back[n] \in Seq(Entries) /\ Tail(back[n]) \in Seq(Entries) /\ Len(Tail(back[n])) = Len(back[n]) - 1
    BY <1>1, <1>2 DEF NodesOK
  <2>2. Len(back[n]) \in Nat /\ Len(back[n]) <= MaxBack /\ MaxBack \in Nat
    BY <1>1, <2>1, DistributionAssumption DEF NodesOK
  <2>3. back' \in [Node -> Seq(Entries)] /\ back'[n] = Tail(back[n])
        /\ \A m \in Node : m # n => back'[m] = back[m]
    BY <1>1, <1>2, <2>1 DEF NodesOK
  <2>4. Len(back'[n]) <= MaxBack
    BY <2>1, <2>2, <2>3
  <2> QED
    BY <1>1, <1>2, <2>3, <2>4 DEF NodesOK
<1>5. CountsTyped' /\ Quiet'
  BY <1>1, <1>2 DEF CountsTyped, Quiet
<1>6. /\ cmd' = IF a.kind # KindOf(cmd.op) \/ n \notin cmd.to THEN cmd
                ELSE IF cmd.left = 1 THEN NoCmd ELSE [cmd EXCEPT !.left = @ - 1]
      /\ IF Taken(n, a)
         THEN list' = [known EXCEPT ![at] = Noted(@, a)] /\ missing' = MissingWith(a) /\ at' = at + 1 /\ wait' = FALSE
         ELSE list' = known /\ UNCHANGED <<missing, at, wait>>
  BY DEF RxAnswer
<1>7. /\ known \in [1 .. Cnt -> Receivers]
      /\ \A i \in 1 .. Cnt : /\ known[i].skip = list[i].skip /\ known[i].noMissing = list[i].noMissing
                             /\ known[i].applied = list[i].applied
      /\ ~wait => known = list
  BY <1>1, <1>3 DEF GatewayTyped, Receivers, Answers, Looked
<1> HIDE DEF a, known
<1>8. wait => st \in Rounds /\ at \in 1 .. Cnt /\ st # "idle" /\ ~(st = "blockStart" /\ block = NumBlocks)
  BY <1>1, <1>7 DEF GatewayTyped, Rounds, PlaceOK
<1>9. wait /\ cmd # NoCmd => KindOf(cmd.op) = KindOf(st) /\ cmd.to = {Nodes[at]} /\ cmd.left = 1
  BY <1>1 DEF CmdOK, KindOf
<1>10. CASE Taken(n, a)
  <2>1. wait /\ wait' = FALSE /\ at' = at + 1 /\ a.kind = KindOf(st) /\ n = Nodes[at]
    BY <1>6, <1>10 DEF Taken
  <2>2. cmd' = NoCmd
    <3>1. CASE cmd = NoCmd
      BY <1>6, <3>1 DEF NoCmd
    <3>2. CASE cmd # NoCmd
      BY <1>6, <1>9, <2>1, <3>2
    <3> QED
      BY <3>1, <3>2
  <2>3. /\ Noted(known[at], a) \in Receivers
        /\ Noted(known[at], a).applied = known[at].applied
        /\ st # "blockGet" => Noted(known[at], a).noMissing = known[at].noMissing
    <3> DEFINE r == known[at]
               q == Noted(r, a)
               b == st = "blockGet" /\ a.ok /\ a.miss = NoMissing
    <3>1. r \in Receivers /\ a.ok \in BOOLEAN
      BY <1>3, <1>7, <1>8, <2>1 DEF Answers
    <3>2. q = [r EXCEPT !.skip = IF a.ok THEN r.skip ELSE st # "apply",
                        !.started = IF st = "blockStart" THEN a.ok ELSE r.started,
                        !.noMissing = r.noMissing \/ b]
      BY <3>1 DEF Noted, Receivers
    <3> HIDE DEF r, q
    <3>3. (IF a.ok THEN r.skip ELSE st # "apply") \in BOOLEAN
      BY <3>1 DEF Receivers
    <3>4. (IF st = "blockStart" THEN a.ok ELSE r.started) \in BOOLEAN
      BY <3>1 DEF Receivers
    <3>5. (r.noMissing \/ b) \in BOOLEAN
      OBVIOUS
    <3>6. st # "blockGet" => (r.noMissing \/ b) = r.noMissing
      BY <3>1 DEF Receivers
    <3>7. q \in Receivers /\ q.applied = r.applied /\ q.noMissing = (r.noMissing \/ b)
      BY <3>1, <3>2, <3>3, <3>4, <3>5 DEF Receivers
    <3> QED
      BY <3>6, <3>7 DEF q, r
  <2>4. /\ list' \in [1 .. Cnt -> Receivers]
        /\ \A i \in 1 .. Cnt : /\ list'[i].applied = list[i].applied
                               /\ st # "blockGet" => list'[i].noMissing = list[i].noMissing
    <3>1. list' = [known EXCEPT ![at] = Noted(known[at], a)] /\ at \in 1 .. Cnt
      BY <1>6, <1>8, <1>10, <2>1
    <3>2. Noted(known[at], a) \in Receivers
      BY <2>3
    <3>3. list' \in [1 .. Cnt -> Receivers]
      BY <1>7, <3>1, <3>2
    <3>4. ASSUME NEW i \in 1 .. Cnt
          PROVE  /\ list'[i].applied = list[i].applied
                 /\ st # "blockGet" => list'[i].noMissing = list[i].noMissing
      <4>1. CASE i = at
        BY <1>7, <2>3, <3>1, <4>1
      <4>2. CASE i # at
        BY <1>7, <3>1, <4>2
      <4> QED
        BY <4>1, <4>2
    <3> QED
      BY <3>3, <3>4
  <2>5. missing' \in SUBSET AllChunks
    <3>1. missing \in SUBSET AllChunks
      BY <1>1 DEF GatewayTyped
    <3>2. a.miss \in (SUBSET AllChunks) \union {AllMissing, NoMissing}
      BY <1>3 DEF Answers
    <3>3. st = "blockGet" => Chunks(block) \in SUBSET AllChunks
      BY <1>1, Numbers DEF PlaceOK
    <3>4. CASE st # "blockGet" \/ ~a.ok \/ a.miss = NoMissing
      <4>1. MissingWith(a) = missing
        BY <3>4 DEF MissingWith
      <4> QED
        BY <1>6, <1>10, <3>1, <4>1
    <3>5. CASE ~(st # "blockGet" \/ ~a.ok \/ a.miss = NoMissing) /\ a.miss = AllMissing
      BY <1>6, <1>10, <3>1, <3>3, <3>5 DEF MissingWith
    <3>6. CASE ~(st # "blockGet" \/ ~a.ok \/ a.miss = NoMissing) /\ a.miss # AllMissing
      <4>1. a.miss \in SUBSET AllChunks
        BY <3>2, <3>6
      <4>2. missing' = missing \union a.miss
        BY <1>6, <1>10, <3>6 DEF MissingWith
      <4> QED
        BY <3>1, <4>1, <4>2
    <3> QED
      BY <3>4, <3>5, <3>6
  <2>6. GatewayTyped'
    <3>1. at' \in 1 .. Cnt + 1
      BY <1>1, <1>8, <2>1
    <3>2. st' \in States /\ block' \in 0 .. NumBlocks
      BY <1>1, <1>2 DEF GatewayTyped
    <3> QED
      BY <2>1, <2>4, <2>5, <3>1, <3>2, TypedNext
  <2>7. PlaceOK'
    BY <1>1, <1>2, <1>8, <2>1, <2>4 DEF PlaceOK
  <2>8. CmdOK'
    BY <2>1, <2>2 DEF CmdOK
  <2> QED
    BY <1>4, <1>5, <2>6, <2>7, <2>8 DEF SafeInv
<1>11. CASE ~Taken(n, a)
  <2>1. list' = known /\ UNCHANGED <<missing, at, wait>>
    BY <1>6, <1>11
  <2>2. GatewayTyped'
    BY <1>1, <1>2, <1>7, <2>1 DEF GatewayTyped
  <2>3. PlaceOK'
    <3>1. CASE wait
      BY <1>1, <1>2, <1>7, <1>8, <2>1, <3>1 DEF PlaceOK
    <3>2. CASE ~wait
      BY <1>1, <1>2, <1>7, <2>1, <3>2 DEF PlaceOK
    <3> QED
      BY <3>1, <3>2
  <2>4. CASE wait
    <3>1. cmd' = cmd
      <4>1. a.kind # KindOf(st) \/ n # Nodes[at]
        BY <1>11, <2>4 DEF Taken
      <4>2. CASE cmd = NoCmd
        BY <1>6, <4>2 DEF NoCmd
      <4>3. CASE cmd # NoCmd
        BY <1>6, <1>9, <2>4, <4>1, <4>3
      <4> QED
        BY <4>2, <4>3
    <3>2. Current' = Current
      BY <1>2 DEF Current
    <3>3. CmdOK'
      BY <1>1, <1>2, <1>7, <1>8, <2>1, <2>4, <3>1, <3>2 DEF CmdOK
    <3> QED
      BY <1>4, <1>5, <2>2, <2>3, <3>3 DEF SafeInv
  <2>5. CASE ~wait
    <3>1. ~wait'
      BY <2>1, <2>5
    <3>2. cmd' = NoCmd \/ (cmd # NoCmd /\ cmd' \in Commands /\ cmd'.op = cmd.op /\ cmd'.of = cmd.of /\ cmd'.acked = cmd.acked)
      <4>1. CASE cmd = NoCmd
        BY <1>6, <4>1 DEF NoCmd
      <4>2. CASE cmd # NoCmd
        <5>1. cmd \in Commands
          BY <1>1, <4>2 DEF CmdOK
        <5>2. cmd.left # 1 => cmd.left - 1 \in Nat \ {0}
          BY <5>1 DEF Commands
        <5> QED
          BY <1>6, <4>2, <5>1, <5>2 DEF Commands
      <4> QED
        BY <4>1, <4>2
    <3>3. CmdOK'
      BY <1>1, <1>2, <2>5, <3>1, <3>2 DEF CmdOK
    <3> QED
      BY <1>4, <1>5, <2>2, <2>3, <3>3 DEF SafeInv
  <2> QED
    BY <2>4, <2>5
<1> QED
  BY <1>10, <1>11

\* The application starts or cancels a distribution.
LEMMA AppSafe ==
  ASSUME SafeInv, AppStart \/ AppCancel
  PROVE  SafeInv'
<1>1. /\ GatewayTyped /\ CountsTyped /\ PlaceOK /\ CmdOK /\ NodesOK /\ Quiet
  BY DEF SafeInv
<1>2. CASE AppStart
  <2>1. /\ st = "idle" /\ st' = "query" /\ starts' = starts + 1 /\ ~wait
        /\ \A n \in Node : node[n].reboot # "success"
        /\ plain' = {n \in Node : node[n] = Nodes0} /\ updated' = {}
        /\ UNCHANGED <<at, wait, block, missing, list, cmd, back, node, lost, faults>>
    BY <1>1, <1>2 DEF AppStart, PlaceOK
  <2>2. GatewayTyped'
    BY <1>1, <2>1 DEF GatewayTyped, States, Rounds
  <2>3. CountsTyped'
    BY <1>1, <2>1 DEF CountsTyped
  <2>4. PlaceOK'
    BY <1>1, <2>1 DEF PlaceOK
  <2>5. CmdOK'
    <3>1. CASE cmd = NoCmd
      BY <2>1, <3>1 DEF CmdOK
    <3>2. CASE cmd # NoCmd
      <4>1. cmd \in Commands /\ cmd.op = "cancel" /\ cmd.of[1] <= starts /\ (~cmd.acked => Segmented(cmd.op))
        BY <1>1, <2>1, <3>2 DEF CmdOK
      <4>2. cmd.of[1] \in Nat /\ starts \in Nat
        BY <1>1, <4>1 DEF CountsTyped, Commands, Moments
      <4>3. cmd.of[1] < starts'
        BY <2>1, <4>1, <4>2
      <4>4. cmd.of[1] <= starts'
        BY <2>1, <4>1, <4>2
      <4> QED
        BY <2>1, <4>1, <4>3, <4>4 DEF CmdOK
    <3> QED
      BY <3>1, <3>2
  <2>6. NodesOK' /\ Quiet'
    BY <1>1, <2>1 DEF NodesOK, Quiet
  <2> QED
    BY <2>2, <2>3, <2>4, <2>5, <2>6 DEF SafeInv
<1>3. CASE AppCancel
  <2>1. Cleaned /\ UNCHANGED <<lost, starts, history>>
    BY <1>3 DEF AppCancel
  <2>2. GatewayTyped' /\ PlaceOK'
    BY <2>1, CleanedOK
  <2>3. ~wait' /\ st' = "idle"
    BY <2>1 DEF Cleaned
  <2> DEFINE c == CommandOf("cancel", Node)
  <2>4. c \in Commands /\ c.op = "cancel" /\ c.of = Current /\ Transmit(c, 1)
    BY <1>3, CommandType DEF AppCancel, CommandOf, Reliable, Ops
  <2> HIDE DEF c
  <2>5. /\ NodesOK' /\ faults' \in 0 .. MaxFaults
        /\ cmd' = [c EXCEPT !.acked = cmd'.acked] /\ cmd' \in Commands
        /\ ~cmd'.acked => Segmented(c.op)
    BY <1>1, <2>4, TransmitOK DEF CountsTyped
  <2>6. cmd'.op = "cancel" /\ cmd'.of = Current
    BY <2>4, <2>5 DEF Commands
  <2>7. cmd'.of[1] = starts /\ starts' = starts /\ starts \in Nat
    BY <1>1, <2>1, <2>6 DEF Current, CountsTyped
  <2>8. CmdOK'
    BY <2>3, <2>4, <2>5, <2>6, <2>7 DEF CmdOK
  <2>9. CountsTyped' /\ Quiet'
    BY <1>1, <2>1, <2>3, <2>5 DEF CountsTyped, Quiet, history
  <2> QED
    BY <2>2, <2>5, <2>8, <2>9 DEF SafeInv
<1> QED
  BY <1>2, <1>3

\* A node restarts.
LEMMA RestartSafe ==
  ASSUME SafeInv, NEW n \in Node, Reboot(n) \/ Restart(n)
  PROVE  SafeInv'
<1>1. /\ GatewayTyped /\ CountsTyped /\ PlaceOK /\ CmdOK /\ NodesOK /\ Quiet
  BY DEF SafeInv
<1>2. /\ node' = [node EXCEPT ![n] = Nodes0]
      /\ UNCHANGED <<st, at, wait, block, missing, list, cmd, back, lost, starts>>
  BY DEF Reboot, Restart, Restarted
<1>3. NodesOK' /\ Quiet'
  BY <1>1, <1>2, Nodes0OK DEF NodesOK, Quiet
<1>4. updated' \subseteq Node /\ plain' \subseteq Node
  BY <1>1 DEF Reboot, Restart, CountsTyped
<1>5. faults' \in 0 .. MaxFaults
  <2>1. faults \in 0 .. MaxFaults /\ MaxFaults \in Nat
    BY <1>1, DistributionAssumption DEF CountsTyped
  <2>2. faults' = faults \/ (faults < MaxFaults /\ faults' = faults + 1)
    BY DEF Reboot, Restart
  <2> QED
    BY <2>1, <2>2
<1>6. CountsTyped' /\ GatewayTyped' /\ PlaceOK'
  BY <1>1, <1>2, <1>4, <1>5 DEF CountsTyped, GatewayTyped, PlaceOK
<1>7. CmdOK'
  <2>1. Current' = Current
    BY <1>2 DEF Current
  <2> QED
    BY <1>1, <1>2, <2>1 DEF CmdOK
<1> QED
  BY <1>3, <1>6, <1>7 DEF SafeInv

-----------------------------------------------------------------------------
(* Types, and only a whole image is started *)

\* The first state.
LEMMA SafeStart ==
  ASSUME Init
  PROVE  SafeInv
<1>1. Cnt \in Nat \ {0} /\ NumBlocks \in Nat \ {0} /\ {RetryMax, MaxLoss, MaxBack, MaxFaults} \subseteq Nat
  BY ListOnce, Numbers, DistributionAssumption
<1>2. Receiver0 \in Receivers /\ ~Receiver0.applied /\ ~Receiver0.noMissing
  BY DEF Receiver0, Receivers, UpdatePhases
<1>3. list \in [1 .. Cnt -> Receivers] /\ \A i \in 1 .. Cnt : list[i] = Receiver0
  BY <1>2 DEF Init
<1>4. wait \in BOOLEAN
  BY DEF Init
<1>5. GatewayTyped
  BY <1>1, <1>3, <1>4 DEF Init, GatewayTyped, States
<1>6. CountsTyped
  BY <1>1 DEF Init, CountsTyped
<1>7. PlaceOK
  BY <1>1, <1>2, <1>3 DEF Init, PlaceOK
<1>8. CmdOK
  BY DEF Init, CmdOK
<1>9. NodesOK
  <2>1. \A n \in Node : node[n] \in NodeStates /\ Sound(node[n]) /\ back[n] \in Seq(Entries) /\ Len(back[n]) <= MaxBack
    BY <1>1, Nodes0OK DEF Init
  <2> QED
    BY <2>1 DEF Init, NodesOK
<1>10. Quiet
  BY DEF Init, Quiet
<1> QED
  BY <1>5, <1>6, <1>7, <1>8, <1>9, <1>10 DEF SafeInv

\* Every step keeps it.
LEMMA SafeStep ==
  ASSUME SafeInv, [Next]_vars
  PROVE  SafeInv'
<1>1. CASE Proc
  BY <1>1, PassSafe, EndRoundSafe, OtherReadySafe, SendsSafe, SendChunkSafe DEF Proc
<1>2. CASE Retry \/ SegmentTimeout \/ AppStart \/ AppCancel
  BY <1>2, RetrySafe, SegmentTimeoutSafe, AppSafe
<1>3. CASE \E n \in Node : RxAnswer(n) \/ Reboot(n) \/ Restart(n)
  BY <1>3, RxAnswerSafe, RestartSafe
<1>4. CASE UNCHANGED vars
  <2>1. Current' = Current
    BY <1>4 DEF Current, vars
  <2> QED
    BY <1>4, <2>1 DEF SafeInv, GatewayTyped, CountsTyped, PlaceOK, CmdOK, NodesOK, Quiet, vars, history
<1> QED
  BY <1>1, <1>2, <1>3, <1>4 DEF Next

\* What is safe whatever the receivers answer: the types, the place of the gateway, its
\* command, and that a node knows its flash.
THEOREM SafeInvariant == Spec => []SafeInv
<1>1. Init => SafeInv
  BY SafeStart
<1>2. SafeInv /\ [Next]_vars => SafeInv'
  BY SafeStep
<1> QED
  BY <1>1, <1>2, PTL DEF Spec

\* AppliedIsWhole: a node whose reboot will set the new firmware has every chunk at its
\* place, whatever was lost, repeated, cancelled or taken over.
THEOREM OnlyWholeImages == Spec => []AppliedIsWhole
<1>1. SafeInv => AppliedIsWhole
  BY DEF SafeInv, NodesOK, Sound, AppliedIsWhole
<1> QED
  BY <1>1, SafeInvariant, PTL

\* TypeOK: the types of the gateway, of its commands and of the nodes.
THEOREM TypeCorrect == Spec => []TypeOK
<1>1. ASSUME SafeInv PROVE TypeOK
  <2>1. GatewayTyped /\ CountsTyped /\ CmdOK /\ NodesOK
    BY <1>1 DEF SafeInv
  <2>2. cmd.to \subseteq Node /\ cmd.retry \in 0 .. RetryMax
    BY <2>1, DistributionAssumption DEF CmdOK, NoCmd, Commands
  <2>3. missing \subseteq UNION {Chunks(b) : b \in Blocks}
    BY <2>1 DEF GatewayTyped, AllChunks
  <2>4. \A i \in 1 .. Cnt : list[i] \in [skip : BOOLEAN, started : BOOLEAN, noMissing : BOOLEAN,
                                          phase : UpdatePhases, applied : BOOLEAN]
    BY <2>1 DEF GatewayTyped, Receivers
  <2>5. \A n \in Node : Len(back[n]) <= MaxBack /\ node[n] \in NodeStates
    BY <2>1 DEF NodesOK
  <2> QED
    BY <2>1, <2>2, <2>3, <2>4, <2>5 DEF GatewayTyped, CountsTyped, TypeOK
<1> QED
  BY <1>1, SafeInvariant, PTL

-----------------------------------------------------------------------------
(* What the commands of a distribution do to a node that takes part in it *)

\* Before the blocks.
LEMMA BeforeBlocks ==
  /\ UpdateStart(Nodes0) = Started /\ UpdateStart(Started) = Started
  /\ UpdateStartAnswer(Nodes0).phase = "active" /\ UpdateStartAnswer(Started).phase = "active"
  /\ TransferStart(Started) = Armed /\ TransferStart(Armed) = Armed
  /\ UpdateCancel(Nodes0) = Nodes0 /\ UpdateApply(Nodes0) = Nodes0
<1>1. /\ Nodes0.up = "idle" /\ Nodes0.busy = FALSE /\ Nodes0.begun = FALSE /\ Nodes0.tp = "inactive"
      /\ Nodes0 \in NodeStates
  BY Nodes0OK DEF Nodes0
<1>2. Cleared(Nodes0) = Nodes0
  BY DEF Cleared, Nodes0
<1>3. Started \in NodeStates /\ Started.up = "active" /\ Started.busy = TRUE /\ Started.tp = "waitStart"
  BY <1>1 DEF Started, NodeStates, UpdatePhases, TransferPhases
<1>4. Armed \in NodeStates /\ Armed.up = "active" /\ Armed.busy = TRUE /\ Armed.tp = "waitBlock"
  BY <1>3 DEF Armed, NodeStates, TransferPhases
<1>5. UpdateStart(Nodes0) = Started
  BY <1>1, <1>2 DEF UpdateStart, StartIsRepeat, Started
<1>6. UpdateStart(Started) = Started
  <2>1. UpdateStart(Started) = [Started EXCEPT !.up = "active"]
    BY <1>3 DEF UpdateStart, StartIsRepeat
  <2> QED
    BY <1>3, <2>1 DEF NodeStates
<1>7. UpdateStartAnswer(Nodes0).phase = "active" /\ UpdateStartAnswer(Started).phase = "active"
  BY <1>3, <1>5, <1>6 DEF UpdateStartAnswer, FwStatus, Answer
<1>8. TransferStart(Started) = Armed
  BY <1>3 DEF TransferStart, Armed
<1>9. TransferStart(Armed) = Armed
  <2>1. TransferStart(Armed) = [Armed EXCEPT !.tp = "waitBlock"]
    BY <1>4 DEF TransferStart
  <2> QED
    BY <1>4, <2>1 DEF NodeStates
<1>10. UpdateCancel(Nodes0) = Nodes0 /\ UpdateApply(Nodes0) = Nodes0
  BY <1>1 DEF UpdateCancel, UpdateApply, CanApply
<1> QED
  BY <1>5, <1>6, <1>7, <1>8, <1>9, <1>10

\* A node that has started the transfer waits for block 0.
LEMMA ArmedDue == Armed \in NodeStates /\ Due(Armed, 0) /\ Armed.reboot = "none"
<1>1. /\ Started \in NodeStates /\ Started.up = "active" /\ Started.busy = TRUE /\ Started.begun = TRUE
      /\ Started.bnum = 0 /\ Started.bcur = 0 /\ Started.rxok = FALSE /\ Started.miss = {}
      /\ Started.sums = [b \in Blocks |-> "none"] /\ Started.crcDone = "none"
      /\ Started.flash = [p \in Image |-> Erased] /\ Started.reboot = "none"
  <2>1. /\ Nodes0.bnum = 0 /\ Nodes0.bcur = 0 /\ Nodes0.rxok = FALSE /\ Nodes0.miss = {}
        /\ Nodes0.sums = [b \in Blocks |-> "none"] /\ Nodes0.crcDone = "none"
        /\ Nodes0.flash = [p \in Image |-> Erased] /\ Nodes0.reboot = "none"
    BY DEF Nodes0
  <2> DEFINE z == Nodes0
  <2>2. z \in NodeStates /\ Started = [z EXCEPT !.up = "active", !.busy = TRUE, !.begun = TRUE, !.tp = "waitStart"]
    BY Nodes0OK DEF Started
  <2> HIDE DEF z
  <2>3. /\ Started \in NodeStates /\ Started.up = "active" /\ Started.busy = TRUE /\ Started.begun = TRUE
        /\ Started.bnum = z.bnum /\ Started.bcur = z.bcur /\ Started.rxok = z.rxok /\ Started.miss = z.miss
        /\ Started.sums = z.sums /\ Started.crcDone = z.crcDone
        /\ Started.flash = z.flash /\ Started.reboot = z.reboot
    BY <2>2 DEF NodeStates, UpdatePhases, TransferPhases
  <2> QED
    BY <2>1, <2>3 DEF z
<1>2. /\ Armed.up = "active" /\ Armed.busy /\ Armed.begun /\ Armed.tp = "waitBlock" /\ Armed.bnum = 0
      /\ Armed.bcur = 0 /\ Armed.rxok = FALSE /\ Armed.miss = {} /\ Armed.sums = [b \in Blocks |-> "none"]
      /\ Armed.crcDone = "none" /\ Armed.flash = [p \in Image |-> Erased] /\ Armed.reboot = "none"
  BY <1>1 DEF Armed, NodeStates
<1>3. Armed \in NodeStates
  BY <1>1 DEF Armed, NodeStates, TransferPhases
<1>4. RxOkCount(Armed) = 0
  BY <1>2 DEF RxOkCount
<1>5. \A b \in Blocks : ~(b < 0)
  BY Numbers
<1>6. \A p \in Image : ~Stored(Armed, p)
  BY <1>2, <1>4, <1>5, Positions DEF Stored
<1>7. Good(Armed)
  BY <1>2, <1>4, <1>5, <1>6 DEF Good
<1> QED
  BY <1>2, <1>3, <1>4, <1>7 DEF Due

\* A block that is due is begun, or begun again.
LEMMA DueBegins ==
  ASSUME NEW r \in NodeStates, NEW b \in Blocks, Due(r, b)
  PROVE  Begun(BlockStart(r, b), b)
<1> DEFINE s == [r EXCEPT !.bcur = b, !.bnum = b, !.miss = Chunks(b), !.rxok = FALSE, !.tp = "waitChunk"]
<1>1. Good(r) /\ RxOkCount(r) = b /\ (r.tp = "waitChunk" => r.miss = Chunks(b))
  BY DEF Due
<1>2. b \in Nat /\ b <= RxOkCount(r) /\ Chunks(b) # {} /\ Chunks(b) \in SUBSET AllChunks
  BY <1>1, Numbers
<1>3. BlockStart(r, b) = s
  BY <1>1, <1>2 DEF BlockStart, BlockStartOk, Transferring, Good, NodeStates
<1>4. /\ s.bcur = b /\ s.bnum = b /\ s.miss = Chunks(b) /\ s.rxok = FALSE /\ s.tp = "waitChunk"
      /\ s.up = r.up /\ s.busy = r.busy /\ s.begun = r.begun /\ s.sums = r.sums
      /\ s.crcDone = r.crcDone /\ s.flash = r.flash /\ s.reboot = r.reboot
  BY DEF NodeStates
<1> HIDE DEF s
<1>5. RxOkCount(s) = b
  BY <1>2, <1>4 DEF RxOkCount
<1>6. ASSUME NEW p \in Image PROVE Stored(s, p) <=> Stored(r, p)
  <2>1. p[1] \in Blocks /\ p[2] \in Chunks(p[1])
    BY Positions
  <2>2. Stored(s, p) <=> p[1] < b
    BY <1>4, <1>5, <2>1 DEF Stored
  <2>3. r.tp = "waitChunk" => r.bnum = b /\ r.miss = Chunks(b)
    BY <1>1, RxOkCountType DEF Good
  <2>4. Stored(r, p) <=> p[1] < b
    BY <1>1, <2>1, <2>3 DEF Stored
  <2> QED
    BY <2>2, <2>4
<1>7. Good(s)
  BY <1>1, <1>2, <1>4, <1>5, <1>6 DEF Good
<1> QED
  BY <1>3, <1>4, <1>7 DEF Begun

\* It is due still.
LEMMA BegunIsDue ==
  ASSUME NEW r \in NodeStates, NEW b \in Blocks, Begun(r, b)
  PROVE  Due(r, b) /\ InBlock(r, b)
BY RxOkCountType DEF Begun, Due, InBlock, Good

\* The next block is due when the one before is complete.
LEMMA CompleteIsDue ==
  ASSUME NEW r \in NodeStates, NEW b \in Blocks, InBlock(r, b), r.rxok
  PROVE  Due(r, b + 1)
BY RxOkCountType DEF InBlock, Due, Good

\* An answer about the missing chunks counts a block without any as received, as it was.
LEMMA BlockGetInBlock ==
  ASSUME NEW r \in NodeStates, NEW b \in Blocks, InBlock(r, b)
  PROVE  /\ InBlock(BlockGet(r), b) /\ (r.rxok => BlockGet(r).rxok)
         /\ BlockGetAnswer(r).miss # {} /\ (BlockGetAnswer(r).miss = NoMissing => BlockGet(r).rxok)
<1>1. Good(r) /\ r.bnum = b /\ (r.tp = "waitChunk" \/ r.rxok) /\ r.bcur = b /\ Chunks(b) \subseteq Nat /\ 0 \in Chunks(b)
  BY Numbers DEF InBlock, Good
<1>2. CASE r.miss # {}
  <2>1. BlockGet(r) = r
    BY <1>2 DEF BlockGet
  <2>2. BlockGetAnswer(r).miss = IF r.miss = Chunks(b) THEN AllMissing ELSE r.miss \intersect Chunks(b)
    BY <1>1, <1>2 DEF BlockGetAnswer, BlockStatus, Answer
  <2>3. r.miss \subseteq Chunks(b)
    BY <1>1 DEF Good
  <2>4. AllMissing # {} /\ AllMissing # NoMissing /\ -2 \notin Nat
    <3>1. -1 # -2 /\ -2 \notin Nat
      OBVIOUS
    <3>2. -1 \in AllMissing /\ -1 \notin NoMissing
      BY <3>1 DEF AllMissing, NoMissing
    <3> QED
      BY <3>1, <3>2
  <2>5. BlockGetAnswer(r).miss # {} /\ BlockGetAnswer(r).miss # NoMissing
    BY <1>1, <1>2, <2>2, <2>3, <2>4 DEF NoMissing
  <2> QED
    BY <2>1, <2>5
<1>3. CASE r.miss = {}
  <2> DEFINE s == [r EXCEPT !.tp = IF RxOkCount(r) = NumBlocks THEN "complete" ELSE "waitBlock"]
  <2>1. r.rxok /\ r.tp # "waitChunk"
    BY <1>1, <1>3 DEF Good
  <2>2. [r EXCEPT !.sums[r.bnum] = IF ~r.rxok /\ @ = "none" THEN SumOf(r) ELSE @, !.rxok = TRUE] = r
    BY <2>1 DEF NodeStates
  <2>3. BlockGet(r) = s
    BY <1>1, <1>3, <2>2 DEF BlockGet, AllChunksRx, Transferring, Good
  <2>4. /\ s.bcur = r.bcur /\ s.bnum = r.bnum /\ s.miss = r.miss /\ s.rxok = r.rxok
        /\ s.tp \in {"waitBlock", "complete"}
        /\ s.up = r.up /\ s.busy = r.busy /\ s.begun = r.begun /\ s.sums = r.sums
        /\ s.crcDone = r.crcDone /\ s.flash = r.flash /\ s.reboot = r.reboot
    BY DEF NodeStates
  <2> HIDE DEF s
  <2>5. RxOkCount(s) = RxOkCount(r)
    BY <2>4 DEF RxOkCount
  <2>6. \A p \in Image : Stored(s, p) <=> Stored(r, p)
    BY <2>1, <2>4, <2>5 DEF Stored
  <2>7. Good(s)
    BY <1>1, <1>3, <2>1, <2>4, <2>5, <2>6 DEF Good
  <2>8. BlockGetAnswer(r).miss = NoMissing
    BY <1>1, <1>3 DEF BlockGetAnswer, BlockStatus, Answer
  <2> QED
    BY <1>1, <2>1, <2>3, <2>4, <2>7, <2>8 DEF InBlock, NoMissing
<1> QED
  BY <1>2, <1>3

\* A chunk that is missing goes to its place; the last one completes the block.
LEMMA ChunkInBlock ==
  ASSUME NEW r \in NodeStates, NEW b \in Blocks, InBlock(r, b), NEW c \in Chunks(b)
  PROVE  /\ InBlock(ChunkTransfer(r, b, c), b)
         /\ r.rxok => ChunkTransfer(r, b, c).rxok
<1>1. /\ Good(r) /\ r.bnum = b /\ (r.tp = "waitChunk" \/ r.rxok) /\ r.bcur = b /\ <<b, c>> \in Image
      /\ b \in Nat /\ b < NumBlocks
  BY Numbers, Positions DEF InBlock, Good
<1>2. CASE ~(r.tp = "waitChunk" /\ ChunkFits(r, b, c) /\ c \in r.miss)
  BY <1>2 DEF ChunkTransfer
<1>3. CASE r.tp = "waitChunk" /\ ChunkFits(r, b, c) /\ c \in r.miss
  <2> DEFINE s == [r EXCEPT !.miss = @ \ {c}, !.crcDone = "none",
                            !.flash[<<r.bnum, c>>] = IF @ \in {Erased, <<b, c>>} THEN <<b, c>> ELSE Spoilt]
  <2>1. ChunkTransfer(r, b, c) = IF s.miss = {} THEN AllChunksRx(s) ELSE s
    BY <1>3 DEF ChunkTransfer
  <2>2. ~r.rxok /\ RxOkCount(r) = b /\ ~Stored(r, <<b, c>>)
    BY <1>1, <1>3, RxOkCountType DEF Good, Stored
  <2>3. r.flash[<<b, c>>] = Erased
    BY <1>1, <2>2 DEF Good
  <2>4. /\ s.bcur = b /\ s.bnum = b /\ s.miss = r.miss \ {c} /\ s.rxok = FALSE /\ s.tp = "waitChunk"
        /\ s.up = r.up /\ s.busy = r.busy /\ s.begun = r.begun /\ s.sums = r.sums
        /\ s.crcDone = "none" /\ s.reboot = r.reboot
    BY <1>1, <1>3, <2>2 DEF NodeStates
  <2>5. \A p \in Image : s.flash[p] = IF p = <<b, c>> THEN p ELSE r.flash[p]
    BY <1>1, <2>3 DEF NodeStates
  <2>6. s.sums \in [Blocks -> {"none", "right", "wrong"}] /\ s \in NodeStates
    <3>1. r.flash \in [Image -> Image \union {Erased, Spoilt}]
      BY DEF NodeStates
    <3>2. s.flash \in [Image -> Image \union {Erased, Spoilt}]
      BY <1>1, <3>1 DEF NodeStates
    <3> QED
      BY <3>2 DEF NodeStates
  <2> HIDE DEF s
  <2>7. RxOkCount(s) = b
    BY <1>1, <2>4 DEF RxOkCount
  <2>8. \A p \in Image : s.flash[p] = IF p[1] < b \/ (p[1] = b /\ p[2] \notin s.miss) THEN p ELSE Erased
    <3>1. ASSUME NEW p \in Image, p = <<b, c>>
          PROVE  s.flash[p] = IF p[1] < b \/ (p[1] = b /\ p[2] \notin s.miss) THEN p ELSE Erased
      BY <2>4, <2>5, <3>1
    <3>2. ASSUME NEW p \in Image, p # <<b, c>>
          PROVE  s.flash[p] = IF p[1] < b \/ (p[1] = b /\ p[2] \notin s.miss) THEN p ELSE Erased
      <4>1. r.flash[p] = IF p[1] < b \/ (p[1] = b /\ p[2] \notin r.miss) THEN p ELSE Erased
        BY <1>1, <1>3, <2>2 DEF Good, Stored
      <4>2. ~(p[1] = b /\ p[2] = c)
        BY <3>2, Positions
      <4>3. p[1] = b => (p[2] \in s.miss <=> p[2] \in r.miss)
        BY <2>4, <4>2
      <4> QED
        BY <2>5, <3>2, <4>1, <4>3
    <3> QED
      BY <3>1, <3>2
  <2>9. CASE s.miss # {}
    <3>1. \A p \in Image : s.flash[p] = IF Stored(s, p) THEN p ELSE Erased
      BY <2>4, <2>7, <2>8 DEF Stored
    <3>2. Good(s)
      BY <1>1, <2>2, <2>4, <2>7, <2>9, <3>1 DEF Good
    <3> QED
      BY <2>1, <2>2, <2>4, <2>9, <3>2 DEF InBlock
  <2>10. CASE s.miss = {}
    <3> DEFINE t == [s EXCEPT !.sums[s.bnum] = IF ~s.rxok /\ @ = "none" THEN SumOf(s) ELSE @, !.rxok = TRUE]
               u == AllChunksRx(s)
    <3>1. s.sums[b] = "none"
      BY <1>1, <2>2, <2>4 DEF Good
    <3>2. SumOf(s) = "right"
      <4>1. \A d \in Chunks(b) : <<b, d>> \in Image
        BY Positions
      <4>2. \A d \in Chunks(b) : s.flash[<<b, d>>] = <<b, d>>
        BY <2>8, <2>10, <4>1
      <4> QED
        BY <2>4, <4>2 DEF SumOf
    <3>3. /\ t.bcur = b /\ t.bnum = b /\ t.miss = {} /\ t.rxok = TRUE
          /\ t.up = r.up /\ t.busy = r.busy /\ t.begun = r.begun
          /\ t.crcDone = "none" /\ t.reboot = r.reboot /\ t.flash = s.flash
      BY <2>4, <2>6, <2>10 DEF NodeStates
    <3>4. t.sums = [s.sums EXCEPT ![b] = "right"] /\ t \in NodeStates
      <4>1. t.sums = [s.sums EXCEPT ![b] = "right"]
        BY <2>4, <2>6, <3>1, <3>2 DEF NodeStates
      <4>2. t.sums \in [Blocks -> {"none", "right", "wrong"}]
        BY <2>6, <4>1
      <4> QED
        BY <2>6, <4>1, <4>2 DEF NodeStates
    <3>5. u = [t EXCEPT !.tp = IF RxOkCount(t) = NumBlocks THEN "complete" ELSE "waitBlock"]
      BY DEF AllChunksRx
    <3> HIDE DEF t, u
    <3>6. /\ u.bcur = b /\ u.bnum = b /\ u.miss = {} /\ u.rxok = TRUE /\ u.tp \in {"waitBlock", "complete"}
          /\ u.up = r.up /\ u.busy = r.busy /\ u.begun = r.begun
          /\ u.crcDone = "none" /\ u.reboot = r.reboot /\ u.flash = s.flash /\ u.sums = t.sums
      BY <3>3, <3>4, <3>5 DEF NodeStates
    <3>7. RxOkCount(u) = b + 1
      BY <1>1, <3>6 DEF RxOkCount
    <3>8. \A d \in Blocks : u.sums[d] = IF d < b + 1 THEN "right" ELSE "none"
      <4>1. \A d \in Blocks : s.sums[d] = IF d < b THEN "right" ELSE "none"
        BY <1>1, <2>2, <2>4 DEF Good
      <4>2. \A d \in Blocks : d \in Nat
        BY Numbers
      <4> QED
        BY <1>1, <2>6, <3>4, <3>6, <4>1, <4>2
    <3>9. \A p \in Image : u.flash[p] = IF Stored(u, p) THEN p ELSE Erased
      <4>1. \A p \in Image : p[1] \in Nat
        BY Positions, Numbers
      <4>2. ASSUME NEW p \in Image PROVE Stored(u, p) <=> (p[1] < b \/ p[1] = b)
        BY <1>1, <3>6, <3>7, <4>1 DEF Stored
      <4>3. ASSUME NEW p \in Image PROVE s.flash[p] = IF p[1] < b \/ p[1] = b THEN p ELSE Erased
        BY <2>8, <2>10
      <4> QED
        BY <3>6, <4>2, <4>3
    <3>10. Good(u)
      BY <1>1, <3>6, <3>7, <3>8, <3>9 DEF Good
    <3> QED
      BY <2>1, <2>10, <3>6, <3>10 DEF u, InBlock
  <2> QED
    BY <2>9, <2>10
<1> QED
  BY <1>2, <1>3

\* A node that has every block is verified by the question of its state.
LEMMA UpdateGetVerifies ==
  ASSUME NEW r \in NodeStates, Due(r, NumBlocks) \/ Verified(r)
  PROVE  Verified(UpdateGet(r))
<1>1. CASE Due(r, NumBlocks)
  <2> DEFINE s == [r EXCEPT !.crcDone = "ok", !.up = "verified"]
  <2>1. Good(r) /\ RxOkCount(r) = NumBlocks /\ r.busy /\ r.crcDone = "none" /\ Transferring(r)
    BY <1>1 DEF Due, Good, Transferring
  <2>2. \A b \in Blocks : b < NumBlocks
    BY Numbers
  <2>3. CrcDone(r) = "ok"
    BY <2>1, <2>2 DEF CrcDone, Good
  <2>4. UpdateGet(r) = s
    BY <2>1, <2>3 DEF UpdateGet
  <2>5. /\ s.up = "verified" /\ s.crcDone = "ok" /\ s.busy = r.busy /\ s.tp = r.tp /\ s.bnum = r.bnum
        /\ s.rxok = r.rxok /\ s.reboot = r.reboot /\ s.flash = r.flash
    BY DEF NodeStates
  <2> HIDE DEF s
  <2>6. \A p \in Image : Stored(r, p)
    BY <2>1, <2>2, Positions DEF Stored
  <2>7. Whole(s)
    BY <2>1, <2>5, <2>6 DEF Good, Whole
  <2> QED
    BY <2>1, <2>4, <2>5, <2>7 DEF Verified, Transferring, RxOkCount, Good
<1>2. CASE Verified(r)
  <2>1. UpdateGet(r) = [r EXCEPT !.crcDone = "ok", !.up = "verified"]
    BY <1>2 DEF UpdateGet, CrcDone, Verified
  <2>2. [r EXCEPT !.crcDone = "ok", !.up = "verified"] = r
    BY <1>2 DEF NodeStates, Verified
  <2> QED
    BY <1>2, <2>1, <2>2
<1> QED
  BY <1>1, <1>2

\* A verified node applies the image, and a repeated command finds it about to restart.
LEMMA ApplyReboots ==
  ASSUME NEW r \in NodeStates, Sound(r), Verified(r) \/ Rebooting(r)
  PROVE  Rebooting(UpdateApply(r))
<1> DEFINE q == [r EXCEPT !.crcDone = "ok"]
           k == KeepStartAndCrc(q)
           s == [k EXCEPT !.up = "applying", !.reboot = "success"]
<1>1. CanApply(r) /\ CrcDone(r) = "ok" /\ Whole(r) /\ r.crcDone = "ok"
  BY DEF Verified, Rebooting, CanApply, CrcDone
<1>2. UpdateApply(r) = s
  BY <1>1 DEF UpdateApply
<1>3. q = r
  BY <1>1 DEF NodeStates
<1> HIDE DEF q
<1>4. k \in NodeStates /\ k.flash = r.flash
  BY <1>3, ClearedOK
<1>5. k.crcDone = "ok"
  <2>1. Cleared(r) \in NodeStates
    BY ClearedOK
  <2> DEFINE z == Cleared(r)
  <2>2. KeepStartAndCrc(r) = [z EXCEPT !.begun = r.begun, !.crcDone = IF r.crcDone = "ok" THEN "ok" ELSE "none"]
    BY DEF KeepStartAndCrc
  <2> HIDE DEF z
  <2> QED
    BY <1>1, <1>3, <2>1, <2>2 DEF NodeStates, z
<1> HIDE DEF k
<1>6. s.up = "applying" /\ s.reboot = "success" /\ s.crcDone = "ok" /\ s.flash = r.flash
  BY <1>4, <1>5 DEF NodeStates
<1> QED
  BY <1>1, <1>2, <1>6 DEF Rebooting, Whole

-----------------------------------------------------------------------------
(* The answers under way *)

\* An answer under way is one, it may be the first, and one that comes is the last.
LEMMA UnderType ==
  ASSUME NodesOK, NEW i \in 1 .. Cnt
  PROVE  /\ \A e \in Under(i) : e \in Entries
         /\ back[Nodes[i]] # <<>> => Head(back[Nodes[i]]) \in Under(i)
<1>1. back[Nodes[i]] \in Seq(Entries)
  BY ListOnce DEF NodesOK
<1> QED
  BY <1>1 DEF Under

\* The others' stay.
LEMMA UnderSame ==
  ASSUME NEW i \in 1 .. Cnt, back'[Nodes[i]] = back[Nodes[i]]
  PROVE  Under(i)' = Under(i)
BY DEF Under

\* After one arrived, none is new.
LEMMA UnderTail ==
  ASSUME NodesOK, NEW i \in 1 .. Cnt, back[Nodes[i]] # <<>>, back'[Nodes[i]] = Tail(back[Nodes[i]])
  PROVE  Under(i)' \subseteq Under(i)
<1>1. back[Nodes[i]] \in Seq(Entries)
  BY ListOnce DEF NodesOK
<1> QED
  BY <1>1 DEF Under

\* After a command was answered, one is.
LEMMA UnderAppend ==
  ASSUME NodesOK, NEW i \in 1 .. Cnt, NEW e \in Entries, back'[Nodes[i]] = Append(back[Nodes[i]], e)
  PROVE  Under(i)' \subseteq Under(i) \union {e}
<1>1. back[Nodes[i]] \in Seq(Entries)
  BY ListOnce DEF NodesOK
<1> QED
  BY <1>1 DEF Under

\* The order of the states is a number.
LEMMA OrderType == \A s : Order(s) \in 1 .. 10
BY DEF Order

\* How the gateway goes from state to state.
Moves ==
    \/ st' = "idle"
    \/ st' = st /\ block' = block /\ (st \in Once => at' >= at)
    \/ block' = block /\ Order(st') > Order(st)
    \/ block' = block /\ {st, st'} \subseteq {"chunkStart", "blockGet"}
    \/ block' > block

\* A gateway that sends nothing leaves no state to which an answer to come belongs.
LEMMA MovesKnown ==
  ASSUME DistrInv, SafeInv', Moves, st # "idle", ~wait, back' = back, starts' = starts,
         \A i \in 1 .. Cnt : list'[i].applied = list[i].applied
  PROVE  KnownOK'
<1> SUFFICES ASSUME NEW i \in 1 .. Cnt, NEW e \in Under(i)' PROVE Known(i, e)'
  BY DEF KnownOK
<1>1. e \in Under(i) /\ Known(i, e)
  <2>1. Under(i)' = Under(i)
    BY UnderSame
  <2> QED
    BY <2>1 DEF DistrInv, KnownOK
<1>2. /\ e.of \in Moments /\ starts \in Nat /\ block \in 0 .. NumBlocks /\ block' \in 0 .. NumBlocks
      /\ at \in Nat /\ at' \in Nat /\ NumBlocks \in Nat
  <2>1. e \in Entries /\ starts \in Nat
    BY <1>1, UnderType DEF DistrInv, SafeInv, CountsTyped
  <2>2. block \in 0 .. NumBlocks /\ block' \in 0 .. NumBlocks /\ at \in 1 .. Cnt + 1 /\ at' \in 1 .. Cnt + 1
    BY DEF DistrInv, SafeInv, GatewayTyped
  <2> QED
    BY <2>1, <2>2, ListOnce, Numbers DEF Entries
<1>3. /\ e.of[1] \in Nat /\ e.of[3] \in 0 .. NumBlocks
      /\ Order(e.of[2]) \in Nat /\ Order(st) \in Nat /\ Order(st') \in Nat
  BY <1>2, OrderType DEF Moments
<1>4. e.of[1] <= starts'
  BY <1>1 DEF Known
<1>5. ASSUME st' # "idle", e.of[1] = starts'
      PROVE  /\ e.answer.kind = KindOf(e.of[2])
             /\ e.of[3] < block' \/ (e.of[3] = block' /\ Order(e.of[2]) <= Order(st'))
  <2>1. /\ e.answer.kind = KindOf(e.of[2])
        /\ e.of[3] < block \/ (e.of[3] = block /\ Order(e.of[2]) <= Order(st))
    BY <1>1, <1>5 DEF Known
  <2>2. CASE block' = block /\ Order(st') >= Order(st)
    BY <1>2, <1>3, <2>1, <2>2
  <2>3. CASE block' > block
    BY <1>2, <1>3, <2>1, <2>3
  <2>4. {st, st'} \subseteq {"chunkStart", "blockGet"} => Order(st') >= Order(st)
    BY DEF Order
  <2>5. st' = st => Order(st') >= Order(st)
    BY <1>3
  <2> QED
    BY <1>3, <1>5, <2>2, <2>3, <2>4, <2>5 DEF Moves
<1>6. ASSUME e.of = Current' PROVE /\ st' \in Once => at' > i \/ (wait' /\ at' = i)
                                   /\ st' = "apply" => list'[i].applied
  <2>1. e.of[1] = starts /\ e.of[2] = st' /\ e.of[3] = block'
    BY <1>6 DEF Current
  <2>2. block' < block \/ (block' = block /\ Order(st') <= Order(st))
    BY <1>1, <2>1 DEF Known
  <2>3. CASE st' = "idle"
    BY <2>3 DEF Once
  <2>4. CASE st' = st /\ block' = block /\ (st \in Once => at' >= at)
    <3>1. e.of = Current
      BY <1>6, <2>4 DEF Current
    <3>2. /\ st \in Once => at > i
          /\ st = "apply" => list[i].applied
      BY <1>1, <3>1 DEF Known
    <3> QED
      BY <1>2, <2>4, <3>2
  <2>5. CASE block' = block /\ Order(st') > Order(st)
    BY <1>2, <1>3, <2>2, <2>5
  <2>6. CASE block' = block /\ {st, st'} \subseteq {"chunkStart", "blockGet"}
    BY <2>6 DEF Once
  <2>7. CASE block' > block
    BY <1>2, <1>3, <2>2, <2>7
  <2> QED
    BY <2>3, <2>4, <2>5, <2>6, <2>7 DEF Moves
<1> QED
  BY <1>4, <1>5, <1>6 DEF Known

\* What is under way about the missing chunks stays true.
LEMMA MovesMissed ==
  ASSUME DistrInv, st # "idle", ~wait', starts' = starts, NEW i \in 1 .. Cnt,
         Nodes[i] \in plain, back'[Nodes[i]] = back[Nodes[i]], list'[i].skip = list[i].skip,
         node[Nodes[i]].rxok => node'[Nodes[i]].rxok,
         st' \in {"chunkStart", "blockGet"} =>
             block' = block /\ (st \in {"chunkStart", "blockGet"} \/ Order(st) < 7)
  PROVE  AnswersOK(i)'
<1> SUFFICES ASSUME NEW e \in Under(i)', st' \in {"chunkStart", "blockGet"}, ~list'[i].skip,
                    e.of = <<starts, "blockGet", block'>>
             PROVE  Missed(i, e.answer)'
  BY DEF AnswersOK
<1>1. e \in Under(i) /\ Known(i, e) /\ AnswersOK(i)
  <2>1. Under(i)' = Under(i)
    BY UnderSame
  <2> QED
    BY <2>1 DEF DistrInv, KnownOK, ReceiversOK, ReceiverOK
<1>2. e.of = <<starts, "blockGet", block>> /\ e.of[1] = starts /\ e.of[2] = "blockGet" /\ e.of[3] = block
  OBVIOUS
<1>3. st \in {"chunkStart", "blockGet"}
  <2>1. block < block \/ Order("blockGet") <= Order(st)
    BY <1>1, <1>2 DEF Known
  <2>2. Order("blockGet") = 7 /\ Order(st) \in Nat /\ block \in Nat
    BY OrderType, Numbers DEF Order, DistrInv, SafeInv, GatewayTyped
  <2> QED
    BY <2>1, <2>2
<1>4. Missed(i, e.answer)
  BY <1>1, <1>2, <1>3 DEF AnswersOK
<1> QED
  BY <1>4 DEF Missed

-----------------------------------------------------------------------------
(* The steps of a gateway that sends nothing *)

\* What they keep of a receiver, once its stage is right.
LEMMA ReadyReceiver ==
  ASSUME DistrInv, SafeInv', ReadyOnly, NEW i \in 1 .. Cnt, Nodes[i] \in plain,
         list'[i].skip = list[i].skip, list'[i].phase = list[i].phase, list'[i].applied = list[i].applied,
         st = "updateGet" => st' \in {"apply", "cancel"} \/ (st' = st /\ at' >= at),
         st \in {"apply", "cancel"} => st' \in {"apply", "cancel"},
         st' \in {"chunkStart", "blockGet"} =>
             block' = block /\ (st \in {"chunkStart", "blockGet"} \/ Order(st) < 7),
         ~list[i].skip /\ Stage(i) => Stage(i)'
  PROVE  ReceiverOK(i)'
<1>1. /\ st # "idle" /\ ~wait /\ ~wait' /\ back' = back /\ node' = node /\ starts' = starts /\ plain' = plain
      /\ at \in Nat /\ at' \in Nat
  BY ListOnce DEF ReadyOnly, Ready, history, DistrInv, SafeInv, GatewayTyped
<1>2. (~list[i].skip => Stage(i)) /\ PhaseOK(i)
  BY <1>1 DEF DistrInv, ReceiversOK, ReceiverOK
<1>3. PhaseOK(i)'
  BY <1>1, <1>2 DEF PhaseOK
<1>4. AnswersOK(i)'
  BY <1>1, MovesMissed
<1> QED
  BY <1>2, <1>3, <1>4 DEF ReceiverOK

\* The gateway passes a receiver.
LEMMA PassKeeps ==
  ASSUME DistrInv, PassReceiver \/ PassApplied
  PROVE  DistrInv'
<1>1. SafeInv' /\ SafeInv /\ GatewayTyped
  BY PassSafe DEF DistrInv, SafeInv
<1>2. /\ ReadyOnly /\ st # "idle" /\ ~wait /\ ~wait' /\ back' = back /\ starts' = starts /\ node' = node
      /\ updated' = updated /\ plain' = plain
      /\ at' = at + 1 /\ at <= Cnt /\ UNCHANGED <<st, block, missing, list>>
  BY DEF ReadyOnly, PassReceiver, PassApplied, InRound, Ready, history
<1>3. at \in Nat /\ Current' = Current
  BY <1>1, <1>2 DEF GatewayTyped, Current
<1>4. KnownOK'
  BY <1>1, <1>2, <1>3, MovesKnown DEF Moves
<1>5. ASSUME NEW i \in 1 .. Cnt PROVE ReceiverOK(i)'
  <2>1. CASE Nodes[i] \notin plain
    BY <1>2, <2>1 DEF ReceiverOK
  <2>2. CASE Nodes[i] \in plain
    <3>1. ASSUME ~list[i].skip, Stage(i) PROVE Stage(i)'
      <4>1. CASE st = "apply"
        BY <1>2, <3>1, <4>1 DEF Stage, Applied
      <4>2. CASE st # "apply"
        <5>1. at = i => st = "blockGet" /\ list[i].noMissing
          BY <3>1, <4>2 DEF PassReceiver, PassApplied, Passed
        <5>2. (at' > i) <=> (at > i \/ at = i)
          BY <1>2, <1>3
        <5> QED
          BY <1>2, <3>1, <4>2, <5>1, <5>2 DEF Stage, Applied
      <4> QED
        BY <4>1, <4>2
    <3> QED
      BY <1>1, <1>2, <1>3, <2>2, <3>1, ReadyReceiver
  <2> QED
    BY <2>1, <2>2
<1> QED
  BY <1>1, <1>4, <1>5 DEF DistrInv, ReceiversOK

\* The next block: every receiver that is not skipped is known to have the one before.
LEMMA NextBlockKeeps ==
  ASSUME DistrInv, ReadyOnly, NextBlock,
         \/ st = "checkResult" /\ \A i \in 1 .. Cnt : ~list[i].started
         \/ st = "blockGet" /\ missing = {} /\ at > Cnt
  PROVE  DistrInv'
<1>1. SafeInv' /\ SafeInv /\ GatewayTyped /\ PlaceOK /\ NodesOK
  BY NextBlockSafe DEF DistrInv, SafeInv
<1>2. /\ st # "idle" /\ ~wait /\ ~wait' /\ back' = back /\ starts' = starts /\ node' = node
      /\ updated' = updated /\ plain' = plain /\ st' = "blockStart" /\ block' = block + 1 /\ at' = 1
  BY DEF ReadyOnly, Ready, NextBlock, history
<1>3. \A i \in 1 .. Cnt : /\ list'[i].applied = list[i].applied /\ list'[i].skip = list[i].skip
                          /\ list'[i].phase = list[i].phase
  BY <1>1 DEF GatewayTyped, Receivers, NextBlock
<1>4. block \in Blocks /\ block \in Nat /\ block' > block
  BY <1>1, <1>2, Numbers DEF PlaceOK
<1>5. KnownOK'
  BY <1>1, <1>2, <1>3, <1>4, MovesKnown DEF Moves
<1>6. ASSUME NEW i \in 1 .. Cnt PROVE ReceiverOK(i)'
  <2>1. CASE Nodes[i] \notin plain
    BY <1>2, <2>1 DEF ReceiverOK
  <2>2. CASE Nodes[i] \in plain
    <3>1. ASSUME ~list[i].skip, Stage(i) PROVE Stage(i)'
      <4>1. ~(at' > i) /\ (at > Cnt => at > i) /\ at \in Nat
        BY <1>1, <1>2, ListOnce DEF GatewayTyped
      <4>2. st = "blockGet"
        BY <3>1 DEF Stage
      <4>3. InBlock(node[Nodes[i]], block) /\ node[Nodes[i]].rxok
        BY <3>1, <4>1, <4>2 DEF Stage
      <4>4. Due(node[Nodes[i]], block + 1)
        BY <1>1, <1>4, <4>3, CompleteIsDue, ListOnce DEF NodesOK
      <4> QED
        BY <1>2, <4>1, <4>4 DEF Stage
    <3> QED
      BY <1>1, <1>2, <1>3, <2>2, <3>1, ReadyReceiver
  <2> QED
    BY <2>1, <2>2
<1> QED
  BY <1>1, <1>5, <1>6 DEF DistrInv, ReceiversOK

\* The end of a round.
LEMMA EndRoundKeeps ==
  ASSUME DistrInv, EndRound
  PROVE  DistrInv'
<1>1. SafeInv' /\ SafeInv /\ GatewayTyped /\ PlaceOK /\ NodesOK
  BY EndRoundSafe DEF DistrInv, SafeInv
<1>2. /\ ReadyOnly /\ st # "idle" /\ ~wait /\ ~wait' /\ back' = back /\ starts' = starts /\ node' = node
      /\ updated' = updated /\ plain' = plain
  BY DEF EndRound, InRound, ReadyOnly, Ready, history
<1>3. at > Cnt /\ \A i \in 1 .. Cnt : at > i
  BY <1>1, ListOnce DEF EndRound, GatewayTyped
<1>4. CASE st = "blockGet" /\ missing = {}
  BY <1>2, <1>3, <1>4, NextBlockKeeps DEF EndRound
<1>5. CASE ~(st = "blockGet" /\ missing = {})
  <2>1. block' = block /\ missing' = missing /\ list' = list
    BY <1>5 DEF EndRound
  <2>2. \/ st \in {"query", "updateStart", "transferGet", "transferStart", "updateGet"} /\ st' = After(st) /\ at' = 1
        \/ st = "blockStart" /\ st' = "checkResult" /\ at' = at
        \/ st = "blockGet" /\ missing # {} /\ st' = "chunkStart" /\ at' = at
    BY <1>5 DEF EndRound, InRound, Rounds
  <2>3. \/ block' = block /\ Order(st') > Order(st)
        \/ block' = block /\ {st, st'} \subseteq {"chunkStart", "blockGet"}
    <3>1. CASE st \in {"query", "updateStart", "transferGet", "transferStart", "updateGet"} /\ st' = After(st)
      BY <2>1, <3>1 DEF After, Order
    <3>2. CASE st = "blockStart" /\ st' = "checkResult"
      BY <2>1, <3>2 DEF Order
    <3> QED
      BY <2>1, <2>2, <3>1, <3>2
  <2>4. KnownOK'
    BY <1>1, <1>2, <2>1, <2>3, MovesKnown DEF Moves
  <2>5. ASSUME NEW i \in 1 .. Cnt PROVE ReceiverOK(i)'
    <3>1. CASE Nodes[i] \notin plain
      BY <1>2, <3>1 DEF ReceiverOK
    <3>2. CASE Nodes[i] \in plain
      <4>1. ASSUME ~list[i].skip, Stage(i) PROVE Stage(i)'
        <5> DEFINE r == node[Nodes[i]]
        <5>1. at > i /\ ~AllSkipped
          BY <1>3, <4>1 DEF AllSkipped
        <5>2. CASE st \in {"query", "updateStart", "transferGet"}
          <6>1. st' \in {"updateStart", "transferGet", "transferStart"} /\ ~(at' > i)
                /\ (st = "query" => st' = "updateStart") /\ (st = "updateStart" => st' = "transferGet")
                /\ (st = "transferGet" => st' = "transferStart")
            BY <2>2, <5>2 DEF After
          <6> QED
            BY <1>2, <4>1, <5>1, <5>2, <6>1 DEF Stage
        <5>3. CASE st = "transferStart"
          <6>1. st' = "blockStart" /\ ~(at' > i) /\ block = 0
            BY <1>1, <2>2, <5>1, <5>3 DEF After, PlaceOK
          <6>2. r = Armed
            BY <4>1, <5>1, <5>3 DEF Stage
          <6> QED
            BY <1>2, <2>1, <6>1, <6>2, ArmedDue DEF Stage
        <5>4. CASE st = "updateGet"
          <6>1. st' = "apply" /\ ~list[i].applied
            BY <1>1, <2>2, <5>1, <5>4 DEF After, PlaceOK
          <6> QED
            BY <1>2, <2>1, <4>1, <5>1, <5>4, <6>1 DEF Stage
        <5>5. CASE st = "blockStart"
          BY <1>2, <2>1, <2>2, <4>1, <5>1, <5>5 DEF Stage
        <5>6. CASE st = "blockGet"
          BY <1>2, <2>1, <2>2, <4>1, <5>1, <5>6 DEF Stage
        <5> QED
          BY <2>2, <5>2, <5>3, <5>4, <5>5, <5>6
      <4>2. /\ st = "updateGet" => st' \in {"apply", "cancel"}
            /\ st \notin {"apply", "cancel"}
            /\ st' \in {"chunkStart", "blockGet"} => st = "blockGet"
        BY <2>2 DEF After
      <4> QED
        BY <1>1, <1>2, <2>1, <3>2, <4>1, <4>2, ReadyReceiver
    <3> QED
      BY <3>1, <3>2
  <2> QED
    BY <1>1, <2>4, <2>5 DEF DistrInv, ReceiversOK
<1> QED
  BY <1>4, <1>5

\* The other steps that send nothing.
LEMMA CheckResultKeeps ==
  ASSUME DistrInv, CheckResult
  PROVE  DistrInv'
<1>1. SafeInv' /\ SafeInv /\ GatewayTyped /\ PlaceOK /\ NodesOK
  BY OtherReadySafe DEF DistrInv, SafeInv
<1>2. /\ ReadyOnly /\ st = "checkResult" /\ ~wait /\ ~wait' /\ back' = back /\ starts' = starts /\ node' = node
      /\ updated' = updated /\ plain' = plain
  BY DEF CheckResult, ReadyOnly, Ready, history
<1>3. CASE NextBlock /\ \A i \in 1 .. Cnt : ~list[i].started
  BY <1>2, <1>3, NextBlockKeeps
<1>4. CASE st' = "chunkStart" /\ UNCHANGED <<at, block, list>>
  <2>1. block' = block /\ Order(st') > Order(st) /\ Order(st) < 7
    BY <1>2, <1>4 DEF Order
  <2>2. KnownOK'
    BY <1>1, <1>2, <1>4, <2>1, MovesKnown DEF Moves
  <2>3. ASSUME NEW i \in 1 .. Cnt PROVE ReceiverOK(i)'
    <3>1. CASE Nodes[i] \notin plain
      BY <1>2, <3>1 DEF ReceiverOK
    <3>2. CASE Nodes[i] \in plain
      <4>1. ASSUME ~list[i].skip, Stage(i) PROVE Stage(i)'
        <5>1. Begun(node[Nodes[i]], block) /\ ~list[i].noMissing /\ block \in Blocks /\ node[Nodes[i]] \in NodeStates
          BY <1>1, <1>2, <4>1, ListOnce DEF Stage, PlaceOK, NodesOK
        <5>2. InBlock(node[Nodes[i]], block)
          BY <5>1, BegunIsDue
        <5> QED
          BY <1>2, <1>4, <5>1, <5>2 DEF Stage
      <4> QED
        BY <1>1, <1>2, <1>4, <2>1, <3>2, <4>1, ReadyReceiver
    <3> QED
      BY <3>1, <3>2
  <2> QED
    BY <1>1, <2>2, <2>3 DEF DistrInv, ReceiversOK
<1> QED
  BY <1>3, <1>4 DEF CheckResult

\* The last block is through, or a round of applying ends.
LEMMA LastKeeps ==
  ASSUME DistrInv, LastBlock \/ EndApply
  PROVE  DistrInv'
<1>1. SafeInv' /\ SafeInv /\ GatewayTyped /\ PlaceOK /\ NodesOK
  BY OtherReadySafe DEF DistrInv, SafeInv
<1>2. /\ ReadyOnly /\ ~wait /\ ~wait' /\ back' = back /\ starts' = starts /\ node' = node /\ st # "idle"
      /\ updated' = updated /\ plain' = plain /\ at' = 1 /\ block' = block /\ list' = list /\ missing' = missing
      /\ \/ st = "blockStart" /\ block = NumBlocks /\ st' = "updateGet"
         \/ st = "apply" /\ st' = "apply"
         \/ st = "apply" /\ st' = "cancel" /\ NotApplied = 0
  BY DEF LastBlock, EndApply, ReadyOnly, Ready, history
<1>3. block' = block /\ ((st' = st /\ st \notin Once) \/ Order(st') > Order(st))
  BY <1>2 DEF Order, Once
<1>4. KnownOK'
  BY <1>1, <1>2, <1>3, MovesKnown DEF Moves
<1>5. st' = "cancel" => \A i \in 1 .. Cnt : list[i].applied
  <2>1. ASSUME NotApplied = 0 PROVE \A i \in 1 .. Cnt : list[i].applied
    <3> DEFINE S == {i \in 1 .. Cnt : ~list[i].applied}
    <3>1. IsFiniteSet(1 .. Cnt)
      BY ListOnce, FS_Interval
    <3>2. IsFiniteSet(S)
      BY <3>1, FS_Subset
    <3>3. S = {}
      BY <2>1, <3>2, FS_EmptySet DEF NotApplied
    <3> QED
      BY <3>3
  <2> QED
    BY <1>2, <2>1
<1>6. ASSUME NEW i \in 1 .. Cnt PROVE ReceiverOK(i)'
  <2>1. CASE Nodes[i] \notin plain
    BY <1>2, <2>1 DEF ReceiverOK
  <2>2. CASE Nodes[i] \in plain
    <3>1. ASSUME ~list[i].skip, Stage(i) PROVE Stage(i)'
      <4>1. ~(at' > i)
        BY <1>2
      <4>2. CASE st = "blockStart"
        BY <1>2, <3>1, <4>1, <4>2 DEF Stage
      <4>3. CASE st = "apply" /\ st' = "apply"
        BY <1>2, <3>1, <4>3 DEF Stage, Applied
      <4>4. CASE st = "apply" /\ st' = "cancel"
        BY <1>2, <1>5, <3>1, <4>4 DEF Stage, Applied
      <4> QED
        BY <1>2, <4>2, <4>3, <4>4
    <3> QED
      BY <1>1, <1>2, <2>2, <3>1, ReadyReceiver
  <2> QED
    BY <2>1, <2>2
<1> QED
  BY <1>1, <1>4, <1>6 DEF DistrInv, ReceiversOK

\* The gateway reports, and the distribution is over.
LEMMA ReportKeeps ==
  ASSUME DistrInv, Report
  PROVE  DistrInv'
<1>1. SafeInv'
  BY OtherReadySafe DEF DistrInv, SafeInv
<1>2. st # "idle" /\ ~wait /\ back' = back /\ starts' = starts /\ st' = "idle"
  BY DEF Report, Ready, Cleaned
<1>3. ReceiversOK'
  BY <1>2 DEF ReceiversOK, ReceiverOK
<1>4. KnownOK'
  <2> SUFFICES ASSUME NEW i \in 1 .. Cnt, NEW e \in Under(i)' PROVE Known(i, e)'
    BY DEF KnownOK
  <2>1. Known(i, e)
    BY <1>2, UnderSame DEF DistrInv, KnownOK
  <2> QED
    BY <1>2, <2>1 DEF Known, Once
<1> QED
  BY <1>1, <1>3, <1>4 DEF DistrInv

\* A chunk goes to the group.
LEMMA SendChunkKeeps ==
  ASSUME DistrInv, SendChunk
  PROVE  DistrInv'
<1>1. SafeInv' /\ SafeInv /\ GatewayTyped /\ PlaceOK /\ NodesOK
  BY SendChunkSafe DEF DistrInv, SafeInv
<1>2. /\ st = "chunkStart" /\ ~wait /\ wait' = wait /\ back' = back /\ starts' = starts
      /\ updated' = updated /\ plain' = plain /\ block' = block /\ list' = list
      /\ st' \in {"chunkStart", "blockGet"} /\ (st' = "blockGet" => at' = 1)
  BY DEF SendChunk, Ready, history
<1>3. KnownOK'
  BY <1>1, <1>2, MovesKnown DEF Moves
<1>4. block \in Blocks
  BY <1>1, <1>2 DEF PlaceOK
<1>5. ASSUME NEW n \in Node, InBlock(node[n], block)
      PROVE  InBlock(node'[n], block) /\ (node[n].rxok => node'[n].rxok)
  <2>1. PICK out \in SUBSET Node :
          node' = [m \in Node |-> IF m \in out \/ NextChunk = {} THEN node[m]
                                  ELSE ChunkTransfer(node[m], block, CHOOSE c \in NextChunk : TRUE)]
    BY DEF SendChunk
  <2>2. CASE n \in out \/ NextChunk = {}
    BY <1>5, <2>1, <2>2
  <2>3. CASE ~(n \in out \/ NextChunk = {})
    <3> DEFINE c == CHOOSE c \in NextChunk : TRUE
    <3>1. c \in Chunks(block)
      BY <2>3 DEF NextChunk, ToSend
    <3>2. node'[n] = ChunkTransfer(node[n], block, c)
      BY <2>1, <2>3
    <3> HIDE DEF c
    <3>3. node[n] \in NodeStates
      BY <1>1 DEF NodesOK
    <3> QED
      BY <1>4, <1>5, <3>1, <3>2, <3>3, ChunkInBlock
  <2> QED
    BY <2>2, <2>3
<1>6. ASSUME NEW i \in 1 .. Cnt PROVE ReceiverOK(i)'
  <2>1. CASE Nodes[i] \notin plain
    BY <1>2, <2>1 DEF ReceiverOK
  <2>2. CASE Nodes[i] \in plain /\ list[i].skip
    <3>1. PhaseOK(i)'
      BY <1>2, <2>2 DEF PhaseOK, DistrInv, ReceiversOK, ReceiverOK
    <3>2. AnswersOK(i)'
      BY <1>2, <2>2 DEF AnswersOK
    <3> QED
      BY <1>2, <2>2, <3>1, <3>2 DEF ReceiverOK
  <2>3. CASE Nodes[i] \in plain /\ ~list[i].skip
    <3>1. Stage(i) /\ PhaseOK(i)
      BY <1>2, <2>3 DEF DistrInv, ReceiversOK, ReceiverOK
    <3>2. InBlock(node[Nodes[i]], block) /\ (list[i].noMissing => node[Nodes[i]].rxok)
      BY <1>2, <3>1 DEF Stage
    <3>3. InBlock(node'[Nodes[i]], block) /\ (node[Nodes[i]].rxok => node'[Nodes[i]].rxok)
      BY <1>5, <3>2, ListOnce
    <3>4. Stage(i)'
      BY <1>2, <3>2, <3>3 DEF Stage
    <3>5. PhaseOK(i)'
      BY <1>2, <3>1 DEF PhaseOK
    <3>6. AnswersOK(i)'
      BY <1>2, <2>3, <3>3, MovesMissed
    <3> QED
      BY <3>4, <3>5, <3>6 DEF ReceiverOK
  <2> QED
    BY <2>1, <2>2, <2>3
<1> QED
  BY <1>1, <1>3, <1>6 DEF DistrInv, ReceiversOK

-----------------------------------------------------------------------------
(* The command to the receiver at hand *)

\* Where the receiver is that a state asks, once or again.
Here(i) == IF st = "apply" THEN Verified(node[Nodes[i]]) \/ Applied(Nodes[i]) ELSE Stage(i)

\* The gateway waits for the receiver at hand, which may have handled the command of its state.
Asked(i, handled) ==
    /\ i \in 1 .. Cnt /\ at = i /\ ~list[i].skip /\ st \in Rounds /\ Here(i)
    /\ st \in {"blockStart", "blockGet"} => block \in Blocks
    /\ UNCHANGED <<st, at, block, updated>> /\ wait' = TRUE /\ cmd'.op = st
    /\ node'[Nodes[i]] = IF handled THEN Handled(st, node[Nodes[i]], block) ELSE node[Nodes[i]]
    /\ list'[i].skip = list[i].skip /\ list'[i].noMissing = list[i].noMissing
    /\ list'[i].phase = list[i].phase /\ list'[i].started = list[i].started
    /\ st = "apply" => list'[i].applied

\* The receiver at hand stays where the state has it, its command handled or not.
LEMMA AskedStage ==
  ASSUME NodesOK, NEW i, NEW handled \in BOOLEAN, Asked(i, handled)
  PROVE  /\ Stage(i)'
         /\ st = "blockGet" => (node[Nodes[i]].rxok => node'[Nodes[i]].rxok)
<1> DEFINE n == Nodes[i]
           r == node[n]
           s == node'[n]
<1>1. /\ i \in 1 .. Cnt /\ n \in Node /\ r \in NodeStates /\ Sound(r) /\ ~(at > i) /\ ~(at' > i)
      /\ UNCHANGED <<st, at, block, updated>> /\ wait' = TRUE /\ at = i
  BY ListOnce DEF Asked, NodesOK
<1>2. s = IF handled THEN Handled(st, r, block) ELSE r
  BY DEF Asked
<1>3. CASE st = "query"
  <2>1. s = r
    BY <1>2, <1>3 DEF Handled
  <2> QED
    BY <1>1, <1>3, <2>1 DEF Asked, Here, Stage
<1>4. CASE st = "updateStart"
  <2>1. s \in {r, UpdateStart(r)} /\ (r = Started \/ r = Nodes0)
    BY <1>1, <1>2, <1>4 DEF Handled, Asked, Here, Stage
  <2>2. s = Started \/ s = Nodes0
    BY <2>1, BeforeBlocks
  <2> QED
    BY <1>1, <1>4, <2>2 DEF Stage
<1>5. CASE st = "transferGet"
  <2>1. s = r
    BY <1>2, <1>5 DEF Handled
  <2> QED
    BY <1>1, <1>5, <2>1 DEF Asked, Here, Stage
<1>6. CASE st = "transferStart"
  <2>1. s \in {r, TransferStart(r)} /\ (r = Started \/ r = Armed)
    BY <1>1, <1>2, <1>6 DEF Handled, Asked, Here, Stage
  <2>2. s = Started \/ s = Armed
    BY <2>1, BeforeBlocks
  <2> QED
    BY <1>1, <1>6, <2>2 DEF Stage
<1>7. CASE st = "blockStart"
  <2>1. s \in {r, BlockStart(r, block)} /\ Due(r, block) /\ block \in Blocks
    BY <1>1, <1>2, <1>7 DEF Handled, Asked, Here, Stage
  <2>2. BlockStart(r, block) \in NodeStates
    BY <1>1, <2>1, BlockStartOK DEF Keeps
  <2>3. Due(s, block)
    BY <1>1, <2>1, <2>2, DueBegins, BegunIsDue
  <2> QED
    BY <1>1, <1>7, <2>3 DEF Stage
<1>8. CASE st = "blockGet"
  <2>1. s \in {r, BlockGet(r)} /\ InBlock(r, block) /\ block \in Blocks
    BY <1>1, <1>2, <1>8 DEF Handled, Asked, Here, Stage
  <2>2. InBlock(s, block) /\ (r.rxok => s.rxok)
    BY <1>1, <2>1, BlockGetInBlock
  <2>3. list'[i].noMissing => r.rxok
    BY <1>8 DEF Asked, Here, Stage
  <2> QED
    BY <1>1, <1>8, <2>2, <2>3 DEF Stage
<1>9. CASE st = "updateGet"
  <2>1. s \in {r, UpdateGet(r)} /\ (Verified(r) \/ Due(r, NumBlocks))
    BY <1>1, <1>2, <1>9 DEF Handled, Asked, Here, Stage
  <2>2. Verified(s) \/ Due(s, NumBlocks)
    BY <1>1, <2>1, UpdateGetVerifies
  <2> QED
    BY <1>1, <1>9, <2>2 DEF Stage
<1>10. CASE st = "apply"
  <2>1. s \in {r, UpdateApply(r)} /\ (Verified(r) \/ Applied(n)) /\ list'[i].applied /\ cmd'.op = "apply"
    BY <1>1, <1>2, <1>10 DEF Handled, Asked, Here
  <2>2. Verified(r) \/ Rebooting(r) => Rebooting(UpdateApply(r))
    BY <1>1, ApplyReboots
  <2>3. Verified(s) \/ Applied(n)'
    BY <1>1, <2>1, <2>2, BeforeBlocks DEF Applied
  <2> QED
    BY <1>1, <1>10, <2>1, <2>3 DEF Stage
<1> QED
  BY <1>1, <1>3, <1>4, <1>5, <1>6, <1>7, <1>8, <1>9, <1>10 DEF Asked, Rounds

\* The answer fits.
LEMMA AskedFits ==
  ASSUME NodesOK, NEW i, Asked(i, TRUE), NEW a, a = AnswerTo(st, node[Nodes[i]], block)
  PROVE  Fits(i, a)' /\ (st = "blockGet" => Missed(i, a)')
<1> DEFINE n == Nodes[i]
           r == node[n]
           s == node'[n]
<1>1. /\ i \in 1 .. Cnt /\ n \in Node /\ r \in NodeStates /\ Sound(r) /\ ~(at > i) /\ ~(at' > i)
      /\ UNCHANGED <<st, at, block, updated>> /\ wait' = TRUE /\ at = i /\ ~list'[i].skip
  BY ListOnce DEF Asked, NodesOK
<1>2. s = Handled(st, r, block)
  BY DEF Asked
<1>3. CASE st \in {"query", "transferGet"}
  BY <1>1, <1>3 DEF Fits
<1>4. CASE st = "updateStart"
  <2>1. s = UpdateStart(r) /\ (r = Started \/ r = Nodes0) /\ a = UpdateStartAnswer(r)
    BY <1>1, <1>2, <1>4 DEF Handled, Asked, Here, Stage, AnswerTo
  <2>2. s = Started /\ a.phase = "active"
    BY <2>1, BeforeBlocks
  <2> QED
    BY <1>1, <1>4, <2>2 DEF Fits
<1>6. CASE st = "transferStart"
  <2>1. s = TransferStart(r) /\ (r = Started \/ r = Armed)
    BY <1>1, <1>2, <1>6 DEF Handled, Asked, Here, Stage
  <2>2. s = Armed
    BY <2>1, BeforeBlocks
  <2> QED
    BY <1>1, <1>6, <2>2 DEF Fits
<1>7. CASE st = "blockStart"
  <2>1. s = BlockStart(r, block) /\ Due(r, block) /\ block \in Blocks
    BY <1>1, <1>2, <1>7 DEF Handled, Asked, Here, Stage
  <2>2. Begun(s, block)
    BY <1>1, <2>1, DueBegins
  <2> QED
    BY <1>1, <1>7, <2>2 DEF Fits
<1>8. CASE st = "blockGet"
  <2>1. s = BlockGet(r) /\ InBlock(r, block) /\ block \in Blocks /\ a = BlockGetAnswer(r)
    BY <1>1, <1>2, <1>8 DEF Handled, Asked, Here, Stage, AnswerTo
  <2>2. Missed(i, a)'
    BY <1>1, <2>1, BlockGetInBlock DEF Missed
  <2> QED
    BY <1>1, <1>8, <2>2 DEF Fits
<1>9. CASE st = "updateGet"
  <2>1. s = UpdateGet(r) /\ (Verified(r) \/ Due(r, NumBlocks)) /\ a = FwStatus(s, TRUE)
    BY <1>1, <1>2, <1>9 DEF Handled, Asked, Here, Stage, AnswerTo
  <2>2. Verified(s)
    BY <1>1, <2>1, UpdateGetVerifies
  <2>3. a.phase = "verified" /\ a.ok
    BY <2>1, <2>2 DEF FwStatus, Answer, Verified
  <2> QED
    BY <1>1, <1>9, <2>2, <2>3 DEF Fits
<1>10. CASE st = "apply"
  <2>1. s = UpdateApply(r) /\ (Verified(r) \/ Applied(n))
    BY <1>1, <1>2, <1>10 DEF Handled, Asked, Here
  <2>2. Verified(r) \/ Rebooting(r) => Rebooting(UpdateApply(r))
    BY <1>1, ApplyReboots
  <2>3. Applied(n)'
    BY <1>1, <2>1, <2>2, BeforeBlocks DEF Applied
  <2> QED
    BY <1>1, <1>10, <2>3 DEF Fits
<1> QED
  BY <1>1, <1>3, <1>4, <1>6, <1>7, <1>8, <1>9, <1>10 DEF Asked, Rounds

\* An answer to the same command, from an earlier try, fits still.
LEMMA FitsStill ==
  ASSUME NodesOK, NEW i, NEW handled \in BOOLEAN, Asked(i, handled), NEW a, Fits(i, a)
  PROVE  Fits(i, a)'
<1> DEFINE n == Nodes[i]
           r == node[n]
           s == node'[n]
<1>1. /\ i \in 1 .. Cnt /\ n \in Node /\ r \in NodeStates /\ Sound(r)
      /\ UNCHANGED <<st, at, block, updated>> /\ ~list[i].skip /\ ~list'[i].skip
  BY ListOnce DEF Asked, NodesOK
<1>2. s = IF handled THEN Handled(st, r, block) ELSE r
  BY DEF Asked
<1>3. CASE st \in {"query", "transferGet", "blockGet"}
  BY <1>1, <1>3 DEF Fits
<1>4. CASE st = "updateStart"
  <2>1. s \in {r, UpdateStart(r)} /\ r = Started /\ a.phase = "active"
    BY <1>2, <1>4 DEF Handled, Fits
  <2> QED
    BY <1>1, <1>4, <2>1, BeforeBlocks DEF Fits
<1>5. CASE st = "transferStart"
  <2>1. s \in {r, TransferStart(r)} /\ r = Armed
    BY <1>2, <1>5 DEF Handled, Fits
  <2> QED
    BY <1>1, <1>5, <2>1, BeforeBlocks DEF Fits
<1>6. CASE st = "blockStart"
  <2>1. s \in {r, BlockStart(r, block)} /\ Begun(r, block) /\ block \in Blocks
    BY <1>2, <1>6 DEF Handled, Fits, Asked
  <2>2. Begun(s, block)
    BY <1>1, <2>1, DueBegins, BegunIsDue
  <2> QED
    BY <1>1, <1>6, <2>2 DEF Fits
<1>7. CASE st = "updateGet"
  <2>1. s \in {r, UpdateGet(r)} /\ Verified(r)
    BY <1>2, <1>7 DEF Handled, Fits
  <2>2. Verified(s)
    BY <1>1, <2>1, UpdateGetVerifies
  <2> QED
    BY <1>1, <1>7, <2>2 DEF Fits
<1>8. CASE st = "apply"
  <2>1. s \in {r, UpdateApply(r)} /\ Applied(n)
    BY <1>1, <1>2, <1>8 DEF Handled, Fits
  <2>2. Rebooting(r) => Rebooting(UpdateApply(r))
    BY <1>1, ApplyReboots
  <2>3. Applied(n)'
    BY <1>1, <2>1, <2>2, BeforeBlocks DEF Applied
  <2> QED
    BY <1>1, <1>8, <2>3 DEF Fits
<1> QED
  BY <1>1, <1>3, <1>4, <1>5, <1>6, <1>7, <1>8 DEF Asked, Rounds

\* A command of the state goes to the receiver at hand, for the first time or again.
AtHand(c) ==
    /\ at \in 1 .. Cnt /\ st \in Rounds /\ wait' = TRUE
    /\ UNCHANGED <<st, at, block, missing, starts, history>>
    /\ c \in Commands /\ c.of = Current /\ c.to = {Nodes[at]}
    /\ st # "apply" => c.op = st /\ ~list[at].skip /\ list' = list
    /\ st = "apply" => c.op \in {"apply", "cancel"} /\ list'[at].applied
    /\ st = "apply" /\ Nodes[at] \in plain => c.op = IF list[at].skip THEN "cancel" ELSE "apply"
    /\ \A i \in 1 .. Cnt : i # at => list'[i] = list[i]
    /\ list'[at].skip = list[at].skip /\ list'[at].noMissing = list[at].noMissing
    /\ list'[at].phase = list[at].phase /\ list'[at].started = list[at].started
    /\ st = "blockStart" => block # NumBlocks
    /\ wait \/ (st = "apply" => ~list[at].applied)
    /\ wait => list' = list

\* What it keeps of the other receivers.
LEMMA OthersKept ==
  ASSUME DistrInv, NEW c, AtHand(c), NEW i \in 1 .. Cnt, i # at,
         node'[Nodes[i]] = node[Nodes[i]], back'[Nodes[i]] = back[Nodes[i]]
  PROVE  ReceiverOK(i)'
<1>1. /\ UNCHANGED <<st, at, block, missing, starts, updated, plain>> /\ list'[i] = list[i] /\ Current' = Current
      /\ Under(i)' = Under(i)
  BY UnderSame DEF AtHand, history, Current
<1> SUFFICES ASSUME st # "idle", Nodes[i] \in plain
             PROVE  (~list[i].skip => Stage(i)') /\ PhaseOK(i)' /\ AnswersOK(i)'
  BY <1>1 DEF ReceiverOK
<1>2. (~list[i].skip => Stage(i)) /\ PhaseOK(i) /\ AnswersOK(i)
  BY DEF DistrInv, ReceiversOK, ReceiverOK
<1>3. ASSUME ~list[i].skip PROVE Stage(i)'
  BY <1>1, <1>2, <1>3 DEF Stage, Applied
<1>4. PhaseOK(i)'
  BY <1>1, <1>2 DEF PhaseOK
<1>5. AnswersOK(i)'
  BY <1>1, <1>2 DEF AnswersOK, Missed
<1> QED
  BY <1>3, <1>4, <1>5

\* What is sent to the receiver at hand keeps what is known of all.
LEMMA AtHandKeeps ==
  ASSUME DistrInv, SafeInv', NEW c, AtHand(c), NEW late \in {0, 1}, Transmit(c, late)
  PROVE  DistrInv'
<1> DEFINE n == Nodes[at]
           r == node[n]
           a == AnswerTo(c.op, r, block)
           new == [of |-> Current, answer |-> a]
<1>1. /\ SafeInv /\ GatewayTyped /\ CountsTyped /\ PlaceOK /\ NodesOK /\ CmdOK
      /\ at \in 1 .. Cnt /\ n \in Node /\ r \in NodeStates /\ Sound(r)
      /\ UNCHANGED <<st, at, block, missing, starts, updated, plain>> /\ wait' = TRUE /\ Current' = Current
      /\ c \in Commands /\ c.of = Current /\ c.of[3] = block /\ st \in Rounds /\ st # "idle"
  BY ListOnce DEF DistrInv, SafeInv, NodesOK, AtHand, history, Current, Rounds
<1>2. c.op = "blockStart" => block \in Blocks
  <2>1. ASSUME st = "blockStart" PROVE block \in Blocks
    BY <1>1, <2>1, Numbers DEF GatewayTyped, AtHand
  <2> QED
    BY <2>1 DEF AtHand
<1>3. /\ cmd' = [c EXCEPT !.acked = cmd'.acked]
      /\ \A m \in Node :
            \/ node'[m] = node[m] /\ back'[m] = back[m]
            \/ /\ m \in c.to /\ node'[m] = Handled(c.op, node[m], block)
               /\ \/ back'[m] = back[m]
                  \/ back'[m] = Append(back[m], [of |-> c.of, answer |-> AnswerTo(c.op, node[m], block)])
  BY <1>1, <1>2, TransmitOK DEF CountsTyped
<1>4. cmd'.op = c.op
  BY <1>1, <1>3 DEF Commands
<1>5. \A i \in 1 .. Cnt : i # at => node'[Nodes[i]] = node[Nodes[i]] /\ back'[Nodes[i]] = back[Nodes[i]]
  <2>1. ASSUME NEW i \in 1 .. Cnt, i # at PROVE Nodes[i] \in Node /\ Nodes[i] # n
    BY <1>1, <2>1, ListOnce
  <2>2. c.to = {n}
    BY DEF AtHand
  <2> QED
    BY <1>3, <2>1, <2>2
<1>6. \/ node'[n] = r /\ back'[n] = back[n]
      \/ node'[n] = Handled(c.op, r, block) /\ (back'[n] = back[n] \/ back'[n] = Append(back[n], new))
  BY <1>1, <1>3
<1>7. a \in Answers /\ a.kind = KindOf(c.op) /\ KindOf(c.op) = KindOf(st)
  <2>1. c.op \in Rounds \union {"cancel"} /\ KindOf(c.op) = KindOf(st)
    BY <1>1 DEF AtHand, KindOf
  <2> QED
    BY <1>1, <1>2, <2>1, AnswerType
<1>8. new \in Entries /\ new.of = Current /\ new.answer = a
  BY <1>1, <1>7 DEF Entries, Commands
<1> HIDE DEF a, new
<1>9. ASSUME NEW i \in 1 .. Cnt, i = at
      PROVE  /\ Under(i)' \subseteq Under(i) \union {new}
             /\ node'[n] = Handled(c.op, r, block) \/ Under(i)' \subseteq Under(i)
  BY <1>1, <1>6, <1>8, <1>9, UnderSame, UnderAppend
<1>10. KnownOK'
  <2> SUFFICES ASSUME NEW i \in 1 .. Cnt, NEW e \in Under(i)' PROVE Known(i, e)'
    BY DEF KnownOK
  <2>1. \A j \in 1 .. Cnt : list[j].applied => list'[j].applied
    <3>1. list[at].applied => list'[at].applied
      BY <1>1 DEF PlaceOK, AtHand
    <3> QED
      BY <3>1 DEF AtHand
  <2>2. CASE e \in Under(i)
    <3>1. Known(i, e)
      BY <2>2 DEF DistrInv, KnownOK
    <3> QED
      BY <1>1, <2>1, <3>1 DEF Known
  <2>3. CASE e \notin Under(i)
    <3>1. i = at /\ e = new
      BY <1>1, <1>5, <1>9, <2>3, UnderSame
    <3>2. e.of[1] = starts /\ e.of[2] = st /\ e.of[3] = block /\ e.answer.kind = KindOf(st)
      BY <1>7, <1>8, <3>1 DEF Current
    <3>3. starts \in Nat /\ Order(st) \in Nat
      BY <1>1, OrderType DEF CountsTyped
    <3>4. st = "apply" => list'[i].applied
      BY <3>1 DEF AtHand
    <3> QED
      BY <1>1, <3>1, <3>2, <3>3, <3>4 DEF Known
  <2> QED
    BY <2>2, <2>3
<1>11. ASSUME NEW i \in 1 .. Cnt, i # at PROVE ReceiverOK(i)'
  BY <1>5, <1>11, OthersKept
<1>12. ASSUME NEW i \in 1 .. Cnt, i = at, n \notin plain PROVE ReceiverOK(i)'
  BY <1>1, <1>12 DEF ReceiverOK
<1>13. ASSUME NEW i \in 1 .. Cnt, i = at, n \in plain PROVE ReceiverOK(i)'
  <2>1. (~list[i].skip => Stage(i)) /\ PhaseOK(i) /\ AnswersOK(i)
    BY <1>1, <1>13 DEF DistrInv, ReceiversOK, ReceiverOK
  <2>2. PhaseOK(i)'
    <3>1. list'[i].phase = list[i].phase /\ list'[i].skip = list[i].skip /\ (st = "apply" => list'[i].applied)
      BY <1>13 DEF AtHand
    <3>2. ASSUME list[i].phase \in {"verified", "applying"} PROVE st = "apply" /\ ~list[i].skip
      <4>1. st = "apply"
        BY <1>13, <1>1, <2>1, <3>2 DEF PhaseOK, GatewayTyped, Rounds
      <4> QED
        BY <1>13, <1>1, <2>1, <3>2, <4>1 DEF PhaseOK, AtHand
    <3>3. list[i].skip => cmd'.op = "cancel"
      BY <1>4, <1>13 DEF AtHand
    <3> QED
      BY <1>13, <1>1, <3>1, <3>2, <3>3 DEF PhaseOK
  <2>3. CASE list[i].skip
    <3>1. st = "apply" /\ c.op = "cancel" /\ list'[i].skip
      BY <1>13, <2>3 DEF AtHand
    <3>2. ASSUME NEW e \in Under(i)', e.of = Current PROVE Fits(i, e.answer)'
      <4>1. CASE e \in Under(i)
        <5>1. wait
          <6>1. Known(i, e)
            BY <1>13, <1>1, <4>1 DEF DistrInv, KnownOK
          <6> QED
            BY <1>13, <3>1, <3>2, <6>1 DEF Known, AtHand
        <5>2. Fits(i, e.answer)
          BY <1>13, <2>1, <3>2, <4>1, <5>1 DEF AnswersOK
        <5>3. e.answer.ok
          BY <1>13, <2>3, <3>1, <5>2 DEF Fits
        <5> QED
          BY <1>13, <1>1, <3>1, <5>3 DEF Fits
      <4>2. CASE e = new
        <5>1. e.answer.ok
          BY <1>13, <1>8, <3>1, <4>2 DEF a, AnswerTo, FwStatus, Answer
        <5> QED
          BY <1>13, <1>1, <3>1, <5>1 DEF Fits
      <4> QED
        BY <1>13, <1>9, <4>1, <4>2
    <3>3. AnswersOK(i)'
      BY <1>13, <1>1, <3>1, <3>2 DEF AnswersOK
    <3> QED
      BY <1>13, <1>1, <2>2, <3>1, <3>3 DEF ReceiverOK
  <2>4. CASE ~list[i].skip
    <3>1. c.op = st /\ ~list'[i].skip
      BY <1>13, <2>4 DEF AtHand
    <3>2. Here(i)
      <4>1. CASE st = "apply" /\ wait
        <5>1. list[i].applied
          BY <1>13, <4>1, <1>1 DEF CmdOK
        <5> QED
          BY <1>13, <1>1, <2>1, <2>4, <4>1, <5>1 DEF Here, Stage
      <4>2. CASE st = "apply" /\ ~wait
        <5>1. ~list[i].applied
          BY <1>13, <4>2 DEF AtHand
        <5> QED
          BY <1>13, <1>1, <2>1, <2>4, <4>2, <5>1 DEF Here, Stage
      <4>3. CASE st # "apply"
        BY <1>13, <2>1, <2>4, <4>3 DEF Here
      <4> QED
        BY <1>13, <4>1, <4>2, <4>3
    <3>3. PICK handled \in BOOLEAN : Asked(i, handled) /\ (handled = FALSE => Under(i)' \subseteq Under(i))
      <4> DEFINE Common == /\ i \in 1 .. Cnt /\ at = i /\ ~list[i].skip /\ st \in Rounds /\ Here(i)
                           /\ st \in {"blockStart", "blockGet"} => block \in Blocks
                           /\ UNCHANGED <<st, at, block, updated>> /\ wait' = TRUE /\ cmd'.op = st
                           /\ list'[i].skip = list[i].skip /\ list'[i].noMissing = list[i].noMissing
                           /\ list'[i].phase = list[i].phase /\ list'[i].started = list[i].started
                           /\ st = "apply" => list'[i].applied
      <4>1. Common
        BY <1>13, <1>1, <1>2, <1>4, <2>4, <3>1, <3>2 DEF AtHand, PlaceOK
      <4>2. CASE node'[n] = Handled(st, r, block)
        <5>1. Asked(i, TRUE)
          BY <1>13, <4>1, <4>2 DEF Asked
        <5> QED
          BY <1>13, <5>1
      <4>3. CASE node'[n] # Handled(st, r, block)
        <5>1. node'[n] = r
          BY <1>6, <3>1, <4>3
        <5>3. Under(i)' \subseteq Under(i)
          BY <1>13, <1>9, <3>1, <4>3
        <5>2. Asked(i, FALSE)
          BY <1>13, <4>1, <5>1 DEF Asked
        <5> QED
          BY <5>2, <5>3
      <4> QED
        BY <4>2, <4>3
    <3>4. Stage(i)' /\ (st = "blockGet" => (r.rxok => node'[n].rxok))
      BY <1>13, <1>1, <3>3, AskedStage
    <3>5. ASSUME NEW e \in Under(i)', e \in Under(i)
          PROVE  /\ e.of = Current => Fits(i, e.answer)'
                 /\ st \in {"chunkStart", "blockGet"} /\ e.of = <<starts, "blockGet", block>> => Missed(i, e.answer)'
      <4>1. ASSUME e.of = Current PROVE Fits(i, e.answer)'
        <5>1. CASE wait
          <6>1. Fits(i, e.answer)
            BY <1>13, <2>1, <3>5, <4>1, <5>1 DEF AnswersOK
          <6> QED
            BY <1>13, <1>1, <3>3, <6>1, FitsStill
        <5>2. CASE ~wait
          <6>1. Known(i, e)
            BY <1>13, <1>1, <3>5 DEF DistrInv, KnownOK
          <6>2. st \notin Once /\ st # "apply"
            BY <1>13, <1>1, <4>1, <5>2, <6>1 DEF Known, AtHand, GatewayTyped
          <6> QED
            BY <1>13, <1>1, <6>2 DEF Fits, Once
        <5> QED
          BY <1>13, <5>1, <5>2
      <4>2. ASSUME st \in {"chunkStart", "blockGet"}, e.of = <<starts, "blockGet", block>> PROVE Missed(i, e.answer)'
        <5>1. st = "blockGet"
          BY <1>13, <1>1, <4>2 DEF Rounds
        <5>2. Missed(i, e.answer)
          BY <1>13, <2>1, <2>4, <3>5, <4>2 DEF AnswersOK
        <5> QED
          BY <1>13, <1>1, <3>4, <5>1, <5>2 DEF Missed
      <4> QED
        BY <1>13, <4>1, <4>2
    <3>6. ASSUME NEW e \in Under(i)', e \notin Under(i)
          PROVE  Fits(i, e.answer)' /\ (st \in {"chunkStart", "blockGet"} => Missed(i, e.answer)')
      <4>1. e = new /\ handled = TRUE
        BY <1>13, <1>9, <3>3, <3>6
      <4>3. e.answer = AnswerTo(st, r, block)
        BY <1>8, <3>1, <4>1 DEF a
      <4>2. Asked(i, TRUE)
        BY <1>13, <3>3, <4>1
      <4> QED
        BY <1>13, <1>1, <4>2, <4>3, AskedFits DEF Rounds
    <3>7. AnswersOK(i)'
      BY <1>13, <1>1, <3>5, <3>6 DEF AnswersOK
    <3> QED
      BY <1>13, <1>1, <2>2, <3>4, <3>7 DEF ReceiverOK
  <2> QED
    BY <1>13, <2>3, <2>4
<1> QED
  BY <1>10, <1>11, <1>12, <1>13 DEF DistrInv, ReceiversOK

-----------------------------------------------------------------------------
(* Commands are sent, repeated and given up *)

\* A command is sent to the receiver at hand.
LEMMA SendsKeeps ==
  ASSUME DistrInv, SendToReceiver \/ SendApply
  PROVE  DistrInv'
<1>1. SafeInv' /\ SafeInv /\ GatewayTyped /\ PlaceOK /\ Cnt \in Nat \ {0}
  BY SendsSafe, ListOnce DEF DistrInv, SafeInv
<1>2. /\ at <= Cnt /\ ~wait /\ wait' = TRUE /\ st # "idle"
      /\ UNCHANGED <<st, at, block, missing, lost, starts, history>>
  BY DEF SendToReceiver, SendApply, InRound, Ready
<1>3. at \in 1 .. Cnt /\ Nodes[at] \in Node
  BY <1>1, <1>2, ListOnce DEF GatewayTyped
<1>4. ASSUME NEW op \in Ops
      PROVE  CommandOf(op, {Nodes[at]}) \in Commands /\ CommandOf(op, {Nodes[at]}).op = op
             /\ CommandOf(op, {Nodes[at]}).of = Current /\ CommandOf(op, {Nodes[at]}).to = {Nodes[at]}
  BY <1>1, <1>3, <1>4, CommandType DEF CommandOf
<1>5. CASE SendToReceiver
  <2>1. st \in Ops /\ st \in Rounds /\ st # "apply" /\ list' = list
    BY <1>5 DEF SendToReceiver, InRound, Ops
  <2>2. ~list[at].skip /\ Reliable(st, {Nodes[at]}, 0) /\ ~(st = "blockStart" /\ block = NumBlocks)
    BY <1>5 DEF SendToReceiver, InRound, Passed
  <2>3. Transmit(CommandOf(st, {Nodes[at]}), 0)
    BY <2>2 DEF Reliable, CommandOf
  <2>4. AtHand(CommandOf(st, {Nodes[at]}))
    BY <1>2, <1>3, <1>4, <2>1, <2>2 DEF AtHand
  <2> QED
    BY <1>1, <2>3, <2>4, AtHandKeeps
<1>6. CASE SendApply
  <2> DEFINE op == IF list[at].phase \in {"verified", "applying"} THEN "apply" ELSE "cancel"
  <2>1. st = "apply" /\ st \in Rounds /\ op \in Ops /\ op \in {"apply", "cancel"} /\ ~list[at].applied
    BY <1>6 DEF SendApply, Rounds, Ops
  <2>2. Reliable(op, {Nodes[at]}, 0) /\ list' = [list EXCEPT ![at].applied = TRUE]
    BY <1>6 DEF SendApply
  <2>3. ASSUME Nodes[at] \in plain PROVE op = IF list[at].skip THEN "cancel" ELSE "apply"
    <3>1. ASSUME NEW i \in 1 .. Cnt, i = at
          PROVE  (~list[i].skip => Stage(i)) /\ PhaseOK(i)
      BY <1>2, <2>3, <3>1 DEF DistrInv, ReceiversOK, ReceiverOK
    <3>2. ASSUME NEW i \in 1 .. Cnt, i = at, list[i].skip
          PROVE  list[i].phase \notin {"verified", "applying"}
      BY <2>1, <3>1, <3>2 DEF PhaseOK
    <3>3. ASSUME NEW i \in 1 .. Cnt, i = at, ~list[i].skip
          PROVE  list[i].phase = "verified"
      BY <2>1, <3>1, <3>3 DEF Stage
    <3> QED
      BY <1>3, <3>2, <3>3
  <2> HIDE DEF op
  <2>4. /\ \A i \in 1 .. Cnt : i # at => list'[i] = list[i]
        /\ list'[at].applied /\ list'[at].skip = list[at].skip /\ list'[at].noMissing = list[at].noMissing
        /\ list'[at].phase = list[at].phase /\ list'[at].started = list[at].started
    BY <1>1, <1>3, <2>2 DEF GatewayTyped, Receivers
  <2>5. Transmit(CommandOf(op, {Nodes[at]}), 0)
    BY <2>2 DEF Reliable, CommandOf
  <2>6. AtHand(CommandOf(op, {Nodes[at]}))
    BY <1>2, <1>3, <1>4, <2>1, <2>3, <2>4 DEF AtHand
  <2> QED
    BY <1>1, <2>5, <2>6, AtHandKeeps
<1> QED
  BY <1>5, <1>6

\* A cancel that is under way from an earlier distribution is repeated.
LEMMA OldCancelKeeps ==
  ASSUME DistrInv, SafeInv', ~wait, ~wait', cmd # NoCmd, UNCHANGED <<st, at, block, missing, list, starts, history>>,
         NEW c \in Commands, c.op = cmd.op, c.of = cmd.of, NEW late \in {0, 1}, Transmit(c, late)
  PROVE  DistrInv'
<1>1. /\ SafeInv /\ NodesOK /\ CountsTyped /\ UNCHANGED <<st, at, block, missing, list, starts, plain>>
      /\ c.op = "cancel" /\ c.of[1] <= starts /\ (st # "idle" => st = "query" /\ c.of[1] < starts)
      /\ c.of[1] \in Nat /\ starts \in Nat
  BY DEF DistrInv, SafeInv, CmdOK, history, Commands, Moments, CountsTyped
<1>2. \A m \in Node :
         \/ node'[m] = node[m] /\ back'[m] = back[m]
         \/ /\ node'[m] = Handled(c.op, node[m], c.of[3])
            /\ \/ back'[m] = back[m]
               \/ back'[m] = Append(back[m], [of |-> c.of, answer |-> AnswerTo(c.op, node[m], c.of[3])])
  BY <1>1, TransmitOK DEF CountsTyped
<1>3. ASSUME NEW i \in 1 .. Cnt, NEW e \in Under(i)', e \notin Under(i) PROVE e.of = c.of
  <2> DEFINE new == [of |-> c.of, answer |-> AnswerTo(c.op, node[Nodes[i]], c.of[3])]
  <2>1. Nodes[i] \in Node /\ node[Nodes[i]] \in NodeStates
    BY <1>1, ListOnce DEF NodesOK
  <2>2. new \in Entries /\ new.of = c.of
    <3>1. AnswerTo(c.op, node[Nodes[i]], c.of[3]) \in Answers
      BY <1>1, <2>1, AnswerType DEF NodesOK
    <3> QED
      BY <3>1 DEF Entries, Commands
  <2>3. back'[Nodes[i]] = back[Nodes[i]] \/ back'[Nodes[i]] = Append(back[Nodes[i]], new)
    BY <1>2, <2>1
  <2> HIDE DEF new
  <2> QED
    BY <1>1, <1>3, <2>2, <2>3, UnderSame, UnderAppend
<1>4. KnownOK'
  <2> SUFFICES ASSUME NEW i \in 1 .. Cnt, NEW e \in Under(i)' PROVE Known(i, e)'
    BY DEF KnownOK
  <2>1. CASE e \in Under(i)
    <3>1. Known(i, e)
      BY <2>1 DEF DistrInv, KnownOK
    <3>2. wait' = wait \/ st = "idle" \/ st = "query"
      BY <1>1
    <3> QED
      BY <1>1, <3>1, <3>2 DEF Known, Current, Once
  <2>2. CASE e \notin Under(i)
    <3>1. e.of = c.of
      BY <1>3, <2>2
    <3>2. st # "idle" => e.of[1] # starts
      BY <1>1, <3>1
    <3>3. e.of = Current => st = "idle"
      BY <3>2 DEF Current
    <3> QED
      BY <1>1, <3>1, <3>2, <3>3 DEF Known, Current, Once
  <2> QED
    BY <2>1, <2>2
<1>5. ASSUME NEW i \in 1 .. Cnt PROVE ReceiverOK(i)'
  <2>1. CASE st = "idle" \/ Nodes[i] \notin plain
    BY <1>1, <2>1 DEF ReceiverOK
  <2>2. CASE st # "idle" /\ Nodes[i] \in plain
    <3>1. st = "query" /\ (~list[i].skip => node[Nodes[i]] = Nodes0) /\ PhaseOK(i)
      BY <1>1, <2>2 DEF DistrInv, ReceiversOK, ReceiverOK, Stage
    <3>2. ASSUME ~list[i].skip PROVE node'[Nodes[i]] = Nodes0
      <4>1. Handled("cancel", Nodes0, c.of[3]) = Nodes0
        BY DEF Handled, UpdateCancel, Nodes0
      <4> QED
        BY <1>1, <1>2, <3>1, <3>2, <4>1, ListOnce
    <3>3. ASSUME ~list[i].skip PROVE Stage(i)'
      BY <1>1, <3>1, <3>2, <3>3 DEF Stage
    <3>4. PhaseOK(i)' /\ AnswersOK(i)'
      BY <1>1, <3>1 DEF PhaseOK, AnswersOK
    <3> QED
      BY <1>1, <3>3, <3>4 DEF ReceiverOK
  <2> QED
    BY <2>1, <2>2
<1> QED
  BY <1>4, <1>5 DEF DistrInv, ReceiversOK

\* The receiver at hand is given up: it is skipped, and the next one follows.
LEMMA GiveUpKeeps ==
  ASSUME DistrInv, SafeInv', cmd' = NoCmd, GiveUp, UNCHANGED <<node, back, st, block, missing, starts, history>>
  PROVE  DistrInv'
<1>1. /\ SafeInv /\ GatewayTyped /\ CmdOK /\ NodesOK /\ Current' = Current
      /\ UNCHANGED <<node, back, st, block, missing, starts, plain, updated>>
  BY DEF DistrInv, SafeInv, history, Current
<1>2. CASE ~wait
  <2>1. UNCHANGED <<list, at, wait>>
    BY <1>2 DEF GiveUp
  <2>2. ASSUME NEW i \in 1 .. Cnt PROVE Under(i)' = Under(i)
    BY <1>1, <2>2, ListOnce, UnderSame
  <2>3. KnownOK'
    BY <1>1, <2>1, <2>2 DEF DistrInv, KnownOK, Known
  <2>4. ASSUME NEW i \in 1 .. Cnt PROVE ReceiverOK(i)'
    <3> SUFFICES ASSUME st # "idle", Nodes[i] \in plain
                 PROVE  (~list[i].skip => Stage(i)') /\ PhaseOK(i)' /\ AnswersOK(i)'
      BY <1>1, <2>1 DEF ReceiverOK
    <3>1. (~list[i].skip => Stage(i)) /\ PhaseOK(i) /\ AnswersOK(i)
      BY DEF DistrInv, ReceiversOK, ReceiverOK
    <3>2. ASSUME ~list[i].skip PROVE Stage(i)'
      BY <1>1, <1>2, <2>1, <3>1, <3>2 DEF Stage, Applied
    <3>3. PhaseOK(i)'
      BY <1>1, <1>2, <2>1, <3>1 DEF PhaseOK
    <3>4. AnswersOK(i)'
      BY <1>1, <1>2, <2>1, <2>2, <3>1 DEF AnswersOK, Missed
    <3> QED
      BY <3>2, <3>3, <3>4
  <2> QED
    BY <2>3, <2>4 DEF DistrInv, ReceiversOK
<1>3. CASE wait
  <2>1. /\ at \in 1 .. Cnt /\ at' = at + 1 /\ list' = [list EXCEPT ![at].skip = TRUE] /\ st \in Rounds
        /\ st = "apply" => list[at].applied
    BY <1>1, <1>3, ListOnce DEF GiveUp, GatewayTyped, CmdOK
  <2>2. wait' = FALSE
    BY <1>3 DEF GiveUp
  <2>3. /\ \A i \in 1 .. Cnt : i # at => list'[i] = list[i]
        /\ list'[at].skip /\ list'[at].applied = list[at].applied /\ list'[at].phase = list[at].phase
    BY <1>1, <2>1 DEF GatewayTyped, Receivers
  <2>4. ASSUME NEW i \in 1 .. Cnt PROVE Under(i)' = Under(i)
    BY <1>1, <2>4, ListOnce, UnderSame
  <2>5. KnownOK'
    <3> SUFFICES ASSUME NEW i \in 1 .. Cnt, NEW e \in Under(i)' PROVE Known(i, e)'
      BY DEF KnownOK
    <3>1. Known(i, e)
      BY <2>4 DEF DistrInv, KnownOK
    <3>2. at = i \/ at > i => at' > i
      BY <2>1
    <3>3. list'[i].applied = list[i].applied
      BY <2>3
    <3> QED
      BY <1>1, <3>1, <3>2, <3>3 DEF Known
  <2>6. ASSUME NEW i \in 1 .. Cnt, i # at PROVE ReceiverOK(i)'
    <3> SUFFICES ASSUME st # "idle", Nodes[i] \in plain
                 PROVE  (~list[i].skip => Stage(i)') /\ PhaseOK(i)' /\ AnswersOK(i)'
      BY <1>1, <2>3, <2>6 DEF ReceiverOK
    <3>1. (~list[i].skip => Stage(i)) /\ PhaseOK(i) /\ AnswersOK(i)
      BY DEF DistrInv, ReceiversOK, ReceiverOK
    <3>2. ((at' > i) <=> (at > i)) /\ list'[i] = list[i]
      BY <2>1, <2>3, <2>6
    <3>3. ASSUME ~list[i].skip PROVE Stage(i)'
      BY <1>1, <2>2, <2>6, <3>1, <3>2, <3>3 DEF Stage, Applied
    <3>4. PhaseOK(i)'
      BY <1>1, <2>2, <2>6, <3>1, <3>2 DEF PhaseOK
    <3>5. AnswersOK(i)'
      BY <1>1, <2>2, <2>4, <3>1, <3>2 DEF AnswersOK, Missed
    <3> QED
      BY <3>3, <3>4, <3>5
  <2>7. ASSUME NEW i \in 1 .. Cnt, i = at PROVE ReceiverOK(i)'
    <3> SUFFICES ASSUME st # "idle", Nodes[i] \in plain PROVE PhaseOK(i)' /\ AnswersOK(i)'
      BY <1>1, <2>3, <2>7 DEF ReceiverOK
    <3>1. PhaseOK(i)
      BY DEF DistrInv, ReceiversOK, ReceiverOK
    <3>2. ~(at > i) /\ list'[i].phase = list[i].phase /\ list'[i].skip /\ list'[i].applied = list[i].applied
      BY <2>3, <2>7
    <3>3. PhaseOK(i)'
      BY <1>1, <2>1, <2>2, <2>7, <3>1, <3>2 DEF PhaseOK, Rounds
    <3>4. AnswersOK(i)'
      BY <2>2, <3>2 DEF AnswersOK
    <3> QED
      BY <3>3, <3>4
  <2> QED
    BY <2>5, <2>6, <2>7 DEF DistrInv, ReceiversOK
<1> QED
  BY <1>2, <1>3

\* A reliable command is repeated or given up.
LEMMA RetryKeeps ==
  ASSUME DistrInv, Retry
  PROVE  DistrInv'
<1>1. /\ SafeInv' /\ SafeInv /\ GatewayTyped /\ CountsTyped /\ PlaceOK /\ CmdOK /\ NodesOK /\ Cnt \in Nat \ {0}
  BY RetrySafe, ListOnce DEF DistrInv, SafeInv
<1>2. cmd # NoCmd /\ cmd \in Commands /\ UNCHANGED <<st, block, missing, lost, starts, history>>
  BY <1>1 DEF Retry, NoCmd, CmdOK
<1>3. CASE cmd.retry > 0 /\ Transmit([cmd EXCEPT !.retry = @ - 1], IF Late THEN 1 ELSE 0) /\ UNCHANGED <<list, at, wait>>
  <2> DEFINE c == [cmd EXCEPT !.retry = @ - 1]
             late == IF Late THEN 1 ELSE 0
  <2>1. /\ c.op = cmd.op /\ c.to = cmd.to /\ c.of = cmd.of /\ c \in Commands
        /\ late \in {0, 1} /\ Transmit(c, late)
    <3>1. cmd.retry - 1 \in 0 .. RetryMax
      BY <1>2, <1>3, DistributionAssumption DEF Commands
    <3> QED
      BY <1>2, <1>3, <3>1 DEF Commands
  <2> HIDE DEF c, late
  <2>2. CASE wait
    <3>1. at \in 1 .. Cnt /\ st \in Rounds /\ wait' = TRUE /\ list' = list
      BY <1>1, <1>3, <2>2 DEF GatewayTyped
    <3>2. /\ c.to = {Nodes[at]} /\ c.of = Current
          /\ IF st = "apply" THEN c.op \in {"apply", "cancel"} ELSE c.op = st
          /\ IF st = "apply" THEN list[at].applied ELSE ~list[at].skip
      BY <1>1, <1>2, <2>1, <2>2 DEF CmdOK
    <3>3. ASSUME st = "apply", Nodes[at] \in plain PROVE c.op = IF list[at].skip THEN "cancel" ELSE "apply"
      <4>1. ASSUME NEW i \in 1 .. Cnt, i = at
            PROVE  (~list[i].skip => Stage(i)) /\ PhaseOK(i)
        BY <3>3, <4>1 DEF DistrInv, ReceiversOK, ReceiverOK
      <4>2. ASSUME NEW i \in 1 .. Cnt, i = at, list[i].skip PROVE cmd.op = "cancel"
        BY <2>2, <4>1, <4>2 DEF PhaseOK
      <4>3. ASSUME NEW i \in 1 .. Cnt, i = at, ~list[i].skip PROVE cmd.op = "apply"
        BY <2>2, <3>2, <3>3, <4>1, <4>3 DEF Stage
      <4> QED
        BY <2>1, <3>1, <4>2, <4>3
    <3>4. st = "blockStart" => block # NumBlocks
      BY <1>1, <2>2 DEF PlaceOK
    <3>5. AtHand(c)
      BY <1>2, <1>3, <2>1, <2>2, <3>1, <3>2, <3>3, <3>4 DEF AtHand
    <3> QED
      BY <1>1, <2>1, <3>5, AtHandKeeps
  <2>3. CASE ~wait
    BY <1>1, <1>2, <1>3, <2>1, <2>3, OldCancelKeeps
  <2> QED
    BY <2>2, <2>3
<1>4. CASE cmd' = NoCmd /\ GiveUp /\ faults' = faults + (IF Late THEN 1 ELSE 0) /\ faults' <= MaxFaults /\ UNCHANGED <<node, back>>
  BY <1>1, <1>2, <1>4, GiveUpKeeps
<1> QED
  BY <1>3, <1>4 DEF Retry

\* A segmented command ends without a segment acknowledgment: nothing else changes.
LEMMA SegmentTimeoutKeeps ==
  ASSUME DistrInv, SegmentTimeout
  PROVE  DistrInv'
<1>1. SafeInv' /\ SafeInv /\ CmdOK
  BY SegmentTimeoutSafe DEF DistrInv, SafeInv
<1>2. /\ cmd # NoCmd /\ ~cmd.acked /\ Current' = Current
      /\ UNCHANGED <<st, at, wait, block, missing, list, back, node, starts, updated, plain>>
  BY DEF SegmentTimeout, NoCmd, history, Current
<1>3. wait => st \in {"updateStart", "transferStart"} /\ ~list[at].skip
  BY <1>1, <1>2 DEF CmdOK, Segmented
<1>4. ASSUME NEW i \in 1 .. Cnt PROVE Under(i)' = Under(i)
  BY <1>2, <1>4, ListOnce, UnderSame
<1>5. KnownOK'
  BY <1>2, <1>4 DEF DistrInv, KnownOK, Known
<1>6. ASSUME NEW i \in 1 .. Cnt PROVE ReceiverOK(i)'
  <2> SUFFICES ASSUME st # "idle", Nodes[i] \in plain
               PROVE  (~list[i].skip => Stage(i)') /\ PhaseOK(i)' /\ AnswersOK(i)'
    BY <1>2 DEF ReceiverOK
  <2>1. (~list[i].skip => Stage(i)) /\ PhaseOK(i) /\ AnswersOK(i)
    BY DEF DistrInv, ReceiversOK, ReceiverOK
  <2>2. ASSUME ~list[i].skip PROVE Stage(i)'
    BY <1>2, <1>3, <2>1, <2>2 DEF Stage, Applied
  <2>3. PhaseOK(i)'
    BY <1>2, <1>3, <2>1 DEF PhaseOK
  <2>4. AnswersOK(i)'
    BY <1>2, <1>4, <2>1 DEF AnswersOK, Missed, Fits, Applied
  <2> QED
    BY <2>2, <2>3, <2>4
<1> QED
  BY <1>1, <1>5, <1>6 DEF DistrInv, ReceiversOK

-----------------------------------------------------------------------------
(* The application, and nodes that restart *)

\* A distribution starts: the receivers that count are idle, and what is under way is older.
LEMMA AppStartKeeps ==
  ASSUME DistrInv, AppStart
  PROVE  DistrInv'
<1>1. SafeInv' /\ SafeInv /\ GatewayTyped /\ CountsTyped /\ PlaceOK /\ CmdOK /\ NodesOK
  BY AppSafe DEF DistrInv, SafeInv
<1>2. /\ st = "idle" /\ st' = "query" /\ starts' = starts + 1 /\ ~wait /\ ~wait' /\ starts \in Nat
      /\ plain' = {n \in Node : node[n] = Nodes0}
      /\ list = [i \in 1 .. Cnt |-> Receiver0] /\ list' = list /\ node' = node /\ back' = back
  BY <1>1 DEF AppStart, PlaceOK, CountsTyped
<1>3. ASSUME NEW i \in 1 .. Cnt, NEW e \in Under(i)' PROVE Known(i, e)'
  <2>1. e \in Under(i) /\ Known(i, e)
    BY <1>2, <1>3, UnderSame, ListOnce DEF DistrInv, KnownOK
  <2>2. e.of[1] \in Nat
    BY <1>1, <2>1, UnderType DEF Entries, Moments
  <2>3. e.of[1] < starts'
    BY <1>2, <2>1, <2>2 DEF Known
  <2>4. e.of # Current'
    BY <1>2, <2>2, <2>3 DEF Current
  <2> QED
    BY <1>2, <2>2, <2>3, <2>4 DEF Known
<1>4. ASSUME NEW i \in 1 .. Cnt PROVE ReceiverOK(i)'
  <2> SUFFICES ASSUME Nodes[i] \in plain' PROVE Stage(i)' /\ PhaseOK(i)' /\ AnswersOK(i)'
    BY DEF ReceiverOK
  <2>1. node'[Nodes[i]] = Nodes0
    BY <1>2
  <2>2. list'[i] = Receiver0 /\ list'[i].phase = "idle" /\ ~list'[i].skip
    BY <1>2 DEF Receiver0
  <2>3. Stage(i)'
    BY <1>2, <2>1 DEF Stage
  <2>4. PhaseOK(i)' /\ AnswersOK(i)'
    BY <1>2, <2>2 DEF PhaseOK, AnswersOK
  <2> QED
    BY <2>3, <2>4
<1> QED
  BY <1>1, <1>3, <1>4 DEF DistrInv, KnownOK, ReceiversOK

\* A distribution is cancelled.
LEMMA AppCancelKeeps ==
  ASSUME DistrInv, AppCancel
  PROVE  DistrInv'
<1>1. SafeInv' /\ SafeInv /\ GatewayTyped /\ CountsTyped /\ NodesOK
  BY AppSafe DEF DistrInv, SafeInv
<1>2. st' = "idle" /\ starts' = starts /\ starts \in Nat
  BY <1>1 DEF AppCancel, Cleaned, CountsTyped
<1>3. ASSUME NEW i \in 1 .. Cnt, NEW e \in Under(i)' PROVE e.of[1] <= starts
  <2>1. CASE e \in Under(i)
    BY <2>1 DEF DistrInv, KnownOK, Known
  <2>2. CASE e \notin Under(i)
    <3> DEFINE c == CommandOf("cancel", Node)
               new == [of |-> c.of, answer |-> AnswerTo(c.op, node[Nodes[i]], c.of[3])]
    <3>1. ~(\A j \in 1 .. Cnt : back'[Nodes[j]] = back[Nodes[j]])
      BY <1>3, <2>2, UnderSame
    <3>2. Reliable("cancel", Node, 1)
      BY <3>1 DEF AppCancel
    <3>3. c \in Commands /\ c.op = "cancel" /\ c.of = Current /\ Transmit(c, 1)
      BY <1>1, <3>2, CommandType DEF CommandOf, Reliable, Ops
    <3>4. Nodes[i] \in Node /\ AnswerTo(c.op, node[Nodes[i]], c.of[3]) \in Answers
      BY <1>1, <3>3, ListOnce, AnswerType DEF NodesOK
    <3>5. new \in Entries /\ new.of = Current
      BY <3>3, <3>4 DEF Entries, Commands
    <3> HIDE DEF c
    <3>6. back'[Nodes[i]] = back[Nodes[i]] \/ back'[Nodes[i]] = Append(back[Nodes[i]], new)
      BY <1>1, <3>3, <3>4, TransmitOK DEF CountsTyped
    <3> HIDE DEF new
    <3>7. e = new
      BY <1>1, <1>3, <2>2, <3>5, <3>6, UnderSame, UnderAppend
    <3> QED
      BY <1>2, <3>5, <3>7 DEF Current
  <2> QED
    BY <2>1, <2>2
<1>4. KnownOK'
  BY <1>2, <1>3 DEF KnownOK, Known, Once
<1>5. ReceiversOK'
  BY <1>2 DEF ReceiversOK, ReceiverOK
<1> QED
  BY <1>1, <1>4, <1>5 DEF DistrInv

\* A node loses its power, and does not count any more.
LEMMA RestartKeeps ==
  ASSUME DistrInv, NEW n \in Node, Restart(n)
  PROVE  DistrInv'
<1>1. SafeInv' /\ SafeInv /\ NodesOK
  BY RestartSafe DEF DistrInv, SafeInv
<1>2. /\ UNCHANGED <<st, at, wait, block, missing, list, cmd, back, starts, updated>> /\ plain' = plain \ {n}
      /\ \A m \in Node : m # n => node'[m] = node[m]
      /\ Current' = Current
  BY <1>1 DEF Restart, NodesOK, Current
<1>3. ASSUME NEW i \in 1 .. Cnt PROVE Under(i)' = Under(i)
  BY <1>2, <1>3, ListOnce, UnderSame
<1>4. KnownOK'
  BY <1>2, <1>3 DEF DistrInv, KnownOK, Known
<1>5. ASSUME NEW i \in 1 .. Cnt PROVE ReceiverOK(i)'
  <2> SUFFICES ASSUME st # "idle", Nodes[i] \in plain, Nodes[i] # n
               PROVE  (~list[i].skip => Stage(i)') /\ PhaseOK(i)' /\ AnswersOK(i)'
    BY <1>2 DEF ReceiverOK
  <2>1. (~list[i].skip => Stage(i)) /\ PhaseOK(i) /\ AnswersOK(i) /\ node'[Nodes[i]] = node[Nodes[i]]
    BY <1>2, ListOnce DEF DistrInv, ReceiversOK, ReceiverOK
  <2>2. ASSUME ~list[i].skip PROVE Stage(i)'
    BY <1>2, <2>1, <2>2 DEF Stage, Applied
  <2>3. PhaseOK(i)'
    BY <1>2, <2>1 DEF PhaseOK
  <2>4. AnswersOK(i)'
    BY <1>2, <1>3, <2>1 DEF AnswersOK, Missed, Fits, Applied
  <2> QED
    BY <2>2, <2>3, <2>4
<1> QED
  BY <1>1, <1>4, <1>5 DEF DistrInv, ReceiversOK

\* A node restarts in the end of its update, or after it was cancelled.
LEMMA RebootKeeps ==
  ASSUME DistrInv, NEW n \in Node, Reboot(n)
  PROVE  DistrInv'
<1>1. SafeInv' /\ SafeInv /\ NodesOK /\ GatewayTyped /\ CmdOK /\ PlaceOK
  BY RestartSafe DEF DistrInv, SafeInv
<1>2. /\ UNCHANGED <<st, at, wait, block, missing, list, cmd, back, starts, plain>>
      /\ node[n].reboot # "none" /\ node'[n] = Nodes0 /\ \A m \in Node : m # n => node'[m] = node[m]
      /\ updated \subseteq updated' /\ (node[n].reboot = "success" => n \in updated')
      /\ Current' = Current
  BY <1>1 DEF Reboot, Restarted, NodesOK, Current
<1>3. ASSUME NEW i \in 1 .. Cnt PROVE Under(i)' = Under(i)
  BY <1>2, <1>3, ListOnce, UnderSame
<1>4. KnownOK'
  BY <1>2, <1>3 DEF DistrInv, KnownOK, Known
<1>5. ASSUME NEW m \in Node, Applied(m) PROVE Applied(m)'
  BY <1>2, <1>5, Nodes0OK DEF Applied, Rebooting
<1>6. ASSUME NEW i \in 1 .. Cnt PROVE ReceiverOK(i)'
  <2> SUFFICES ASSUME st # "idle", Nodes[i] \in plain
               PROVE  (~list[i].skip => Stage(i)') /\ PhaseOK(i)' /\ AnswersOK(i)'
    BY <1>2 DEF ReceiverOK
  <2>1. (~list[i].skip => Stage(i)) /\ PhaseOK(i) /\ AnswersOK(i) /\ Nodes[i] \in Node
    BY <1>2, ListOnce DEF DistrInv, ReceiversOK, ReceiverOK
  <2>2. PhaseOK(i)'
    BY <1>2, <2>1 DEF PhaseOK
  <2>3. CASE Nodes[i] # n
    <3>1. node'[Nodes[i]] = node[Nodes[i]] /\ (Applied(Nodes[i]) => Applied(Nodes[i])')
      BY <1>2, <1>5, <2>1, <2>3
    <3>2. ASSUME ~list[i].skip PROVE Stage(i)'
      BY <1>2, <2>1, <3>1, <3>2 DEF Stage
    <3>3. AnswersOK(i)'
      BY <1>2, <1>3, <2>1, <3>1 DEF AnswersOK, Missed, Fits
    <3> QED
      BY <2>2, <3>2, <3>3
  <2>4. CASE Nodes[i] = n
    <3>1. ASSUME ~list[i].skip PROVE st \in {"apply", "cancel"} /\ Applied(Nodes[i])
      <4>1. node[Nodes[i]] # Nodes0 /\ node[Nodes[i]] # Started /\ node[Nodes[i]] # Armed
        <5>1. Nodes0.reboot = "none" /\ Started.reboot = "none" /\ Armed.reboot = "none"
          BY DEF Nodes0, Started, Armed
        <5> QED
          BY <1>2, <2>4, <5>1
      <4>2. ~Good(node[Nodes[i]]) /\ ~Verified(node[Nodes[i]])
        BY <1>2, <2>4 DEF Good, Verified
      <4>3. st \notin {"blockStart", "checkResult", "chunkStart", "blockGet", "updateGet"}
        BY <2>1, <3>1, <4>2 DEF Stage, Due, Begun, InBlock
      <4>4. st \notin {"query", "updateStart", "transferGet", "transferStart"}
        BY <2>1, <3>1, <4>1 DEF Stage
      <4>5. st \in {"apply", "cancel"}
        BY <1>1, <4>3, <4>4 DEF GatewayTyped, States, Rounds
      <4> QED
        BY <2>1, <3>1, <4>2, <4>5 DEF Stage
    <3>2. ASSUME ~list[i].skip PROVE Stage(i)'
      <4>1. Applied(Nodes[i])' /\ st' \in {"apply", "cancel"}
        BY <1>2, <1>5, <2>1, <3>1, <3>2
      <4>2. ~Verified(node[Nodes[i]])
        BY <1>2, <2>4 DEF Verified
      <4> QED
        BY <1>2, <2>1, <3>2, <4>1, <4>2 DEF Stage
    <3>3. AnswersOK(i)'
      <4> SUFFICES ASSUME NEW e \in Under(i)'
                   PROVE  /\ e.of = Current /\ wait /\ at = i => Fits(i, e.answer)'
                          /\ st \in {"chunkStart", "blockGet"} => list[i].skip
        BY <1>2 DEF AnswersOK
      <4>1. st \in {"chunkStart", "blockGet"} => list[i].skip
        BY <3>1
      <4>2. ASSUME e.of = Current, wait, at = i PROVE Fits(i, e.answer)'
        <5>1. Fits(i, e.answer)
          BY <1>3, <2>1, <4>2 DEF AnswersOK
        <5>2. st = "apply"
          BY <1>1, <3>1, <4>2 DEF CmdOK, GatewayTyped, Rounds
        <5>3. Applied(Nodes[i]) => Applied(Nodes[i])'
          BY <1>5, <2>1
        <5> QED
          BY <1>2, <5>1, <5>2, <5>3 DEF Fits
      <4> QED
        BY <4>1, <4>2
    <3> QED
      BY <2>2, <3>2, <3>3
  <2> QED
    BY <2>3, <2>4
<1> QED
  BY <1>1, <1>4, <1>6 DEF DistrInv, ReceiversOK

-----------------------------------------------------------------------------
(* An answer comes *)

\* What the gateway stores of it.
LEMMA NotedIs ==
  ASSUME NEW r \in Receivers, NEW a \in Answers
  PROVE  /\ Noted(r, a) \in Receivers /\ Noted(r, a).applied = r.applied /\ Noted(r, a).phase = r.phase
         /\ a.ok => Noted(r, a).skip = r.skip
         /\ ~a.ok => (Noted(r, a).skip <=> st # "apply")
         /\ st = "blockStart" => Noted(r, a).started = a.ok
         /\ st # "blockStart" => Noted(r, a).started = r.started
         /\ Noted(r, a).noMissing <=> r.noMissing \/ (st = "blockGet" /\ a.ok /\ a.miss = NoMissing)
<1> DEFINE q == Noted(r, a)
           b == st = "blockGet" /\ a.ok /\ a.miss = NoMissing
<1>1. a.ok \in BOOLEAN
  BY DEF Answers
<1>2. q = [r EXCEPT !.skip = IF a.ok THEN r.skip ELSE st # "apply",
                    !.started = IF st = "blockStart" THEN a.ok ELSE r.started,
                    !.noMissing = r.noMissing \/ b]
  BY DEF Noted, Receivers
<1> HIDE DEF q, b
<1>3. (IF a.ok THEN r.skip ELSE st # "apply") \in BOOLEAN
  BY DEF Receivers
<1>4. (IF st = "blockStart" THEN a.ok ELSE r.started) \in BOOLEAN
  BY <1>1 DEF Receivers
<1>5. (r.noMissing \/ b) \in BOOLEAN
  OBVIOUS
<1>6. /\ q \in Receivers /\ q.applied = r.applied /\ q.phase = r.phase
      /\ q.skip = IF a.ok THEN r.skip ELSE st # "apply"
      /\ q.started = IF st = "blockStart" THEN a.ok ELSE r.started
      /\ q.noMissing = (r.noMissing \/ b)
  BY <1>2, <1>3, <1>4, <1>5 DEF Receivers
<1>7. /\ a.ok => q.skip = r.skip
      /\ ~a.ok => (q.skip <=> st # "apply")
  BY <1>6
<1>8. /\ st = "blockStart" => q.started = a.ok
      /\ st # "blockStart" => q.started = r.started
  BY <1>6
<1>9. q.noMissing <=> r.noMissing \/ b
  BY <1>6
<1> QED
  BY <1>6, <1>7, <1>8, <1>9 DEF q, b

\* The receivers of which no answer is taken.
LEMMA UnheardKeeps ==
  ASSUME DistrInv, NEW i \in 1 .. Cnt, UNCHANGED <<st, block, node, starts, updated>>, list'[i] = list[i],
         plain' \subseteq plain, Under(i)' \subseteq Under(i),
         \/ UNCHANGED <<at, wait, missing>> /\ (wait => cmd' = cmd)
         \/ i # at /\ at \in 1 .. Cnt /\ at' = at + 1 /\ wait' = FALSE /\ missing \subseteq missing'
  PROVE  ReceiverOK(i)'
<1>1. Current' = Current
  BY DEF Current
<1> SUFFICES ASSUME st # "idle", Nodes[i] \in plain
             PROVE  (~list[i].skip => Stage(i)') /\ PhaseOK(i)' /\ AnswersOK(i)'
  BY DEF ReceiverOK
<1>2. (~list[i].skip => Stage(i)) /\ PhaseOK(i) /\ AnswersOK(i)
  BY DEF DistrInv, ReceiversOK, ReceiverOK
<1>3. CASE UNCHANGED <<at, wait, missing>> /\ (wait => cmd' = cmd)
  <2>1. ASSUME ~list[i].skip PROVE Stage(i)'
    BY <1>2, <1>3, <2>1 DEF Stage, Applied
  <2>2. PhaseOK(i)'
    BY <1>2, <1>3 DEF PhaseOK
  <2>3. AnswersOK(i)'
    BY <1>1, <1>2, <1>3 DEF AnswersOK, Missed, Fits, Applied
  <2> QED
    BY <2>1, <2>2, <2>3
<1>4. CASE i # at /\ at \in 1 .. Cnt /\ at' = at + 1 /\ wait' = FALSE /\ missing \subseteq missing'
  <2>1. (at' > i) <=> (at > i)
    BY <1>4, ListOnce
  <2>2. ASSUME ~list[i].skip PROVE Stage(i)'
    BY <1>2, <1>4, <2>1, <2>2 DEF Stage, Applied
  <2>3. PhaseOK(i)'
    BY <1>2, <1>4, <2>1 DEF PhaseOK
  <2>4. AnswersOK(i)'
    BY <1>1, <1>2, <1>4 DEF AnswersOK, Missed
  <2> QED
    BY <2>2, <2>3, <2>4
<1> QED
  BY <1>3, <1>4

\* The receiver at hand of which the answer to the command of this state is taken.
LEMMA HeardKeeps ==
  ASSUME DistrInv, SafeInv', NEW i \in 1 .. Cnt, at = i, wait, st \in Rounds, NEW a \in Answers,
         a.kind = KindOf(st), Nodes[i] \in plain => Fits(i, a),
         Nodes[i] \in plain /\ st = "blockGet" /\ ~list[i].skip => Missed(i, a),
         UNCHANGED <<st, block, node, starts, updated, plain>>, Under(i)' \subseteq Under(i),
         NEW r \in Receivers, r = IF a.kind = "fw" THEN [list[i] EXCEPT !.phase = a.phase] ELSE list[i],
         list'[i] = Noted(r, a), missing' = MissingWith(a), at' = at + 1, wait' = FALSE
  PROVE  ReceiverOK(i)'
<1>1. /\ list[i] \in Receivers /\ at' > i /\ ~(at > i) /\ st # "idle" /\ Current' = Current
      /\ IF st = "apply" THEN list[i].applied ELSE ~list[i].skip
  BY DEF DistrInv, SafeInv, GatewayTyped, CmdOK, Current, Rounds
<1>2. /\ r.skip = list[i].skip /\ r.started = list[i].started /\ r.noMissing = list[i].noMissing
      /\ r.applied = list[i].applied /\ r.phase = IF a.kind = "fw" THEN a.phase ELSE list[i].phase
  BY <1>1 DEF Receivers, Answers
<1>3. /\ list'[i].applied = list[i].applied /\ list'[i].phase = r.phase
      /\ a.ok => list'[i].skip = list[i].skip
      /\ ~a.ok => (list'[i].skip <=> st # "apply")
      /\ st = "blockStart" => list'[i].started = a.ok
      /\ list'[i].noMissing <=> list[i].noMissing \/ (st = "blockGet" /\ a.ok /\ a.miss = NoMissing)
  <2>1. /\ Noted(r, a).applied = r.applied /\ Noted(r, a).phase = r.phase
        /\ a.ok => Noted(r, a).skip = r.skip
        /\ ~a.ok => (Noted(r, a).skip <=> st # "apply")
        /\ st = "blockStart" => Noted(r, a).started = a.ok
        /\ Noted(r, a).noMissing <=> r.noMissing \/ (st = "blockGet" /\ a.ok /\ a.miss = NoMissing)
    BY NotedIs
  <2> QED
    BY <1>2, <2>1
<1> SUFFICES ASSUME Nodes[i] \in plain
             PROVE  (~list'[i].skip => Stage(i)') /\ PhaseOK(i)' /\ AnswersOK(i)'
  BY DEF ReceiverOK
<1>4. (~list[i].skip => Stage(i)) /\ PhaseOK(i) /\ AnswersOK(i) /\ Fits(i, a)
  BY <1>1 DEF DistrInv, ReceiversOK, ReceiverOK
<1>5. ASSUME ~list'[i].skip PROVE Stage(i)'
  <2>1. CASE st = "apply"
    <3>1. ~list[i].skip
      <4>1. list[i].skip => a.ok
        BY <1>4, <2>1 DEF Fits
      <4> QED
        BY <1>3, <1>5, <4>1
    <3>2. Applied(Nodes[i])
      BY <1>4, <2>1, <3>1 DEF Fits
    <3> QED
      BY <1>1, <1>3, <2>1, <3>2 DEF Stage, Applied
  <2>2. CASE st # "apply"
    <3>1. a.ok /\ ~list[i].skip /\ Stage(i)
      BY <1>1, <1>3, <1>4, <1>5, <2>2
    <3>2. CASE st \in {"query", "transferGet"}
      BY <3>1, <3>2 DEF Stage
    <3>3. CASE st \in {"updateStart", "transferStart"}
      BY <1>4, <3>3 DEF Stage, Fits
    <3>4. CASE st = "blockStart"
      <4>1. Due(node[Nodes[i]], block) /\ Begun(node[Nodes[i]], block) /\ list'[i].started
        BY <1>3, <1>4, <3>1, <3>4 DEF Stage, Fits
      <4> QED
        BY <3>4, <4>1 DEF Stage
    <3>5. CASE st = "blockGet"
      <4>1. InBlock(node[Nodes[i]], block) /\ (list[i].noMissing => node[Nodes[i]].rxok)
        BY <3>1, <3>5 DEF Stage
      <4>2. a.miss # {} /\ (a.miss = NoMissing => node[Nodes[i]].rxok)
        BY <3>1, <3>5 DEF Missed
      <4>3. list'[i].noMissing => node[Nodes[i]].rxok
        BY <1>3, <4>1, <4>2
      <4>4. list'[i].noMissing \/ missing' # {}
        <5>1. ASSUME a.miss # NoMissing PROVE missing' # {}
          <6>1. Chunks(block) # {}
            BY <3>5, Numbers DEF DistrInv, SafeInv, PlaceOK
          <6>2. missing' = missing \union IF a.miss = AllMissing THEN Chunks(block) ELSE a.miss
            BY <3>1, <3>5, <5>1 DEF MissingWith
          <6> QED
            BY <4>2, <6>1, <6>2
        <5> QED
          BY <1>3, <3>1, <3>5, <5>1
      <4> QED
        BY <3>5, <4>1, <4>3, <4>4 DEF Stage
    <3>6. CASE st = "updateGet"
      <4>1. Verified(node[Nodes[i]]) /\ a.phase = "verified" /\ a.kind = "fw"
        BY <1>4, <3>6 DEF Fits, KindOf
      <4>2. list'[i].phase = "verified"
        BY <1>2, <1>3, <4>1
      <4> QED
        BY <1>1, <3>6, <4>1, <4>2 DEF Stage
    <3> QED
      BY <2>2, <3>2, <3>3, <3>4, <3>5, <3>6 DEF Rounds
  <2> QED
    BY <2>1, <2>2
<1>6. PhaseOK(i)'
  <2> SUFFICES ASSUME list'[i].phase \in {"verified", "applying"}
               PROVE  /\ (st = "updateGet" /\ ~list'[i].skip) \/ st = "apply"
                      /\ list'[i].skip => list'[i].applied
    BY <1>1 DEF PhaseOK
  <2>1. CASE st = "apply"
    BY <1>1, <1>3, <2>1
  <2>2. CASE st = "updateGet"
    BY <1>1, <1>3, <1>4, <2>2 DEF Fits
  <2>3. CASE st = "updateStart"
    <3>1. a.phase = "active" /\ a.kind = "fw"
      BY <1>4, <2>3 DEF Fits, KindOf
    <3> QED
      BY <1>2, <1>3, <3>1
  <2>4. CASE st \notin {"apply", "updateGet", "updateStart"}
    <3>1. a.kind # "fw"
      BY <2>4 DEF KindOf, Rounds
    <3>2. list[i].phase \in {"verified", "applying"}
      BY <1>2, <1>3, <3>1
    <3> QED
      BY <1>1, <1>4, <2>4, <3>2 DEF PhaseOK, Rounds
  <2> QED
    BY <2>1, <2>2, <2>3, <2>4
<1>7. AnswersOK(i)'
  <2> SUFFICES ASSUME NEW e \in Under(i)', st \in {"chunkStart", "blockGet"}, ~list'[i].skip,
                      e.of = <<starts, "blockGet", block>>
               PROVE  Missed(i, e.answer)'
    BY DEF AnswersOK
  <2>1. ~list[i].skip /\ e \in Under(i)
    BY <1>1
  <2>2. Missed(i, e.answer)
    BY <1>4, <2>1 DEF AnswersOK
  <2> QED
    BY <2>2 DEF Missed
<1> QED
  BY <1>5, <1>6, <1>7

\* An answer arrives.
LEMMA RxAnswerKeeps ==
  ASSUME DistrInv, NEW n \in Node, RxAnswer(n)
  PROVE  DistrInv'
<1> DEFINE h == Head(back[n])
           a == h.answer
           known == IF Looked(n, a) /\ a.kind = "fw" THEN [list EXCEPT ![at].phase = a.phase] ELSE list
<1>1. /\ SafeInv' /\ SafeInv /\ GatewayTyped /\ CmdOK /\ NodesOK /\ Current' = Current
      /\ UNCHANGED <<st, block, node, starts, updated>>
  BY RxAnswerSafe DEF DistrInv, SafeInv, RxAnswer, Current
<1>2. back[n] # <<>> /\ back'[n] = Tail(back[n]) /\ \A m \in Node : m # n => back'[m] = back[m]
  BY <1>1 DEF RxAnswer, NodesOK
<1>3. PICK k \in 1 .. Cnt : n = Nodes[k]
  BY ListOnce
<1>4. ASSUME NEW i \in 1 .. Cnt PROVE Under(i)' \subseteq Under(i)
  <2>1. CASE Nodes[i] = n
    BY <1>1, <1>2, <2>1, UnderTail
  <2>2. CASE Nodes[i] # n
    BY <1>2, <2>2, UnderSame, ListOnce
  <2> QED
    BY <2>1, <2>2
<1>5. h \in Under(k) /\ h \in Entries /\ a \in Answers
  BY <1>1, <1>2, <1>3, UnderType DEF Entries
<1>6. /\ plain' = IF Looked(n, a) /\ h.of # Current THEN plain \ {n} ELSE plain
      /\ cmd' = IF a.kind # KindOf(cmd.op) \/ n \notin cmd.to THEN cmd
                ELSE IF cmd.left = 1 THEN NoCmd ELSE [cmd EXCEPT !.left = @ - 1]
      /\ IF Taken(n, a)
         THEN list' = [known EXCEPT ![at] = Noted(@, a)] /\ missing' = MissingWith(a) /\ at' = at + 1 /\ wait' = FALSE
         ELSE list' = known /\ UNCHANGED <<missing, at, wait>>
  BY DEF RxAnswer
<1> HIDE DEF a, h
<1>7. wait => at \in 1 .. Cnt /\ st \in Rounds /\ st # "idle"
  BY <1>1, ListOnce DEF GatewayTyped, Rounds
<1>8. /\ \A i \in 1 .. Cnt : i # at => list'[i] = list[i]
      /\ \A i \in 1 .. Cnt : list'[i].applied = list[i].applied
      /\ ~Looked(n, a) => list' = list
      /\ Taken(n, a) => \A i \in 1 .. Cnt : i = at => list'[i] = Noted(known[i], a)
      /\ \A i \in 1 .. Cnt : known[i] \in Receivers
      /\ Taken(n, a) => \A i \in 1 .. Cnt : i = at =>
            known[i] = IF a.kind = "fw" THEN [list[i] EXCEPT !.phase = a.phase] ELSE list[i]
  <2>1. Taken(n, a) => Looked(n, a) /\ at \in 1 .. Cnt
    BY <1>7 DEF Taken, Looked
  <2>2. Looked(n, a) => at \in 1 .. Cnt
    BY <1>7 DEF Looked
  <2>3. /\ \A i \in 1 .. Cnt : known[i] \in Receivers /\ known[i].applied = list[i].applied
        /\ \A i \in 1 .. Cnt : i # at => known[i] = list[i]
        /\ known \in [1 .. Cnt -> Receivers]
    <3>2. CASE Looked(n, a) /\ a.kind = "fw"
      <4>1. [list[at] EXCEPT !.phase = a.phase] \in Receivers
            /\ [list[at] EXCEPT !.phase = a.phase].applied = list[at].applied
        BY <1>1, <1>5, <2>2, <3>2 DEF GatewayTyped, Receivers, Answers
      <4> QED
        BY <1>1, <2>2, <3>2, <4>1 DEF GatewayTyped
    <3>3. CASE ~(Looked(n, a) /\ a.kind = "fw")
      BY <1>1, <3>3 DEF GatewayTyped
    <3> QED
      BY <3>2, <3>3
  <2>4. \A i \in 1 .. Cnt : Taken(n, a) /\ i = at =>
            known[i] = IF a.kind = "fw" THEN [list[i] EXCEPT !.phase = a.phase] ELSE list[i]
    BY <1>1, <2>1 DEF GatewayTyped
  <2>5. ~Looked(n, a) => known = list
    OBVIOUS
  <2> HIDE DEF known
  <2>6. CASE Taken(n, a)
    <3>1. list' = [known EXCEPT ![at] = Noted(known[at], a)]
      BY <1>6, <2>6
    <3>2. \A i \in 1 .. Cnt : i = at => list'[i] = Noted(known[i], a)
      BY <2>1, <2>3, <2>6, <3>1
    <3>3. \A i \in 1 .. Cnt : i # at => list'[i] = known[i]
      BY <2>3, <3>1
    <3>4. \A i \in 1 .. Cnt : list'[i].applied = list[i].applied
      BY <1>5, <2>3, <3>2, <3>3, NotedIs
    <3> QED
      BY <2>1, <2>3, <2>4, <2>6, <3>2, <3>3, <3>4
  <2>7. CASE ~Taken(n, a)
    BY <1>6, <2>3, <2>5, <2>7
  <2> QED
    BY <2>6, <2>7
<1> HIDE DEF known
<1>9. ASSUME wait, ~Taken(n, a) PROVE cmd' = cmd
  <2>1. a.kind # KindOf(st) \/ n # Nodes[at]
    BY <1>9 DEF Taken
  <2>2. CASE cmd = NoCmd
    BY <1>6, <2>2 DEF NoCmd
  <2>3. CASE cmd # NoCmd
    <3>1. KindOf(cmd.op) = KindOf(st) /\ cmd.to = {Nodes[at]}
      BY <1>1, <1>9, <2>3 DEF CmdOK, KindOf
    <3> QED
      BY <1>6, <2>1, <3>1
  <2> QED
    BY <2>2, <2>3
<1>10. Taken(n, a) => missing \subseteq missing'
  BY <1>6 DEF MissingWith
<1>11. KnownOK'
  <2> SUFFICES ASSUME NEW i \in 1 .. Cnt, NEW e \in Under(i)' PROVE Known(i, e)'
    BY DEF KnownOK
  <2>1. Known(i, e)
    BY <1>4 DEF DistrInv, KnownOK
  <2>2. list'[i].applied = list[i].applied
    BY <1>8
  <2>3. at > i \/ (wait /\ at = i) => at' > i \/ (wait' /\ at' = i)
    BY <1>1, <1>6, <1>7 DEF GatewayTyped
  <2> QED
    BY <1>1, <2>1, <2>2, <2>3 DEF Known
<1>12. ASSUME NEW i \in 1 .. Cnt PROVE ReceiverOK(i)'
  <2>1. plain' \subseteq plain
    BY <1>6
  <2>2. CASE ~Looked(n, a)
    <3>1. ~Taken(n, a)
      BY <2>2 DEF Taken, Looked
    <3>2. UNCHANGED <<at, wait, missing>> /\ list'[i] = list[i]
      BY <1>6, <1>8, <2>2, <3>1
    <3> QED
      BY <1>1, <1>4, <1>9, <2>1, <3>1, <3>2, UnheardKeeps
  <2>3. CASE Looked(n, a) /\ i # at
    <3>1. list'[i] = list[i]
      BY <1>8, <2>3
    <3>2. CASE Taken(n, a)
      <4>1. i # at /\ at \in 1 .. Cnt /\ at' = at + 1 /\ wait' = FALSE /\ missing \subseteq missing'
        BY <1>6, <1>7, <1>10, <2>3, <3>2 DEF Taken
      <4> QED
        BY <1>1, <1>4, <2>1, <3>1, <4>1, UnheardKeeps
    <3>3. CASE ~Taken(n, a)
      BY <1>1, <1>4, <1>6, <1>9, <2>1, <3>1, <3>3, UnheardKeeps
    <3> QED
      BY <3>2, <3>3
  <2>4. CASE Looked(n, a) /\ i = at /\ h.of # Current
    <3>1. n = Nodes[i] /\ Nodes[i] \notin plain'
      BY <1>6, <2>4 DEF Looked
    <3> QED
      BY <3>1 DEF ReceiverOK
  <2>5. CASE Looked(n, a) /\ i = at /\ h.of = Current
    <3>1. n = Nodes[i] /\ wait /\ st \in Rounds /\ st # "idle" /\ i = k
      BY <1>3, <1>7, <2>5, ListOnce DEF Looked
    <3>2. h.of = <<starts, st, block>> /\ h.of[1] = starts /\ h.of[2] = st
      BY <2>5 DEF Current
    <3>3. a.kind = KindOf(st)
      BY <1>5, <3>1, <3>2 DEF DistrInv, KnownOK, Known, a
    <3>4. Taken(n, a)
      BY <2>5, <3>1, <3>3 DEF Taken
    <3>5. Nodes[i] \in plain => Fits(i, a)
      BY <1>5, <2>5, <3>1 DEF DistrInv, ReceiversOK, ReceiverOK, AnswersOK, a
    <3>6. Nodes[i] \in plain /\ st = "blockGet" /\ ~list[i].skip => Missed(i, a)
      BY <1>5, <3>1, <3>2 DEF DistrInv, ReceiversOK, ReceiverOK, AnswersOK, a
    <3>7. /\ plain' = plain /\ missing' = MissingWith(a) /\ at' = at + 1 /\ wait' = FALSE
          /\ list'[i] = Noted(known[i], a) /\ known[i] \in Receivers
          /\ known[i] = IF a.kind = "fw" THEN [list[i] EXCEPT !.phase = a.phase] ELSE list[i]
      BY <1>6, <1>8, <2>5, <3>4
    <3> DEFINE r == known[i]
    <3> HIDE DEF r
    <3>8. /\ r \in Receivers /\ list'[i] = Noted(r, a)
          /\ r = IF a.kind = "fw" THEN [list[i] EXCEPT !.phase = a.phase] ELSE list[i]
      BY <3>7 DEF r
    <3> QED
      BY <1>1, <1>4, <1>5, <2>5, <3>1, <3>3, <3>5, <3>6, <3>7, <3>8, HeardKeeps
  <2> QED
    BY <2>2, <2>3, <2>4, <2>5
<1> QED
  BY <1>1, <1>11, <1>12 DEF DistrInv, ReceiversOK

-----------------------------------------------------------------------------
(* Chunks go to their block, and the report is true *)

\* The first state: no distribution, and nothing under way.
LEMMA DistrStart ==
  ASSUME Init
  PROVE  DistrInv
<1>1. \A i \in 1 .. Cnt : Under(i) = {}
  BY ListOnce DEF Init, Under
<1> QED
  BY <1>1, SafeStart DEF Init, DistrInv, KnownOK, ReceiversOK, ReceiverOK

\* Every step keeps what is known of the receivers.
LEMMA DistrStep ==
  ASSUME DistrInv, [Next]_vars
  PROVE  DistrInv'
<1>1. CASE Proc
  BY <1>1, PassKeeps, SendsKeeps, EndRoundKeeps, CheckResultKeeps, LastKeeps, SendChunkKeeps, ReportKeeps DEF Proc
<1>2. CASE Retry \/ SegmentTimeout \/ AppStart \/ AppCancel
  BY <1>2, RetryKeeps, SegmentTimeoutKeeps, AppStartKeeps, AppCancelKeeps
<1>3. CASE \E n \in Node : RxAnswer(n) \/ Reboot(n) \/ Restart(n)
  BY <1>3, RxAnswerKeeps, RebootKeeps, RestartKeeps
<1>4. CASE UNCHANGED vars
  <2>1. SafeInv'
    BY <1>4, SafeStep DEF DistrInv
  <2>2. /\ UNCHANGED <<st, at, wait, block, missing, list, cmd, back, node, starts, updated, plain>>
        /\ Current' = Current
    BY <1>4 DEF vars, history, Current
  <2>3. ASSUME NEW i \in 1 .. Cnt PROVE Under(i)' = Under(i)
    BY <2>2, <2>3, UnderSame
  <2>4. KnownOK'
    BY <2>2, <2>3 DEF DistrInv, KnownOK, Known
  <2>5. ASSUME NEW i \in 1 .. Cnt PROVE ReceiverOK(i)'
    BY <2>2, <2>3, UnheardKeeps
  <2> QED
    BY <2>1, <2>4, <2>5 DEF DistrInv, ReceiversOK
<1> QED
  BY <1>1, <1>2, <1>3, <1>4 DEF Next

\* A receiver that is not skipped is where the state of the gateway says: DistrInv.
THEOREM DistrInvariant == Spec => []DistrInv
<1>1. Init => DistrInv
  BY DistrStart
<1>2. DistrInv /\ [Next]_vars => DistrInv'
  BY DistrStep
<1> QED
  BY <1>1, <1>2, PTL DEF Spec

\* The flash of a node by its stage.
LEMMA StageInPlace ==
  ASSUME DistrInv, NEW i \in 1 .. Cnt, st # "idle", Stage(i), NEW p \in Image
  PROVE  node[Nodes[i]].flash[p] \in {Erased, p}
<1> DEFINE r == node[Nodes[i]]
<1>1. Nodes0.flash[p] = Erased /\ Started.flash[p] = Erased /\ Armed.flash[p] = Erased
  BY DEF Nodes0, Started, Armed
<1>2. Good(r) => r.flash[p] \in {Erased, p}
  BY DEF Good
<1>3. Whole(r) => r.flash[p] = p
  BY DEF Whole
<1>4. Applied(Nodes[i]) => r = Nodes0 \/ Whole(r)
  BY DEF Applied, Rebooting
<1>5. Verified(r) => Whole(r)
  BY DEF Verified
<1>6. \/ r \in {Nodes0, Started, Armed}
      \/ Good(r) \/ Verified(r) \/ Applied(Nodes[i])
  BY DEF Stage, Due, Begun, InBlock, DistrInv, SafeInv, GatewayTyped, States, Rounds
<1> QED
  BY <1>1, <1>2, <1>3, <1>4, <1>5, <1>6

\* ChunksInPlace: a receiver that is not skipped has no chunk at the place of another.
THEOREM ChunksToTheirBlock == Spec => []ChunksInPlace
<1>1. ASSUME DistrInv PROVE ChunksInPlace
  <2>1. ASSUME NEW i \in 1 .. Cnt, st # "idle", Nodes[i] \in plain, ~list[i].skip, NEW p \in Image
        PROVE  node[Nodes[i]].flash[p] \in {Erased, p}
    BY <1>1, <2>1, StageInPlace DEF DistrInv, ReceiversOK, ReceiverOK
  <2> QED
    BY <2>1 DEF ChunksInPlace
<1> QED
  BY <1>1, DistrInvariant, PTL

\* ReportIsTrue: a receiver that the gateway does not report as failed starts with the new
\* firmware, or has done so.
THEOREM OnlyTrueReports == Spec => ReportIsTrue
<1>1. ASSUME DistrInv
      PROVE  st = "cancel" /\ st' = "idle" =>
                 \A i \in 1 .. Cnt : Nodes[i] \in plain /\ ~list[i].skip =>
                     Nodes[i] \in updated \/ node[Nodes[i]].reboot = "success"
  <2>1. ASSUME NEW i \in 1 .. Cnt, st = "cancel", Nodes[i] \in plain, ~list[i].skip
        PROVE  Applied(Nodes[i])
    BY <1>1, <2>1 DEF DistrInv, ReceiversOK, ReceiverOK, Stage
  <2> QED
    BY <2>1 DEF Applied, Rebooting
<1> QED
  BY <1>1, DistrInvariant, PTL DEF ReportIsTrue
-----------------------------------------------------------------------------
(* A distribution without faults: every receiver is updated, although chunks   *)
(* are lost.                                                                   *)

\* Without faults every receiver takes part in it from an idle state, and none is skipped.
AllTakePart ==
    /\ st # "idle" => plain = Node
    /\ st = "idle" => \A n \in Node : node[n] = Nodes0 \/ node[n].reboot = "success"
    /\ \A i \in 1 .. Cnt : ~list[i].skip

\* The answer to a block get tells what the node misses.
Truth(r) == IF r.miss = {} THEN NoMissing ELSE IF r.miss = Chunks(block) THEN AllMissing ELSE r.miss

\* The gateway waits for one answer, which is on its way and says that all went well.
AnswerComes(i) ==
    LET e == back[Nodes[i]][1]
    IN  /\ Len(back[Nodes[i]]) = 1
        /\ e.of = Current /\ e.answer.ok /\ e.answer.kind = KindOf(st)
        /\ st = "blockGet" => e.answer.miss = Truth(node[Nodes[i]])
OneByOne ==
    /\ cmd.acked /\ (wait <=> cmd # NoCmd)
    /\ \A i \in 1 .. Cnt : IF wait /\ at = i THEN AnswerComes(i) ELSE back[Nodes[i]] = <<>>

\* In a round of block gets the gateway knows what the nodes before miss, and no more than
\* nodes do miss.
AllMiss == UNION {node[n].miss : n \in Node}
MissKnown ==
    st = "blockGet" => /\ missing \subseteq AllMiss
                       /\ \A i \in 1 .. Cnt : at > i => node[Nodes[i]].miss \subseteq missing

\* In a round of applies only the node with the connection is passed.
ApplyOrder ==
    st = "apply" => \A i \in 1 .. Cnt : at > i => list[i].applied \/ Nodes[i] = Connected

Smooth == faults = 0 => AllTakePart /\ OneByOne /\ MissKnown /\ ApplyOrder

-----------------------------------------------------------------------------
(* How far a distribution is from its end *)

\* A round of applies in which the node with the connection is passed has another after it.
FirstApply == NotApplied > 1 \/ \E i \in 1 .. Cnt : at > i /\ ~list[i].applied

\* After a round of chunks in which none was lost no chunk is missing.
WillMiss == IF st = "chunkStart" THEN ~(AllMiss \subseteq missing) ELSE AllMiss # {}

\* Rounds to come, if no chunk is lost.
BlockLevel ==
    CASE st = "blockStart" -> 6 [] st = "checkResult" -> 5
      [] st = "chunkStart" -> IF WillMiss THEN 4 ELSE 2
      [] st = "blockGet" -> IF WillMiss THEN 3 ELSE 1
Level ==
    CASE st \in {"idle", "cancel"} -> 0
      [] st = "apply" -> IF FirstApply THEN 2 ELSE 1
      [] st = "updateGet" -> 3
      [] st \in {"blockStart", "checkResult", "chunkStart", "blockGet"} ->
            4 + 7 * (NumBlocks - block) + BlockLevel
      [] st = "transferStart" -> 11 + 7 * NumBlocks
      [] st = "transferGet" -> 12 + 7 * NumBlocks
      [] st = "updateStart" -> 13 + 7 * NumBlocks
      [] st = "query" -> 14 + 7 * NumBlocks

\* Steps to come in a round: chunks, or commands and answers.
StepsToCome ==
    CASE st = "chunkStart" -> Cardinality(ToSend)
      [] st \in Rounds -> 2 * (Cnt + 1 - at) + IF wait THEN 0 ELSE 1
      [] OTHER -> 0

Levels == 15 + 7 * NumBlocks
MaxSteps == 2 * Cnt + Cardinality(AllChunks) + 2
FarLevel == Levels * (MaxLoss - lost) + Level
DistrRank == MaxSteps * FarLevel + StepsToCome

-----------------------------------------------------------------------------
(* The steps of such a distribution *)

SmoothInv == DistrInv /\ Smooth

\* The receiver at hand handled the command of the state, and its answer is on its way.
Asking ==
    /\ at \in 1 .. Cnt /\ st \in Rounds /\ ~wait /\ wait' = TRUE /\ cmd' # NoCmd /\ cmd'.acked
    /\ UNCHANGED <<st, at, block, missing, lost, starts, history>>
    /\ node' = [node EXCEPT ![Nodes[at]] = Handled(st, @, block)]
    /\ back' = [back EXCEPT ![Nodes[at]] =
                  Append(@, [of |-> Current, answer |-> AnswerTo(st, node[Nodes[at]], block)])]
    /\ \A i \in 1 .. Cnt : list'[i].skip = list[i].skip /\ (i # at => list'[i] = list[i])
    /\ IF st = "apply" THEN Verified(node[Nodes[at]]) /\ ~list[at].applied /\ list'[at].applied ELSE list' = list

\* Its answer arrives and is taken.
Answering ==
    /\ wait /\ wait' = FALSE /\ at \in 1 .. Cnt /\ at' = at + 1 /\ st \in Rounds
    /\ cmd' = NoCmd /\ UNCHANGED <<st, block, node, lost, starts, updated, plain>>
    /\ back[Nodes[at]] # <<>> /\ \A n \in Node : back'[n] = <<>>
    /\ \A i \in 1 .. Cnt : list'[i].skip = list[i].skip /\ list'[i].applied = list[i].applied
    /\ st = "blockGet" => missing' = missing \union node[Nodes[at]].miss

\* Without faults every receiver is at the stage that the state says.
LEMMA AllAtStage ==
  ASSUME SmoothInv, faults = 0, st # "idle", NEW i \in 1 .. Cnt
  PROVE  Stage(i) /\ ~list[i].skip /\ Nodes[i] \in Node /\ Nodes[i] \in plain
         /\ node[Nodes[i]] \in NodeStates /\ Sound(node[Nodes[i]])
BY ListOnce DEF SmoothInv, Smooth, AllTakePart, DistrInv, ReceiversOK, ReceiverOK, SafeInv, NodesOK

\* A command that is not lost reaches its one receiver.
LEMMA SureTransmit ==
  ASSUME NodesOK, NEW c \in Commands, NEW n \in Node, c.to = {n}, Transmit(c, 0), faults = 0, faults' = 0
  PROVE  /\ cmd' = [c EXCEPT !.acked = TRUE] /\ cmd'.acked /\ cmd'.op = c.op
         /\ node' = [node EXCEPT ![n] = Handled(c.op, @, c.of[3])]
         /\ back' = [back EXCEPT ![n] = Append(@, [of |-> c.of, answer |-> AnswerTo(c.op, node[n], c.of[3])])]
<1>1. PICK reached \in SUBSET c.to, acked \in BOOLEAN :
        \E heard \in SUBSET reached :
            /\ node' = [m \in Node |-> IF m \in reached THEN Handled(c.op, node[m], c.of[3]) ELSE node[m]]
            /\ back' = [m \in Node |->
                          IF m \in heard
                          THEN Append(back[m], [of |-> c.of, answer |-> AnswerTo(c.op, node[m], c.of[3])])
                          ELSE back[m]]
            /\ cmd' = [c EXCEPT !.acked = acked]
            /\ faults' = faults + 0 + IF heard # c.to \/ ~acked THEN 1 ELSE 0
  BY DEF Transmit
<1>2. PICK heard \in SUBSET reached :
            /\ node' = [m \in Node |-> IF m \in reached THEN Handled(c.op, node[m], c.of[3]) ELSE node[m]]
            /\ back' = [m \in Node |->
                          IF m \in heard
                          THEN Append(back[m], [of |-> c.of, answer |-> AnswerTo(c.op, node[m], c.of[3])])
                          ELSE back[m]]
            /\ cmd' = [c EXCEPT !.acked = acked]
            /\ faults' = faults + 0 + IF heard # c.to \/ ~acked THEN 1 ELSE 0
  BY <1>1
<1>3. heard = {n} /\ acked = TRUE
  BY <1>2
<1>4. reached = {n}
  BY <1>3
<1>5. DOMAIN node = Node /\ DOMAIN back = Node /\ node = [m \in Node |-> node[m]] /\ back = [m \in Node |-> back[m]]
  BY DEF NodesOK
<1>6. cmd' = [c EXCEPT !.acked = TRUE] /\ cmd'.acked /\ cmd'.op = c.op
  BY <1>2, <1>3 DEF Commands
<1>7. node' = [node EXCEPT ![n] = Handled(c.op, @, c.of[3])]
  BY <1>2, <1>4, <1>5
<1>8. back' = [back EXCEPT ![n] = Append(@, [of |-> c.of, answer |-> AnswerTo(c.op, node[n], c.of[3])])]
  BY <1>2, <1>3, <1>5
<1> QED
  BY <1>6, <1>7, <1>8

\* A state asks the receiver at hand.
LEMMA SendIsAsking ==
  ASSUME SmoothInv, faults = 0, faults' = 0, SendToReceiver \/ SendApply
  PROVE  Asking
<1>1. /\ SafeInv /\ GatewayTyped /\ NodesOK /\ Cnt \in Nat \ {0}
  BY ListOnce DEF SmoothInv, DistrInv, SafeInv
<1>2. /\ at <= Cnt /\ ~wait /\ wait' = TRUE /\ st # "idle"
      /\ UNCHANGED <<st, at, block, missing, lost, starts, history>>
  BY DEF SendToReceiver, SendApply, InRound, Ready
<1>3. at \in 1 .. Cnt /\ Nodes[at] \in Node
  BY <1>1, <1>2, ListOnce DEF GatewayTyped
<1>4. Stage(at) /\ ~list[at].skip
  BY <1>2, <1>3, AllAtStage
<1>5. ASSUME NEW op \in Ops
      PROVE  /\ CommandOf(op, {Nodes[at]}) \in Commands /\ CommandOf(op, {Nodes[at]}).op = op
             /\ CommandOf(op, {Nodes[at]}).of = Current /\ CommandOf(op, {Nodes[at]}).of[3] = block
             /\ CommandOf(op, {Nodes[at]}).to = {Nodes[at]}
  BY <1>1, <1>3, <1>5, CommandType DEF CommandOf, Current
<1>6. PICK op \in Ops :
         /\ op = st /\ st \in Rounds /\ Reliable(op, {Nodes[at]}, 0)
         /\ IF st = "apply" THEN ~list[at].applied /\ list' = [list EXCEPT ![at].applied = TRUE] ELSE list' = list
  <2>1. CASE SendToReceiver
    BY <2>1 DEF SendToReceiver, InRound, Ops
  <2>2. CASE SendApply
    <3>1. st = "apply" /\ ~list[at].applied /\ "apply" \in Ops /\ "apply" \in Rounds
      BY <2>2 DEF SendApply, Ops, Rounds
    <3>2. list[at].phase = "verified"
      BY <1>4, <3>1 DEF Stage
    <3> QED
      BY <2>2, <3>1, <3>2 DEF SendApply
  <2> QED
    BY <2>1, <2>2
<1>7. Transmit(CommandOf(op, {Nodes[at]}), 0)
  BY <1>6 DEF Reliable, CommandOf
<1>8. /\ cmd'.acked /\ cmd'.op = op
      /\ node' = [node EXCEPT ![Nodes[at]] = Handled(op, @, block)]
      /\ back' = [back EXCEPT ![Nodes[at]] = Append(@, [of |-> Current, answer |-> AnswerTo(op, node[Nodes[at]], block)])]
  <2> DEFINE c == CommandOf(op, {Nodes[at]})
  <2>1. c \in Commands /\ c.op = op /\ c.of = Current /\ c.of[3] = block /\ c.to = {Nodes[at]} /\ Transmit(c, 0)
    BY <1>5, <1>7
  <2> HIDE DEF c
  <2>2. /\ cmd'.acked /\ cmd'.op = c.op
        /\ node' = [node EXCEPT ![Nodes[at]] = Handled(c.op, @, c.of[3])]
        /\ back' = [back EXCEPT ![Nodes[at]] = Append(@, [of |-> c.of, answer |-> AnswerTo(c.op, node[Nodes[at]], c.of[3])])]
    BY <1>1, <1>3, <2>1, SureTransmit
  <2> QED
    BY <2>1, <2>2
<1>9. cmd' # NoCmd
  BY <1>8 DEF Ops, Rounds, NoCmd
<1>10. st = "apply" => Verified(node[Nodes[at]])
  BY <1>4, <1>6 DEF Stage
<1>11. /\ \A i \in 1 .. Cnt : list'[i].skip = list[i].skip /\ (i # at => list'[i] = list[i])
       /\ st = "apply" => list'[at].applied
  BY <1>1, <1>3, <1>6 DEF GatewayTyped, Receivers
<1> QED
  BY <1>2, <1>3, <1>6, <1>8, <1>9, <1>10, <1>11 DEF Asking

\* A receiver at the stage of the state says that all went well, and what it misses.
LEMMA AnswerIsGood ==
  ASSUME NodesOK, PlaceOK, GatewayTyped, NEW i \in 1 .. Cnt, Stage(i), at = i, ~wait, st \in Rounds,
         ~(st = "blockStart" /\ block = NumBlocks), st = "apply" => Verified(node[Nodes[i]]),
         NEW a, a = AnswerTo(st, node[Nodes[i]], block), NEW s, s = Handled(st, node[Nodes[i]], block)
  PROVE  /\ a.ok /\ a.kind = KindOf(st) /\ a \in Answers
         /\ st = "blockGet" => a.miss = Truth(s) /\ s.miss = node[Nodes[i]].miss
<1> DEFINE r == node[Nodes[i]]
<1>1. Nodes[i] \in Node /\ r \in NodeStates /\ Sound(r) /\ ~(at > i)
  BY ListOnce DEF NodesOK
<1>2. st \in {"blockStart", "blockGet"} => block \in Blocks
  BY Numbers DEF PlaceOK, GatewayTyped
<1>3. a.kind = KindOf(st) /\ a \in Answers
  BY <1>1, <1>2, AnswerType DEF Rounds
<1>4. CASE st \in {"query", "transferGet"}
  BY <1>3, <1>4 DEF AnswerTo, Answer, TransferStatus
<1>5. CASE st = "updateStart"
  <2>1. r = Started \/ r = Nodes0
    BY <1>5 DEF Stage
  <2>2. Nodes0.busy = FALSE /\ Nodes0.up = "idle" /\ Started.busy = TRUE
    BY Nodes0OK DEF Nodes0, Started
  <2>3. StartIsRepeat(r) => r.busy
    BY <2>1, <2>2 DEF StartIsRepeat
  <2>4. a = FwStatus(UpdateStart(r), TRUE)
    BY <1>5, <2>3 DEF AnswerTo, UpdateStartAnswer
  <2> QED
    BY <1>3, <1>5, <2>4 DEF FwStatus, Answer
<1>6. CASE st = "transferStart"
  <2>1. r = Started \/ r = Armed
    BY <1>6 DEF Stage
  <2>2. r.busy = TRUE
    BY <2>1, Nodes0OK DEF Nodes0, Started, Armed
  <2> QED
    BY <1>3, <1>6, <2>2 DEF AnswerTo, TransferStartAnswer, TransferStatus, Answer
<1>7. CASE st = "blockStart"
  <2>1. Due(r, block) /\ block \in Blocks
    BY <1>2, <1>7 DEF Stage
  <2>2. BlockStartOk(r, block) = TRUE
    BY <1>1, <2>1, Numbers DEF Due, Good, BlockStartOk, Transferring
  <2> QED
    BY <1>3, <1>7, <2>2 DEF AnswerTo, BlockStartAnswer, BlockStatus, Answer
<1>8. CASE st = "blockGet"
  <2>1. InBlock(r, block) /\ block \in Blocks
    BY <1>2, <1>8 DEF Stage
  <2>2. Transferring(r) = TRUE /\ r.bcur = block /\ r.bnum = block /\ r.miss \subseteq Chunks(block)
    BY <2>1 DEF InBlock, Good, Transferring
  <2>3. s.miss = r.miss
    <3>1. CASE r.miss = {} /\ Transferring(r)
      <4>1. s = AllChunksRx(r)
        BY <1>8, <3>1 DEF Handled, BlockGet
      <4>2. r.rxok
        BY <1>1, <2>1, <3>1 DEF InBlock, Good
      <4>3. [r EXCEPT !.sums[r.bnum] = IF ~r.rxok /\ @ = "none" THEN SumOf(r) ELSE @, !.rxok = TRUE] = r
        BY <1>1, <4>2 DEF NodeStates
      <4>4. s = [r EXCEPT !.tp = IF RxOkCount(r) = NumBlocks THEN "complete" ELSE "waitBlock"]
        BY <4>1, <4>3 DEF AllChunksRx
      <4> QED
        BY <1>1, <4>4 DEF NodeStates
    <3>2. CASE ~(r.miss = {} /\ Transferring(r))
      BY <1>8, <3>2 DEF Handled, BlockGet
    <3> QED
      BY <3>1, <3>2
  <2>4. a = BlockStatus(Transferring(r), IF r.miss = {} THEN NoMissing
                                          ELSE IF r.miss = Chunks(block) THEN AllMissing ELSE r.miss)
    <3>1. a = BlockStatus(Transferring(r), CASE r.miss = {} -> NoMissing
                                             [] r.miss = Chunks(block) -> AllMissing
                                             [] OTHER -> r.miss \intersect Chunks(block))
      BY <1>8, <2>2 DEF AnswerTo, BlockGetAnswer
    <3>2. 0 \in Chunks(block) /\ r.miss \intersect Chunks(block) = r.miss
      BY <2>1, <2>2, Numbers
    <3>3. (CASE r.miss = {} -> NoMissing
             [] r.miss = Chunks(block) -> AllMissing
             [] OTHER -> r.miss \intersect Chunks(block))
          = IF r.miss = {} THEN NoMissing ELSE IF r.miss = Chunks(block) THEN AllMissing ELSE r.miss
      BY <3>2
    <3> QED
      BY <3>1, <3>3
  <2> QED
    BY <1>3, <1>8, <2>2, <2>3, <2>4 DEF BlockStatus, Answer, Truth
<1>9. CASE st = "updateGet"
  BY <1>3, <1>9 DEF AnswerTo, FwStatus, Answer
<1>10. CASE st = "apply"
  <2>1. CanApply(r) /\ CrcDone(r) = "ok"
    BY <1>10 DEF Verified, CanApply, CrcDone
  <2> QED
    BY <1>3, <1>10, <2>1 DEF AnswerTo, UpdateApplyAnswer, FwStatus, Answer
<1> QED
  BY <1>3, <1>4, <1>5, <1>6, <1>7, <1>8, <1>9, <1>10 DEF Rounds

\* A receiver says which chunks it misses, or all, or none.
LEMMA TruthAdds ==
  ASSUME NEW r, r.miss \subseteq Chunks(block), block \in Blocks, NEW a, a.ok, a.miss = Truth(r), st = "blockGet"
  PROVE  MissingWith(a) = missing \union r.miss
<1>1. Chunks(block) \subseteq Nat /\ 0 \in Chunks(block)
  BY Numbers
<1>2. AllMissing # NoMissing /\ \A x \in SUBSET Nat : x # AllMissing /\ x # NoMissing
  <2>1. -1 # -2 /\ -2 \notin Nat /\ -1 \notin Nat
    OBVIOUS
  <2>2. -1 \in AllMissing /\ -1 \notin NoMissing /\ -2 \in NoMissing
    BY <2>1 DEF AllMissing, NoMissing
  <2> QED
    BY <2>1, <2>2
<1>3. CASE r.miss = {}
  BY <1>3 DEF MissingWith, Truth
<1>4. CASE r.miss # {} /\ r.miss = Chunks(block)
  BY <1>2, <1>4 DEF MissingWith, Truth
<1>5. CASE r.miss # {} /\ r.miss # Chunks(block)
  BY <1>1, <1>2, <1>5 DEF MissingWith, Truth
<1> QED
  BY <1>3, <1>4, <1>5

\* The answer that is waited for is the only one, and is taken.
LEMMA RxIsAnswering ==
  ASSUME SmoothInv, faults = 0, NEW n \in Node, RxAnswer(n)
  PROVE  Answering
<1>1. /\ SafeInv /\ GatewayTyped /\ NodesOK /\ PlaceOK /\ CmdOK /\ OneByOne /\ Cnt \in Nat \ {0}
  BY ListOnce DEF SmoothInv, Smooth, DistrInv, SafeInv
<1>2. PICK i \in 1 .. Cnt : n = Nodes[i]
  BY ListOnce
<1> DEFINE e == back[n][1]
           a == e.answer
           known == IF a.kind = "fw" THEN [list EXCEPT ![at].phase = a.phase] ELSE list
<1>3. back[n] # <<>> /\ back[n] \in Seq(Entries)
  BY <1>1 DEF RxAnswer, NodesOK
<1>4. wait /\ at = i /\ AnswerComes(i)
  BY <1>1, <1>2, <1>3 DEF OneByOne
<1>5. Len(back[n]) = 1 /\ e \in Entries /\ Head(back[n]) = e /\ Tail(back[n]) = <<>>
  <2>1. Len(back[n]) = 1
    BY <1>2, <1>4 DEF AnswerComes
  <2>2. \A q \in Seq(Entries) : Len(q) = 1 => q[1] \in Entries /\ Head(q) = q[1]
    OBVIOUS
  <2>3. Tail(back[n]) = <<>>
    <3>1. Tail(back[n]) \in Seq(Entries) /\ Len(Tail(back[n])) = 0
      BY <1>3, <2>1
    <3> QED
      BY <3>1, EmptySeq
  <2> QED
    BY <1>3, <2>1, <2>2, <2>3
<1>6. e.of = Current /\ a.ok /\ a.kind = KindOf(st) /\ a \in Answers
      /\ (st = "blockGet" => a.miss = Truth(node[n]))
  BY <1>2, <1>4, <1>5 DEF AnswerComes, Entries
<1> HIDE DEF e, a
<1>7. Taken(n, a) /\ Looked(n, a)
  BY <1>2, <1>4, <1>6 DEF Taken, Looked
<1>8. /\ back' = [back EXCEPT ![n] = <<>>]
      /\ list' = [known EXCEPT ![at] = Noted(@, a)] /\ missing' = MissingWith(a)
      /\ at' = at + 1 /\ wait' = FALSE /\ plain' = plain
      /\ cmd' = IF a.kind # KindOf(cmd.op) \/ n \notin cmd.to THEN cmd
                ELSE IF cmd.left = 1 THEN NoCmd ELSE [cmd EXCEPT !.left = @ - 1]
      /\ UNCHANGED <<st, block, node, lost, starts, faults, updated>>
  BY <1>5, <1>6, <1>7 DEF RxAnswer, a
<1>9. /\ cmd # NoCmd /\ cmd.to = {n} /\ cmd.left = 1 /\ KindOf(cmd.op) = KindOf(st) /\ st \in Rounds
  <2>1. cmd # NoCmd /\ st \in Rounds
    BY <1>1, <1>4 DEF OneByOne, GatewayTyped
  <2>2. cmd.to = {n} /\ cmd.left = 1 /\ IF st = "apply" THEN cmd.op \in {"apply", "cancel"} ELSE cmd.op = st
    BY <1>1, <1>2, <1>4, <2>1 DEF CmdOK
  <2> QED
    BY <2>1, <2>2 DEF KindOf
<1>10. cmd' = NoCmd
  BY <1>6, <1>8, <1>9
<1>11. \A j \in 1 .. Cnt : j # i => back[Nodes[j]] = <<>>
  BY <1>1, <1>4 DEF OneByOne
<1>12. \A m \in Node : back'[m] = <<>>
  BY <1>1, <1>2, <1>8, <1>11, ListOnce DEF NodesOK
<1>13. \A j \in 1 .. Cnt : list'[j].skip = list[j].skip /\ list'[j].applied = list[j].applied
  <2>1. known \in [1 .. Cnt -> Receivers]
    BY <1>1, <1>4, <1>6 DEF GatewayTyped, Receivers, Answers
  <2>2. \A j \in 1 .. Cnt : known[j].skip = list[j].skip /\ known[j].applied = list[j].applied
    BY <1>1, <1>4 DEF GatewayTyped, Receivers
  <2> HIDE DEF known
  <2>3. Noted(known[i], a).skip = known[i].skip /\ Noted(known[i], a).applied = known[i].applied
    BY <1>6, <2>1, NotedIs
  <2>4. \A j \in 1 .. Cnt : list'[j] = IF j = i THEN Noted(known[i], a) ELSE known[j]
    BY <1>4, <1>8, <2>1
  <2> QED
    BY <2>2, <2>3, <2>4
<1>14. ASSUME st = "blockGet" PROVE missing' = missing \union node[n].miss
  <2>1. block \in Blocks /\ st # "idle"
    BY <1>1, <1>14 DEF PlaceOK
  <2>2. InBlock(node[n], block)
    BY <1>2, <1>14, <2>1, AllAtStage DEF Stage
  <2>3. node[n].miss \subseteq Chunks(block)
    BY <2>2 DEF InBlock, Good
  <2> QED
    BY <1>6, <1>8, <1>14, <2>1, <2>3, TruthAdds
<1> QED
  BY <1>2, <1>3, <1>4, <1>8, <1>9, <1>10, <1>12, <1>13, <1>14 DEF Answering

-----------------------------------------------------------------------------
(* Without faults it stays smooth *)

\* The first state.
LEMMA SmoothInit == Init => Smooth
<1> SUFFICES ASSUME Init PROVE Smooth
  OBVIOUS
<1>1. /\ st = "idle" /\ at = 1 /\ ~wait /\ cmd = NoCmd /\ \A i \in 1 .. Cnt : back[Nodes[i]] = <<>>
      /\ \A n \in Node : node[n] = Nodes0
      /\ \A i \in 1 .. Cnt : list[i] = Receiver0
  BY ListOnce DEF Init
<1>2. AllTakePart
  BY <1>1 DEF AllTakePart, Receiver0
<1>3. OneByOne
  BY <1>1 DEF OneByOne, NoCmd
<1>4. MissKnown /\ ApplyOrder
  BY <1>1 DEF MissKnown, ApplyOrder
<1> QED
  BY <1>2, <1>3, <1>4 DEF Smooth

\* The gateway while nothing is under way.
LEMMA ReadySmooth ==
  ASSUME SmoothInv, faults = 0, Ready, UNCHANGED <<wait, cmd, back, plain>>,
         \A i \in 1 .. Cnt : ~list'[i].skip,
         st' = "idle" => \A n \in Node : node'[n] = Nodes0 \/ node'[n].reboot = "success",
         MissKnown', ApplyOrder'
  PROVE  Smooth'
<1>1. AllTakePart /\ OneByOne
  BY DEF SmoothInv, Smooth
<1>2. AllTakePart'
  BY <1>1 DEF AllTakePart, Ready
<1>3. ~wait /\ cmd = NoCmd /\ \A i \in 1 .. Cnt : back[Nodes[i]] = <<>>
  BY <1>1 DEF Ready, OneByOne
<1>4. OneByOne'
  BY <1>3 DEF OneByOne, NoCmd
<1> QED
  BY <1>2, <1>4 DEF Smooth

\* A receiver that is known to miss nothing, or to be applied, is passed.
LEMMA PassSmooth ==
  ASSUME SmoothInv, faults = 0, PassReceiver \/ PassApplied
  PROVE  Smooth'
<1>1. /\ Ready /\ at <= Cnt /\ at' = at + 1 /\ at \in 1 .. Cnt
      /\ UNCHANGED <<st, wait, block, missing, list, cmd, back, node, lost, starts, faults, history>>
  BY DEF PassReceiver, PassApplied, InRound, SmoothInv, DistrInv, SafeInv, GatewayTyped
<1>2. \A i \in 1 .. Cnt : Stage(i) /\ ~list[i].skip /\ Sound(node[Nodes[i]])
  BY <1>1, AllAtStage DEF Ready
<1>3. \A i \in 1 .. Cnt : at' > i <=> at > i \/ i = at
  BY <1>1, ListOnce
<1>4. MissKnown'
  <2> SUFFICES ASSUME st = "blockGet" PROVE MissKnown'
    BY <1>1 DEF MissKnown
  <2>1. list[at].noMissing
    BY <1>1, <1>2 DEF PassReceiver, PassApplied, Passed
  <2>2. node[Nodes[at]].miss = {}
    BY <1>1, <1>2, <2>1 DEF Stage, Sound
  <2>3. missing \subseteq AllMiss /\ \A i \in 1 .. Cnt : at > i => node[Nodes[i]].miss \subseteq missing
    BY DEF SmoothInv, Smooth, MissKnown
  <2> QED
    BY <1>1, <1>3, <2>2, <2>3 DEF MissKnown, AllMiss
<1>5. ApplyOrder'
  <2> SUFFICES ASSUME st = "apply" PROVE ApplyOrder'
    BY <1>1 DEF ApplyOrder
  <2>1. list[at].applied \/ Nodes[at] = Connected
    BY DEF PassReceiver, PassApplied, InRound
  <2> QED
    BY <1>1, <1>3, <2>1 DEF SmoothInv, Smooth, ApplyOrder
<1> QED
  BY <1>1, <1>2, <1>4, <1>5, ReadySmooth DEF Ready, history

\* Another round begins.
LEMMA RoundSmooth ==
  ASSUME SmoothInv, faults = 0, EndRound \/ CheckResult \/ LastBlock \/ EndApply
  PROVE  Smooth'
<1>1. /\ Ready /\ UNCHANGED <<wait, cmd, back, node, lost, starts, faults, history>> /\ st # "idle" /\ st' # "idle"
  BY DEF EndRound, CheckResult, LastBlock, EndApply, InRound, Ready, After, NextBlock, Rounds
<1>2. list \in [1 .. Cnt -> Receivers] /\ \A i \in 1 .. Cnt : ~list[i].skip
  BY <1>1, AllAtStage DEF SmoothInv, DistrInv, SafeInv, GatewayTyped
<1>3. \A i \in 1 .. Cnt : ~list'[i].skip
  <2>1. CASE NextBlock
    BY <1>2, <2>1 DEF NextBlock, Receivers
  <2>2. CASE list' = list
    BY <1>2, <2>2
  <2> QED
    BY <2>1, <2>2 DEF EndRound, CheckResult, LastBlock, EndApply
<1>4. st' # "blockGet"
  BY DEF EndRound, CheckResult, LastBlock, EndApply, InRound, After, NextBlock, Rounds
<1>5. st' = "apply" => at' = 1
  BY DEF EndRound, CheckResult, LastBlock, EndApply, InRound, After, NextBlock, Rounds
<1>6. MissKnown' /\ ApplyOrder'
  BY <1>4, <1>5 DEF MissKnown, ApplyOrder
<1> QED
  BY <1>1, <1>3, <1>6, ReadySmooth DEF history

\* A chunk, and the first question about what was missed.
LEMMA ChunkSmooth ==
  ASSUME SmoothInv, faults = 0, SendChunk
  PROVE  Smooth'
<1>1. /\ Ready /\ st = "chunkStart" /\ st' \in {"chunkStart", "blockGet"}
      /\ UNCHANGED <<wait, block, list, cmd, back, starts, faults, history>>
  BY DEF SendChunk
<1>2. \A i \in 1 .. Cnt : ~list[i].skip
  BY <1>1, AllAtStage
<1>3. st' = "blockGet" => at' = 1 /\ missing' = {}
  BY <1>1 DEF SendChunk
<1>4. MissKnown' /\ ApplyOrder'
  BY <1>1, <1>3 DEF MissKnown, ApplyOrder
<1> QED
  BY <1>1, <1>2, <1>4, ReadySmooth DEF history

\* The end: every receiver has applied the image.
LEMMA ReportSmooth ==
  ASSUME SmoothInv, faults = 0, Report
  PROVE  Smooth' /\ \A n \in Node : Applied(n)
<1>1. /\ Ready /\ st = "cancel" /\ st' = "idle" /\ UNCHANGED <<wait, cmd, back, node, plain>>
      /\ list' = [i \in 1 .. Cnt |-> Receiver0]
  <2>1. wait = FALSE
    BY DEF Report, Ready, SmoothInv, DistrInv, SafeInv, GatewayTyped
  <2> QED
    BY <2>1 DEF Report, Cleaned, history
<1>2. \A i \in 1 .. Cnt : Stage(i)
  BY <1>1, AllAtStage
<1>3. \A n \in Node : Applied(n)
  BY <1>1, <1>2, ListOnce DEF Stage
<1>4. MissKnown' /\ ApplyOrder'
  BY <1>1 DEF MissKnown, ApplyOrder
<1>5. \A i \in 1 .. Cnt : ~list'[i].skip
  BY <1>1 DEF Receiver0
<1>6. \A n \in Node : node'[n] = Nodes0 \/ node'[n].reboot = "success"
  BY <1>1, <1>3 DEF Applied, Rebooting
<1> QED
  BY <1>1, <1>3, <1>4, <1>5, <1>6, ReadySmooth

\* A command that goes out is answered, and all is well.
LEMMA AskingSmooth ==
  ASSUME SmoothInv, faults = 0, SendToReceiver \/ SendApply, Asking
  PROVE  Smooth'
<1>1. /\ SafeInv /\ GatewayTyped /\ NodesOK /\ PlaceOK /\ Ready /\ AllTakePart /\ OneByOne /\ MissKnown /\ ApplyOrder
      /\ ~(st = "blockStart" /\ block = NumBlocks)
  BY DEF SmoothInv, Smooth, DistrInv, SafeInv, SendToReceiver, SendApply, InRound
<1>2. PICK i \in 1 .. Cnt : i = at
  BY DEF Asking
<1> DEFINE n == Nodes[i]
           a == AnswerTo(st, node[n], block)
           s == Handled(st, node[n], block)
           e == [of |-> Current, answer |-> a]
<1>3. Stage(i) /\ n \in Node /\ st # "idle" /\ st \in Rounds /\ ~wait
  BY <1>1, AllAtStage DEF Ready, Asking
<1>4. /\ a.ok /\ a.kind = KindOf(st)
      /\ st = "blockGet" => a.miss = Truth(s) /\ s.miss = node[n].miss
  BY <1>1, <1>2, <1>3, AnswerIsGood DEF Asking
<1> HIDE DEF a
<1>5. node' = [node EXCEPT ![n] = s] /\ DOMAIN node = Node /\ DOMAIN back = Node
      /\ UNCHANGED <<st, at, block, missing, plain>>
  BY <1>1, <1>2 DEF Asking, NodesOK, history
<1>6. \A j \in 1 .. Cnt : back[Nodes[j]] = <<>>
  BY <1>1, <1>3 DEF OneByOne
<1>7. back'[n] = <<e>> /\ \A j \in 1 .. Cnt : j # i => back'[Nodes[j]] = <<>>
  <2>1. back' = [back EXCEPT ![n] = Append(@, e)]
    BY <1>2 DEF Asking, a
  <2> QED
    <3>1. Append(<<>>, e) = <<e>>
      OBVIOUS
    <3>2. back[n] = <<>> /\ back'[n] = Append(back[n], e) /\ \A m \in Node : m # n => back'[m] = back[m]
      BY <1>3, <1>5, <1>6, <2>1
    <3> QED
      BY <1>6, <3>1, <3>2, ListOnce
<1>8. AnswerComes(i)'
  <2>1. Len(back'[n]) = 1 /\ back'[n][1] = e
    BY <1>7
  <2>2. e.of = Current /\ Current' = Current /\ e.answer = a
    BY <1>5 DEF Current, Asking
  <2>3. node'[n] = s /\ block' = block
    BY <1>3, <1>5
  <2>4. st = "blockGet" => a.miss = Truth(node[n])'
    BY <1>4, <1>5, <2>3 DEF Truth
  <2> HIDE DEF e
  <2> QED
    BY <1>4, <1>5, <2>1, <2>2, <2>4 DEF AnswerComes
<1>9. OneByOne'
  BY <1>2, <1>5, <1>7, <1>8 DEF OneByOne, Asking
<1>10. AllTakePart'
  BY <1>1, <1>3, <1>5 DEF AllTakePart, Asking
<1>11. st = "blockGet" => \A m \in Node : node'[m].miss = node[m].miss
  BY <1>3, <1>4, <1>5
<1>12. MissKnown'
  BY <1>1, <1>5, <1>11, ListOnce DEF MissKnown, AllMiss
<1>13. ApplyOrder'
  BY <1>1, <1>2, <1>5 DEF ApplyOrder, Asking
<1> QED
  BY <1>9, <1>10, <1>12, <1>13 DEF Smooth

\* The answer that arrives adds what its node misses.
LEMMA AnsweringSmooth ==
  ASSUME SmoothInv, faults = 0, Answering
  PROVE  Smooth'
<1>1. /\ GatewayTyped /\ AllTakePart /\ OneByOne /\ MissKnown /\ ApplyOrder /\ st # "idle" /\ CmdOK
      /\ Cnt \in Nat \ {0}
  BY ListOnce DEF SmoothInv, Smooth, DistrInv, SafeInv, Answering, Rounds
<1>2. /\ UNCHANGED <<st, block, node, plain>> /\ at \in 1 .. Cnt /\ at' = at + 1 /\ wait /\ wait' = FALSE /\ cmd' = NoCmd
      /\ \A i \in 1 .. Cnt : list'[i].skip = list[i].skip /\ list'[i].applied = list[i].applied
      /\ \A i \in 1 .. Cnt : back'[Nodes[i]] = <<>>
  BY ListOnce DEF Answering
<1>3. AllTakePart'
  BY <1>1, <1>2 DEF AllTakePart
<1>4. OneByOne'
  BY <1>2 DEF OneByOne, NoCmd
<1>5. \A i \in 1 .. Cnt : at' > i <=> at > i \/ i = at
  BY <1>1, <1>2
<1>6. MissKnown'
  <2> SUFFICES ASSUME st = "blockGet" PROVE MissKnown'
    BY <1>2 DEF MissKnown
  <2>1. missing' = missing \union node[Nodes[at]].miss /\ Nodes[at] \in Node
    BY <1>2, ListOnce DEF Answering
  <2>2. missing \subseteq AllMiss /\ \A i \in 1 .. Cnt : at > i => node[Nodes[i]].miss \subseteq missing
    BY <1>1 DEF MissKnown
  <2>3. node[Nodes[at]].miss \subseteq AllMiss
    BY <2>1 DEF AllMiss
  <2> QED
    BY <1>2, <1>5, <2>1, <2>2, <2>3 DEF MissKnown, AllMiss
<1>7. ApplyOrder'
  <2> SUFFICES ASSUME st = "apply" PROVE ApplyOrder'
    BY <1>2 DEF ApplyOrder
  <2>1. list[at].applied
    BY <1>1, <1>2 DEF CmdOK
  <2> QED
    BY <1>1, <1>2, <1>5, <2>1 DEF ApplyOrder
<1> QED
  BY <1>3, <1>4, <1>6, <1>7 DEF Smooth

\* A distribution starts with every receiver in its first state.
LEMMA AppStartSmooth ==
  ASSUME SmoothInv, faults = 0, AppStart
  PROVE  Smooth'
<1>1. /\ PlaceOK /\ AllTakePart /\ OneByOne
      /\ st = "idle" /\ st' = "query" /\ UNCHANGED <<at, wait, list, cmd, back, node>>
      /\ plain' = {n \in Node : node[n] = Nodes0} /\ \A n \in Node : node[n].reboot # "success"
  BY DEF SmoothInv, Smooth, DistrInv, SafeInv, AppStart
<1>2. plain' = Node
  BY <1>1 DEF AllTakePart
<1>3. AllTakePart'
  BY <1>1, <1>2 DEF AllTakePart
<1>4. ~wait
  BY <1>1 DEF PlaceOK
<1>5. OneByOne'
  BY <1>1, <1>4 DEF OneByOne
<1>6. MissKnown' /\ ApplyOrder'
  BY <1>1 DEF MissKnown, ApplyOrder
<1> QED
  BY <1>3, <1>5, <1>6 DEF Smooth

\* No node restarts while it receives blocks.
LEMMA RebootLate ==
  ASSUME SmoothInv, faults = 0, NEW n \in Node, Reboot(n)
  PROVE  st \in {"apply", "cancel", "idle"}
<1> SUFFICES ASSUME st \notin {"apply", "cancel", "idle"} PROVE FALSE
  OBVIOUS
<1>1. PICK i \in 1 .. Cnt : n = Nodes[i]
  BY ListOnce
<1>2. Stage(i) /\ node[n].reboot # "none"
  BY <1>1, AllAtStage DEF Reboot
<1>3. Nodes0.reboot = "none" /\ Started.reboot = "none" /\ Armed.reboot = "none"
  <2>1. Nodes0.reboot = "none" /\ Nodes0 \in NodeStates
    BY Nodes0OK
  <2>2. Started.reboot = "none" /\ Started \in NodeStates
    BY <2>1 DEF Started, NodeStates, UpdatePhases, TransferPhases
  <2> QED
    BY <2>1, <2>2, ArmedDue
<1> QED
  BY <1>1, <1>2, <1>3 DEF Stage, Due, Begun, InBlock, Good, Verified, SmoothInv, DistrInv, SafeInv, GatewayTyped,
     States, Rounds

\* A node restarts with the new firmware.
LEMMA RebootSmooth ==
  ASSUME SmoothInv, faults = 0, NEW n \in Node, Reboot(n)
  PROVE  Smooth'
<1>1. /\ NodesOK /\ AllTakePart /\ OneByOne /\ ApplyOrder /\ st \in {"apply", "cancel", "idle"}
      /\ UNCHANGED <<st, at, wait, block, missing, list, cmd, back, starts, plain>>
      /\ node' = [node EXCEPT ![n] = Nodes0]
  BY RebootLate DEF SmoothInv, Smooth, DistrInv, SafeInv, Reboot, Restarted
<1>2. AllTakePart'
  <2>1. \A m \in Node : node'[m] = IF m = n THEN Nodes0 ELSE node[m]
    BY <1>1 DEF NodesOK
  <2> QED
    BY <1>1, <2>1 DEF AllTakePart
<1>3. ASSUME NEW i \in 1 .. Cnt, AnswerComes(i) PROVE AnswerComes(i)'
  BY <1>1, <1>3 DEF AnswerComes, Current
<1>4. OneByOne'
  BY <1>1, <1>3 DEF OneByOne
<1>5. MissKnown' /\ ApplyOrder'
  BY <1>1 DEF MissKnown, ApplyOrder
<1> QED
  BY <1>2, <1>4, <1>5 DEF Smooth

\* These are faults: to repeat a command whose answer is on its way, to cancel, to restart.
LEMMA FaultySteps ==
  ASSUME SmoothInv, faults = 0, Retry \/ SegmentTimeout \/ AppCancel \/ \E n \in Node : Restart(n)
  PROVE  faults' # 0
<1>1. GatewayTyped /\ CmdOK /\ OneByOne
  BY DEF SmoothInv, Smooth, DistrInv, SafeInv
<1>2. CASE Retry
  <2>1. cmd # NoCmd
    BY <1>2 DEF Retry, NoCmd
  <2>2. wait /\ at \in 1 .. Cnt /\ cmd.to = {Nodes[at]} /\ cmd.of = Current
    BY <1>1, <2>1, ListOnce DEF OneByOne, CmdOK, GatewayTyped
  <2>3. Len(back[Nodes[at]]) = 1 /\ back[Nodes[at]][1].of = Current
    BY <1>1, <2>2 DEF OneByOne, AnswerComes
  <2>4. Late
    <3>1. 1 \in 1 .. MaxBack
      BY DistributionAssumption
    <3> QED
      BY <2>2, <2>3, <3>1 DEF Late
  <2>5. CASE cmd.retry > 0 /\ Transmit([cmd EXCEPT !.retry = @ - 1], 1)
    BY <2>5 DEF Transmit
  <2>6. CASE faults' = faults + 1
    BY <2>6
  <2> QED
    BY <1>2, <2>4, <2>5, <2>6 DEF Retry
<1>3. CASE SegmentTimeout
  BY <1>1, <1>3 DEF SegmentTimeout, OneByOne
<1>4. CASE AppCancel
  <2>1. Reliable("cancel", Node, 1)
    BY <1>4 DEF AppCancel
  <2> QED
    BY <2>1 DEF Reliable, Transmit
<1>5. CASE \E n \in Node : Restart(n)
  BY <1>5 DEF Restart
<1> QED
  BY <1>2, <1>3, <1>4, <1>5

\* Faults are not taken back.
LEMMA FaultsStay ==
  ASSUME CountsTyped, [Next]_vars, faults' = 0
  PROVE  faults = 0
<1>1. faults \in Nat
  BY DistributionAssumption DEF CountsTyped
<1>2. ASSUME NEW c, NEW late \in {0, 1}, Transmit(c, late) PROVE faults = 0
  BY <1>1, <1>2 DEF Transmit
<1>3. CASE Proc
  BY <1>2, <1>3 DEF Proc, PassReceiver, SendToReceiver, EndRound, CheckResult, LastBlock, SendChunk, PassApplied,
     SendApply, EndApply, Report, Reliable
<1>4. CASE Retry
  BY <1>1, <1>2, <1>4 DEF Retry
<1>5. CASE SegmentTimeout \/ AppStart
  BY <1>5 DEF SegmentTimeout, AppStart
<1>6. CASE AppCancel
  BY <1>2, <1>6 DEF AppCancel, Reliable
<1>7. CASE \E n \in Node : RxAnswer(n) \/ Reboot(n) \/ Restart(n)
  BY <1>1, <1>7 DEF RxAnswer, Reboot, Restart
<1>8. CASE UNCHANGED vars
  BY <1>8 DEF vars
<1> QED
  BY <1>3, <1>4, <1>5, <1>6, <1>7, <1>8 DEF Next

\* As long as there is no fault, it stays smooth.
LEMMA SmoothStep ==
  ASSUME SmoothInv, [Next]_vars
  PROVE  Smooth'
<1> SUFFICES ASSUME faults' = 0 PROVE Smooth'
  BY DEF Smooth
<1>1. faults = 0
  BY FaultsStay DEF SmoothInv, DistrInv, SafeInv
<1>2. CASE Proc
  BY <1>1, <1>2, PassSmooth, RoundSmooth, ChunkSmooth, ReportSmooth, SendIsAsking, AskingSmooth DEF Proc
<1>3. CASE Retry \/ SegmentTimeout \/ AppCancel \/ \E n \in Node : Restart(n)
  BY <1>1, <1>3, FaultySteps
<1>4. CASE AppStart
  BY <1>1, <1>4, AppStartSmooth
<1>5. CASE \E n \in Node : RxAnswer(n) \/ Reboot(n)
  BY <1>1, <1>5, RxIsAnswering, AnsweringSmooth, RebootSmooth
<1>6. CASE UNCHANGED vars
  <2>1. UNCHANGED <<st, at, wait, block, missing, list, cmd, back, node, starts, plain>> /\ Current' = Current
    BY <1>6 DEF vars, history, Current
  <2>2. AllTakePart /\ OneByOne /\ MissKnown /\ ApplyOrder
    BY <1>1 DEF SmoothInv, Smooth
  <2>3. AllTakePart' /\ MissKnown' /\ ApplyOrder'
    BY <2>1, <2>2 DEF AllTakePart, MissKnown, AllMiss, ApplyOrder
  <2>4. ASSUME NEW i \in 1 .. Cnt, AnswerComes(i) PROVE AnswerComes(i)'
    BY <2>1, <2>4 DEF AnswerComes, Truth
  <2>5. OneByOne'
    BY <2>1, <2>2, <2>4 DEF OneByOne
  <2> QED
    BY <2>3, <2>5 DEF Smooth
<1> QED
  BY <1>2, <1>3, <1>4, <1>5, <1>6 DEF Next

-----------------------------------------------------------------------------
(* The rank is a number, and what lowers it *)

\* The chunks and the receivers can be counted.
LEMMA Counts ==
  /\ IsFiniteSet(AllChunks) /\ Cardinality(AllChunks) \in Nat
  /\ \A S \in SUBSET AllChunks : IsFiniteSet(S) /\ Cardinality(S) \in 0 .. Cardinality(AllChunks)
  /\ \A S \in SUBSET (1 .. Cnt) : IsFiniteSet(S) /\ Cardinality(S) \in Nat
<1>1. IsFiniteSet(Blocks) /\ \A b \in Blocks : IsFiniteSet(Chunks(b))
  BY LengthsAssumption DEF Blocks, Chunks
<1>2. IsFiniteSet(AllChunks)
  <2> DEFINE Sets == {Chunks(b) : b \in Blocks}
             f == [b \in Blocks |-> Chunks(b)]
  <2>1. f \in Surjection(Blocks, Sets)
    BY DEF Surjection
  <2>2. IsFiniteSet(Sets) /\ \A T \in Sets : IsFiniteSet(T)
    BY <1>1, <2>1, FS_Surjection
  <2> HIDE DEF Sets
  <2>3. IsFiniteSet(UNION Sets)
    BY <2>2, FS_UNION
  <2> QED
    BY <2>3 DEF Sets, AllChunks
<1>3. Cardinality(AllChunks) \in Nat
  BY <1>2, FS_CardinalityType
<1>4. ASSUME NEW S \in SUBSET AllChunks
      PROVE  IsFiniteSet(S) /\ Cardinality(S) \in 0 .. Cardinality(AllChunks)
  <2>1. IsFiniteSet(S) /\ Cardinality(S) <= Cardinality(AllChunks)
    BY <1>2, FS_Subset
  <2> QED
    BY <1>3, <2>1, FS_CardinalityType
<1>5. ASSUME NEW S \in SUBSET (1 .. Cnt) PROVE IsFiniteSet(S) /\ Cardinality(S) \in Nat
  <2>1. IsFiniteSet(1 .. Cnt)
    BY ListOnce, FS_Interval
  <2> QED
    BY <2>1, FS_Subset, FS_CardinalityType
<1> QED
  BY <1>2, <1>3, <1>4, <1>5

\* The parts of the rank are in their ranges.
LEMMA RankIn ==
  ASSUME DistrInv
  PROVE  /\ StepsToCome \in 0 .. MaxSteps - 1 /\ Level \in 0 .. Levels - 1 /\ MaxSteps \in Nat /\ Levels \in Nat
         /\ MaxLoss - lost \in Nat /\ FarLevel \in Nat /\ DistrRank \in Nat
<1>1. /\ GatewayTyped /\ CountsTyped /\ PlaceOK /\ Cnt \in Nat \ {0} /\ NumBlocks \in Nat \ {0}
      /\ Cardinality(AllChunks) \in Nat
  BY ListOnce, Numbers, Counts DEF DistrInv, SafeInv
<1>2. MaxSteps \in Nat /\ Levels \in Nat
  BY <1>1 DEF MaxSteps, Levels
<1>3. StepsToCome \in 0 .. MaxSteps - 1
  <2>1. CASE st = "chunkStart"
    <3>1. ToSend \in SUBSET AllChunks
      BY <1>1 DEF ToSend, GatewayTyped
    <3>2. Cardinality(ToSend) \in 0 .. Cardinality(AllChunks)
      BY <3>1, Counts
    <3> QED
      <4>1. StepsToCome = Cardinality(ToSend)
        BY <2>1 DEF StepsToCome, Rounds
      <4>2. \A k, c, n \in Nat : k <= c => k \in 0 .. 2 * n + c + 2 - 1
        OBVIOUS
      <4> QED
        BY <1>1, <3>2, <4>1, <4>2 DEF MaxSteps
  <2>2. CASE st \in Rounds
    <3>1. at \in 1 .. Cnt + 1 /\ (wait => at <= Cnt) /\ st # "chunkStart"
      BY <1>1, <2>2 DEF GatewayTyped, Rounds
    <3>2. StepsToCome = 2 * (Cnt + 1 - at) + IF wait THEN 0 ELSE 1
      BY <2>2, <3>1 DEF StepsToCome
    <3> QED
      BY <1>1, <3>1, <3>2 DEF MaxSteps
  <2>3. CASE st # "chunkStart" /\ st \notin Rounds
    BY <1>1, <2>3 DEF StepsToCome, MaxSteps
  <2> QED
    BY <2>1, <2>2, <2>3
<1>4. Level \in 0 .. Levels - 1
  <2>1. CASE st \in {"blockStart", "checkResult", "chunkStart", "blockGet"}
    <3>1. BlockLevel \in 1 .. 6
      BY <2>1 DEF BlockLevel
    <3>2. Level = 4 + 7 * (NumBlocks - block) + BlockLevel /\ block \in 0 .. NumBlocks
      BY <1>1, <2>1 DEF Level, GatewayTyped
    <3> QED
      BY <1>1, <3>1, <3>2 DEF Levels
  <2>2. CASE st \in {"idle", "cancel", "apply", "updateGet"}
    <3>1. Level \in 0 .. 3
      BY <2>2 DEF Level
    <3> QED
      BY <1>1, <3>1 DEF Levels
  <2>3. CASE st \in {"transferStart", "transferGet", "updateStart", "query"}
    <3>1. Level \in 11 + 7 * NumBlocks .. 14 + 7 * NumBlocks
      BY <1>1, <2>3 DEF Level
    <3> QED
      BY <1>1, <3>1 DEF Levels
  <2> QED
    BY <1>1, <2>1, <2>2, <2>3 DEF GatewayTyped, States, Rounds
<1>5. MaxLoss - lost \in Nat
  BY <1>1, DistributionAssumption DEF CountsTyped
<1>6. FarLevel \in Nat
  <2>1. Levels * (MaxLoss - lost) \in Nat
    BY <1>2, <1>5
  <2> QED
    BY <1>2, <1>4, <2>1 DEF FarLevel
<1>7. DistrRank \in Nat
  <2>1. MaxSteps * FarLevel \in Nat
    BY <1>2, <1>6
  <2> QED
    BY <1>2, <1>3, <2>1 DEF DistrRank
<1> QED
  BY <1>2, <1>3, <1>4, <1>5, <1>6, <1>7

\* So after the next step.
LEMMA RankInNext ==
  DistrInv' => (/\ StepsToCome \in 0 .. MaxSteps - 1 /\ Level \in 0 .. Levels - 1
                /\ MaxLoss - lost \in Nat /\ FarLevel \in Nat)'
<1>1. DistrInv => /\ StepsToCome \in 0 .. MaxSteps - 1 /\ Level \in 0 .. Levels - 1
                  /\ MaxLoss - lost \in Nat /\ FarLevel \in Nat
  BY RankIn
<1> QED
  BY <1>1, PTL

\* What is counted first decides.
LEMMA FirstDecides ==
  ASSUME NEW b \in Nat, NEW x \in Nat, NEW y \in Nat, NEW p \in 0 .. b - 1, NEW q \in 0 .. b - 1, x < y
  PROVE  b * x + p < b * y + q
<1>1. b * x \in Nat /\ b * y \in Nat /\ b * (y - x) \in Nat
  OBVIOUS
<1>2. b * y = b * x + b * (y - x)
  OBVIOUS
<1>3. b * (y - x) >= b
  OBVIOUS
<1> QED
  BY <1>1, <1>2, <1>3

\* A loss more, a lower level, or the same one with fewer steps to come.
LEMMA RankFalls ==
  ASSUME DistrInv, DistrInv',
         \/ lost' > lost
         \/ lost' = lost /\ Level' < Level
         \/ lost' = lost /\ Level' = Level /\ StepsToCome' < StepsToCome
  PROVE  DistrRank' < DistrRank
<1>1. /\ StepsToCome \in 0 .. MaxSteps - 1 /\ Level \in 0 .. Levels - 1 /\ MaxSteps \in Nat /\ Levels \in Nat
      /\ MaxLoss - lost \in Nat /\ FarLevel \in Nat /\ lost \in Nat
  BY RankIn, DistributionAssumption DEF DistrInv, SafeInv, CountsTyped
<1>2. /\ StepsToCome' \in 0 .. MaxSteps - 1 /\ Level' \in 0 .. Levels - 1
      /\ MaxLoss - lost' \in Nat /\ FarLevel' \in Nat /\ lost' \in Nat
  BY RankInNext, DistributionAssumption DEF DistrInv, SafeInv, CountsTyped, MaxSteps, Levels
<1>3. FarLevel = Levels * (MaxLoss - lost) + Level /\ FarLevel' = Levels * (MaxLoss - lost') + Level'
  BY DEF FarLevel, Levels
<1>4. DistrRank = MaxSteps * FarLevel + StepsToCome /\ DistrRank' = MaxSteps * FarLevel' + StepsToCome'
  BY DEF DistrRank, MaxSteps
<1> HIDE DEF MaxSteps, Levels
<1>5. CASE lost' > lost
  <2>1. MaxLoss - lost' < MaxLoss - lost
    BY <1>1, <1>2, <1>5, DistributionAssumption
  <2>2. FarLevel' < FarLevel
    BY <1>1, <1>2, <1>3, <2>1, FirstDecides
  <2> QED
    BY <1>1, <1>2, <1>4, <2>2, FirstDecides
<1>6. CASE lost' = lost /\ Level' < Level
  <2>1. Levels * (MaxLoss - lost) \in Nat
    BY <1>1
  <2>2. FarLevel' < FarLevel
    BY <1>1, <1>2, <1>3, <1>6, <2>1
  <2> QED
    BY <1>1, <1>2, <1>4, <2>2, FirstDecides
<1>7. CASE lost' = lost /\ Level' = Level /\ StepsToCome' < StepsToCome
  <2>1. FarLevel' = FarLevel
    BY <1>3, <1>7
  <2>2. MaxSteps * FarLevel \in Nat
    BY <1>1
  <2> QED
    <3>1. \A m \in Nat : \A j, k \in Nat : j < k => m + j < m + k
      OBVIOUS
    <3>2. StepsToCome \in Nat /\ StepsToCome' \in Nat
      BY <1>1, <1>2
    <3>3. MaxSteps * FarLevel + StepsToCome' < MaxSteps * FarLevel + StepsToCome
      BY <1>7, <2>2, <3>1, <3>2
    <3> QED
      BY <1>4, <2>1, <3>3
<1> QED
  BY <1>5, <1>6, <1>7

-----------------------------------------------------------------------------
(* Every step of such a distribution lowers the rank *)

\* The level of each state.
LevelsAre ==
    /\ st = "cancel" => Level = 0
    /\ st = "apply" => Level = IF FirstApply THEN 2 ELSE 1
    /\ st = "updateGet" => Level = 3
    /\ st = "blockStart" => Level = 4 + 7 * (NumBlocks - block) + 6
    /\ st = "checkResult" => Level = 4 + 7 * (NumBlocks - block) + 5
    /\ st = "chunkStart" => Level = 4 + 7 * (NumBlocks - block) + IF WillMiss THEN 4 ELSE 2
    /\ st = "blockGet" => Level = 4 + 7 * (NumBlocks - block) + IF WillMiss THEN 3 ELSE 1
    /\ st = "transferStart" => Level = 11 + 7 * NumBlocks
    /\ st = "transferGet" => Level = 12 + 7 * NumBlocks
    /\ st = "updateStart" => Level = 13 + 7 * NumBlocks
    /\ st = "query" => Level = 14 + 7 * NumBlocks

\* The cases of the level, state by state.
LEMMA LevelOf == LevelsAre
<1>1. /\ st = "blockStart" => BlockLevel = 6
      /\ st = "checkResult" => BlockLevel = 5
      /\ st = "chunkStart" => BlockLevel = IF WillMiss THEN 4 ELSE 2
      /\ st = "blockGet" => BlockLevel = IF WillMiss THEN 3 ELSE 1
  BY DEF BlockLevel
<1> QED
  BY <1>1 DEF LevelsAre, Level

\* The same of the level after a step.
LEMMA LevelNext == LevelsAre'
BY LevelOf, PTL

\* In a round of commands two steps are left for each receiver, or one while its answer is
\* waited for.
RoundSteps == st \in Rounds => StepsToCome = 2 * (Cnt + 1 - at) + IF wait THEN 0 ELSE 1

\* The cases of the steps to come.
LEMMA StepsOf == RoundSteps
BY DEF RoundSteps, StepsToCome, Rounds

\* The same of the steps to come after a step.
LEMMA StepsNext == RoundSteps'
BY StepsOf, PTL

\* Within a round that is not about applies.
LEMMA LevelSame ==
  ASSUME st \in Rounds, st # "apply", UNCHANGED <<st, block>>, st = "blockGet" => AllMiss' = AllMiss
  PROVE  Level' = Level
<1>1. st = "blockGet" => (WillMiss' <=> WillMiss)
  BY DEF WillMiss
<1> QED
  BY <1>1, LevelOf, LevelNext DEF LevelsAre, Rounds

\* None that was applied is so no more.
LEMMA AppliedGrows ==
  ASSUME \A i \in 1 .. Cnt : list[i].applied => list'[i].applied
  PROVE  NotApplied' \in Nat /\ NotApplied \in Nat /\ NotApplied' <= NotApplied
<1> DEFINE S == {i \in 1 .. Cnt : ~list[i].applied}
           T == {i \in 1 .. Cnt : ~list'[i].applied}
<1>1. T \subseteq S /\ T \in SUBSET (1 .. Cnt) /\ S \in SUBSET (1 .. Cnt)
  OBVIOUS
<1>2. NotApplied = Cardinality(S) /\ NotApplied' = Cardinality(T)
  BY DEF NotApplied, Cnt
<1> HIDE DEF S, T
<1> QED
  BY <1>1, <1>2, Counts, FS_Subset

\* A receiver is passed.
LEMMA PassRank ==
  ASSUME SmoothInv, DistrInv', faults = 0, PassReceiver \/ PassApplied
  PROVE  DistrRank' < DistrRank
<1>1. /\ Ready /\ at <= Cnt /\ at' = at + 1 /\ at \in 1 .. Cnt /\ st \in Rounds /\ Cnt \in Nat \ {0}
      /\ UNCHANGED <<st, wait, block, missing, list, cmd, back, node, lost, starts, faults, history>>
      /\ DistrInv /\ ~wait
  BY ListOnce DEF PassReceiver, PassApplied, InRound, SmoothInv, DistrInv, SafeInv, GatewayTyped, Ready, Rounds
<1>2. StepsToCome' < StepsToCome
  BY <1>1, StepsOf, StepsNext DEF RoundSteps
<1>3. Level' = Level
  <2>1. CASE st # "apply"
    <3>1. AllMiss' = AllMiss
      BY <1>1 DEF AllMiss
    <3> QED
      BY <1>1, <2>1, <3>1, LevelSame
  <2>2. CASE st = "apply"
    <3>1. NotApplied' = NotApplied
      BY <1>1 DEF NotApplied
    <3>2. list[at].applied \/ NotApplied > 1
      BY <2>2 DEF PassReceiver, PassApplied, InRound
    <3>3. \A i \in 1 .. Cnt : at' > i <=> at > i \/ i = at
      BY <1>1
    <3>4. FirstApply' <=> FirstApply
      BY <1>1, <3>1, <3>2, <3>3 DEF FirstApply
    <3> QED
      BY <1>1, <2>2, <3>4, LevelOf, LevelNext DEF LevelsAre
  <2> QED
    BY <2>1, <2>2
<1> QED
  BY <1>1, <1>2, <1>3, RankFalls

\* A receiver is asked: what it misses is the same after the answer.
LEMMA AskRank ==
  ASSUME SmoothInv, DistrInv', faults = 0, SendToReceiver \/ SendApply, Asking
  PROVE  DistrRank' < DistrRank
<1>1. /\ SafeInv /\ GatewayTyped /\ NodesOK /\ PlaceOK /\ Ready /\ DistrInv
      /\ ~(st = "blockStart" /\ block = NumBlocks)
  BY DEF SmoothInv, DistrInv, SafeInv, SendToReceiver, SendApply, InRound
<1>2. /\ at \in 1 .. Cnt /\ st \in Rounds /\ ~wait /\ wait' = TRUE /\ UNCHANGED <<st, at, block, lost>>
      /\ node' = [node EXCEPT ![Nodes[at]] = Handled(st, @, block)]
      /\ Cnt \in Nat \ {0}
  BY ListOnce DEF Asking
<1>3. StepsToCome' < StepsToCome
  BY <1>2, StepsOf, StepsNext DEF RoundSteps
<1>4. CASE st # "apply"
  <2>1. ASSUME st = "blockGet" PROVE AllMiss' = AllMiss
    <3>1. Stage(at)
      BY <1>1, <1>2, AllAtStage DEF Ready
    <3>2. Handled(st, node[Nodes[at]], block).miss = node[Nodes[at]].miss
      BY <1>1, <1>2, <2>1, <3>1, AnswerIsGood
    <3>3. \A m \in Node : node'[m].miss = node[m].miss
      BY <1>1, <1>2, <3>2, ListOnce DEF NodesOK
    <3> QED
      BY <3>3 DEF AllMiss
  <2>2. Level' = Level
    BY <1>2, <1>4, <2>1, LevelSame
  <2> QED
    BY <1>1, <1>2, <1>3, <2>2, RankFalls
<1>5. CASE st = "apply"
  <2>1. \A i \in 1 .. Cnt : list[i].applied => list'[i].applied
    BY <1>5 DEF Asking
  <2>2. NotApplied \in Nat /\ NotApplied' \in Nat /\ NotApplied' <= NotApplied
    BY <2>1, AppliedGrows
  <2>3. FirstApply' => FirstApply
    BY <1>2, <2>1, <2>2 DEF FirstApply
  <2>4. Level' < Level \/ Level' = Level
    BY <1>2, <1>5, <2>3, LevelOf, LevelNext DEF LevelsAre
  <2> QED
    BY <1>1, <1>2, <1>3, <2>4, RankFalls
<1> QED
  BY <1>4, <1>5

\* Its answer arrives.
LEMMA AnswerRank ==
  ASSUME SmoothInv, DistrInv', faults = 0, Answering
  PROVE  DistrRank' < DistrRank
<1>1. /\ DistrInv /\ CmdOK /\ at \in 1 .. Cnt /\ at' = at + 1 /\ st \in Rounds /\ wait /\ wait' = FALSE
      /\ UNCHANGED <<st, block, node, lost>> /\ Cnt \in Nat \ {0}
      /\ \A i \in 1 .. Cnt : list'[i].applied = list[i].applied
  BY ListOnce DEF SmoothInv, DistrInv, SafeInv, Answering
<1>2. StepsToCome' < StepsToCome
  BY <1>1, StepsOf, StepsNext DEF RoundSteps
<1>3. CASE st # "apply"
  <2>1. AllMiss' = AllMiss
    BY <1>1 DEF AllMiss
  <2> QED
    BY <1>1, <1>2, <1>3, <2>1, LevelSame, RankFalls
<1>4. CASE st = "apply"
  <2>1. list[at].applied
    BY <1>1, <1>4 DEF CmdOK
  <2>2. NotApplied' = NotApplied
    BY <1>1 DEF NotApplied
  <2>3. \A i \in 1 .. Cnt : at' > i <=> at > i \/ i = at
    BY <1>1
  <2>4. FirstApply' <=> FirstApply
    BY <1>1, <2>1, <2>2, <2>3 DEF FirstApply
  <2>5. Level' = Level
    BY <1>1, <1>4, <2>4, LevelOf, LevelNext DEF LevelsAre
  <2> QED
    BY <1>1, <1>2, <2>5, RankFalls
<1> QED
  BY <1>3, <1>4

\* A round ends, with no receiver skipped and none that misses what the gateway does not know.
LEMMA RoundRank ==
  ASSUME SmoothInv, DistrInv', faults = 0, EndRound \/ CheckResult \/ LastBlock \/ EndApply
  PROVE  DistrRank' < DistrRank
<1>1. /\ DistrInv /\ GatewayTyped /\ PlaceOK /\ Ready /\ MissKnown /\ ApplyOrder
      /\ Cnt \in Nat \ {0} /\ NumBlocks \in Nat \ {0} /\ block \in 0 .. NumBlocks
      /\ UNCHANGED <<cmd, back, node, lost>> /\ st # "idle"
  BY ListOnce, Numbers DEF SmoothInv, Smooth, DistrInv, SafeInv, GatewayTyped, EndRound, CheckResult, LastBlock,
     EndApply, InRound, Ready
<1>2. \A i \in 1 .. Cnt : Stage(i) /\ ~list[i].skip
  BY <1>1, AllAtStage
<1>3. ~AllSkipped
  BY <1>1, <1>2 DEF AllSkipped
<1>4. CASE EndRound /\ st \notin {"blockStart", "blockGet"}
  <2>1. /\ at > Cnt /\ st' = After(st) /\ block' = block
        /\ st \in {"query", "updateStart", "transferGet", "transferStart", "updateGet"}
    BY <1>4 DEF EndRound, InRound, Rounds
  <2>2. \/ st = "query" /\ st' = "updateStart"
        \/ st = "updateStart" /\ st' = "transferGet"
        \/ st = "transferGet" /\ st' = "transferStart"
        \/ st = "transferStart" /\ st' = "blockStart" /\ block' = 0
        \/ st = "updateGet" /\ st' = "apply"
    BY <1>1, <1>3, <2>1 DEF After, PlaceOK
  <2>3. Level' < Level
    BY <1>1, <2>2, LevelOf, LevelNext DEF LevelsAre
  <2> QED
    BY <1>1, <2>3, RankFalls
<1>5. CASE EndRound /\ st = "blockStart"
  <2>1. st' = "checkResult" /\ block' = block
    BY <1>5 DEF EndRound
  <2>2. Level' < Level
    BY <1>1, <1>5, <2>1, LevelOf, LevelNext DEF LevelsAre
  <2> QED
    BY <1>1, <2>2, RankFalls
<1>6. CASE EndRound /\ st = "blockGet"
  <2>1. at > Cnt /\ block \in 0 .. NumBlocks - 1
    BY <1>1, <1>6, Numbers DEF EndRound, PlaceOK
  <2>2. missing \subseteq AllMiss /\ AllMiss \subseteq missing
    <3>1. missing \subseteq AllMiss /\ \A i \in 1 .. Cnt : at > i => node[Nodes[i]].miss \subseteq missing
      BY <1>1, <1>6 DEF MissKnown
    <3>2. \A i \in 1 .. Cnt : at > i
      BY <1>1, <2>1 DEF GatewayTyped
    <3> QED
      BY <3>1, <3>2, ListOnce DEF AllMiss
  <2>3. CASE missing # {}
    <3>1. st' = "chunkStart" /\ UNCHANGED <<block, missing>> /\ AllMiss' = AllMiss
      BY <1>1, <1>6, <2>3 DEF EndRound, AllMiss
    <3>2. WillMiss /\ ~WillMiss'
      BY <1>6, <2>2, <2>3, <3>1 DEF WillMiss
    <3>3. Level' < Level
      BY <1>1, <1>6, <3>1, <3>2, LevelOf, LevelNext DEF LevelsAre
    <3> QED
      BY <1>1, <3>3, RankFalls
  <2>4. CASE missing = {}
    <3>1. st' = "blockStart" /\ block' = block + 1
      BY <1>6, <2>4 DEF EndRound, NextBlock
    <3>2. Level' < Level
      BY <1>1, <1>6, <2>1, <3>1, LevelOf, LevelNext DEF LevelsAre
    <3> QED
      BY <1>1, <3>2, RankFalls
  <2> QED
    BY <2>3, <2>4
<1>7. CASE CheckResult
  <2>1. st = "checkResult" /\ list[1].started /\ 1 \in 1 .. Cnt
    BY <1>1, <1>2, <1>7 DEF CheckResult, Stage
  <2>2. st' = "chunkStart" /\ block' = block
    BY <1>7, <2>1 DEF CheckResult
  <2>3. Level' < Level
    BY <1>1, <2>1, <2>2, LevelOf, LevelNext DEF LevelsAre
  <2> QED
    BY <1>1, <2>3, RankFalls
<1>8. CASE LastBlock
  <2>1. st = "blockStart" /\ block = NumBlocks /\ st' = "updateGet"
    BY <1>8 DEF LastBlock
  <2>2. Level' < Level
    BY <1>1, <2>1, LevelOf, LevelNext DEF LevelsAre
  <2> QED
    BY <1>1, <2>2, RankFalls
<1>9. CASE EndApply
  <2>1. st = "apply" /\ at > Cnt /\ at' = 1 /\ list' = list /\ st' = IF NotApplied = 0 THEN "cancel" ELSE "apply"
    BY <1>9 DEF EndApply
  <2> DEFINE S == {i \in 1 .. Cnt : ~list[i].applied}
  <2>2. NotApplied = Cardinality(S) /\ NotApplied' = NotApplied /\ IsFiniteSet(S) /\ NotApplied \in Nat
    BY <2>1, Counts DEF NotApplied
  <2>3. CASE NotApplied = 0
    <3>1. Level' < Level
      BY <1>1, <2>1, <2>3, LevelOf, LevelNext DEF LevelsAre
    <3> QED
      BY <1>1, <3>1, RankFalls
  <2>4. CASE NotApplied # 0
    <3>1. PICK i \in 1 .. Cnt : ~list[i].applied
      BY <2>2, <2>4, FS_EmptySet
    <3>2. at > i
      BY <1>1, <2>1, <3>1 DEF GatewayTyped
    <3>3. FirstApply
      BY <3>1, <3>2 DEF FirstApply
    <3>4. \A j \in 1 .. Cnt : list[j].applied \/ Nodes[j] = Connected
      <4>1. \A j \in 1 .. Cnt : at > j
        BY <1>1, <2>1 DEF GatewayTyped
      <4> QED
        BY <1>1, <2>1, <4>1 DEF ApplyOrder
    <3>5. S = {i}
      BY <3>1, <3>4, ListOnce
    <3>6. NotApplied' = 1
      BY <2>2, <3>5, FS_Singleton
    <3>7. ~FirstApply'
      <4>1. \A j \in 1 .. Cnt : ~(at' > j)
        BY <1>1, <2>1
      <4> QED
        BY <3>6, <4>1 DEF FirstApply
    <3>8. Level' < Level
      BY <1>1, <2>1, <2>4, <3>3, <3>7, LevelOf, LevelNext DEF LevelsAre
    <3> QED
      BY <1>1, <3>8, RankFalls
  <2> QED
    BY <2>3, <2>4
<1> QED
  BY <1>4, <1>5, <1>6, <1>7, <1>8, <1>9

\* A chunk that arrives is missing no more.
LEMMA ChunkMissed ==
  ASSUME NEW r \in NodeStates, NEW b \in Blocks, InBlock(r, b), NEW c \in Chunks(b)
  PROVE  ChunkTransfer(r, b, c).miss = r.miss \ {c}
<1>1. /\ Good(r) /\ r.bnum = b /\ r.bcur = b /\ <<b, c>> \in Image
  BY Positions DEF InBlock, Good
<1>2. CASE c \notin r.miss
  BY <1>2 DEF ChunkTransfer
<1>3. CASE c \in r.miss
  <2> DEFINE s == [r EXCEPT !.miss = @ \ {c}, !.crcDone = "none",
                            !.flash[<<r.bnum, c>>] = IF @ \in {Erased, <<b, c>>} THEN <<b, c>> ELSE Spoilt]
  <2>1. r.tp = "waitChunk" /\ ChunkFits(r, b, c)
    BY <1>1, <1>3 DEF Good, ChunkFits
  <2>2. ChunkTransfer(r, b, c) = IF s.miss = {} THEN AllChunksRx(s) ELSE s
    BY <1>3, <2>1 DEF ChunkTransfer
  <2>3. s.miss = r.miss \ {c} /\ s \in NodeStates
    <3>1. r.flash \in [Image -> Image \union {Erased, Spoilt}]
      BY DEF NodeStates
    <3>2. s.flash \in [Image -> Image \union {Erased, Spoilt}]
      BY <1>1, <3>1 DEF NodeStates
    <3> QED
      BY <3>2 DEF NodeStates
  <2> HIDE DEF s
  <2>4. AllChunksRx(s).miss = s.miss
    <3> DEFINE t == [s EXCEPT !.sums[s.bnum] = IF ~s.rxok /\ @ = "none" THEN SumOf(s) ELSE @, !.rxok = TRUE]
    <3>1. t.miss = s.miss /\ t \in NodeStates
      BY <2>3 DEF NodeStates, SumOf
    <3>2. AllChunksRx(s) = [t EXCEPT !.tp = IF RxOkCount(t) = NumBlocks THEN "complete" ELSE "waitBlock"]
      BY DEF AllChunksRx
    <3> HIDE DEF t
    <3> QED
      BY <3>1, <3>2 DEF NodeStates
  <2> QED
    BY <2>2, <2>3, <2>4
<1> QED
  BY <1>2, <1>3

\* Of the chunks to send one has the lowest number.
LEMMA OneIsNext ==
  ASSUME GatewayTyped, ToSend # {}
  PROVE  \E c \in ToSend : NextChunk = {c}
<1>1. ToSend \subseteq Nat
  BY Numbers DEF ToSend, GatewayTyped
<1>2. PICK c \in ToSend : \A d \in ToSend : <<d, c>> \notin OpToRel(<, Nat)
  BY <1>1, NatLessThanWellFounded, WFMin
<1>3. \A d \in ToSend : ~(d < c)
  BY <1>1, <1>2 DEF OpToRel
<1>4. \A d \in ToSend : c <= d
  BY <1>1, <1>3
<1>5. \A d \in ToSend : d <= c => d = c
  BY <1>1, <1>4
<1> QED
  BY <1>4, <1>5 DEF NextChunk

\* A chunk goes out: it is lost for some, or no receiver misses it any more.
LEMMA ChunkRank ==
  ASSUME SmoothInv, DistrInv', faults = 0, SendChunk
  PROVE  DistrRank' < DistrRank
<1>1. /\ DistrInv /\ GatewayTyped /\ CountsTyped /\ PlaceOK /\ Ready /\ st = "chunkStart" /\ block' = block /\ block \in Blocks
      /\ NumBlocks \in Nat \ {0} /\ block \in 0 .. NumBlocks - 1
  BY Numbers DEF SmoothInv, DistrInv, SafeInv, SendChunk, PlaceOK
<1>2. \A n \in Node : InBlock(node[n], block) /\ node[n] \in NodeStates /\ node[n].miss \subseteq Chunks(block)
  <2>1. ASSUME NEW n \in Node PROVE InBlock(node[n], block) /\ node[n] \in NodeStates
    <3>1. PICK i \in 1 .. Cnt : n = Nodes[i]
      BY ListOnce
    <3> QED
      BY <1>1, <3>1, AllAtStage DEF Stage
  <2> QED
    BY <2>1 DEF InBlock, Good
<1>3. PICK out \in SUBSET Node :
          /\ lost' = lost + Cardinality(out)
          /\ node' = [n \in Node |-> IF n \in out \/ NextChunk = {} THEN node[n]
                                    ELSE ChunkTransfer(node[n], block, CHOOSE c \in NextChunk : TRUE)]
  BY DEF SendChunk
<1>4. IsFiniteSet(out) /\ Cardinality(out) \in Nat
  BY ListOnce, FS_Subset, FS_CardinalityType
<1>5. lost \in Nat
  BY <1>1, DistributionAssumption DEF CountsTyped
<1>6. CASE out # {}
  <2>1. Cardinality(out) # 0
    BY <1>4, <1>6, FS_EmptySet
  <2>2. lost' > lost
    BY <1>3, <1>4, <1>5, <2>1
  <2> QED
    BY <1>1, <2>2, RankFalls
<1>7. CASE out = {}
  <2>1. lost' = lost
    BY <1>3, <1>5, <1>7, FS_EmptySet
  <2>2. AllMiss \subseteq Chunks(block) /\ ToSend \in SUBSET AllChunks /\ ToSend = missing \intersect Chunks(block)
    BY <1>1, <1>2 DEF AllMiss, ToSend, GatewayTyped
  <2>3. AllMiss' = AllMiss \ NextChunk
    <3>1. CASE NextChunk = {}
      <4>1. \A n \in Node : node'[n] = node[n]
        BY <1>3, <3>1
      <4> QED
        BY <3>1, <4>1 DEF AllMiss
    <3>2. CASE NextChunk # {}
      <4>1. ToSend # {}
        BY <3>2 DEF NextChunk
      <4>2. PICK c \in ToSend : NextChunk = {c}
        BY <1>1, <4>1, OneIsNext
      <4>3. (CHOOSE d \in NextChunk : TRUE) = c /\ c \in Chunks(block)
        BY <2>2, <4>2
      <4>4. \A n \in Node : node'[n].miss = node[n].miss \ {c}
        BY <1>1, <1>2, <1>3, <1>7, <3>2, <4>3, ChunkMissed
      <4> QED
        BY <4>2, <4>4 DEF AllMiss
    <3> QED
      BY <3>1, <3>2
  <2>4. NextChunk \subseteq ToSend /\ (ToSend # {} => \E c \in ToSend : NextChunk = {c})
    BY <1>1, OneIsNext DEF NextChunk
  <2>5. CASE ToSend = NextChunk
    <3>1. st' = "blockGet"
      BY <1>1, <2>5 DEF SendChunk
    <3>2. ~WillMiss => ~WillMiss'
      BY <1>1, <2>2, <2>3, <2>5, <3>1 DEF WillMiss
    <3>3. Level' < Level
      BY <1>1, <3>1, <3>2, LevelOf, LevelNext DEF LevelsAre
    <3> QED
      BY <1>1, <2>1, <3>3, RankFalls
  <2>6. CASE ToSend # NextChunk
    <3>1. st' = st /\ missing' = missing \ NextChunk
      BY <1>1, <2>6 DEF SendChunk
    <3>2. PICK c \in ToSend : NextChunk = {c}
      BY <2>4, <2>6
    <3>3. ~WillMiss => ~WillMiss'
      BY <1>1, <2>3, <3>1 DEF WillMiss
    <3>4. Level' < Level \/ Level' = Level
      BY <1>1, <3>1, <3>3, LevelOf, LevelNext DEF LevelsAre
    <3>5. ToSend' = ToSend \ {c}
      BY <1>1, <3>1, <3>2 DEF ToSend
    <3>6. StepsToCome = Cardinality(ToSend) /\ StepsToCome' = Cardinality(ToSend')
      BY <1>1, <3>1 DEF StepsToCome, Rounds
    <3>7. IsFiniteSet(ToSend) /\ Cardinality(ToSend) \in Nat
      BY <2>2, Counts
    <3>8. Cardinality(ToSend \ {c}) = Cardinality(ToSend) - 1
      BY <3>2, <3>7, FS_RemoveElement
    <3>9. StepsToCome' < StepsToCome
      BY <3>5, <3>6, <3>7, <3>8
    <3> QED
      BY <1>1, <2>1, <3>4, <3>9, RankFalls
  <2> QED
    BY <2>5, <2>6
<1> QED
  BY <1>6, <1>7

\* A step without a fault lowers the rank, ends the distribution, or is not the gateway's.
LEMMA DistrAdvances ==
  ASSUME SmoothInv, [Next]_vars, st # "idle", faults' = 0
  PROVE  /\ st' # "idle" => \/ DistrRank' < DistrRank
                            \/ DistrRank' = DistrRank /\ wait' = wait /\ ~Proc /\ ~Arrives
         /\ st' = "idle" => \A n \in Node : Applied(n)'
<1>1. faults = 0 /\ DistrInv /\ DistrInv'
  BY FaultsStay, DistrStep DEF SmoothInv, DistrInv, SafeInv
<1>2. CASE Report
  <2>1. \A n \in Node : Applied(n)
    BY <1>1, <1>2, ReportSmooth
  <2>2. node' = node /\ updated' = updated /\ st' = "idle"
    BY <1>2 DEF Report, Cleaned, history
  <2> QED
    BY <2>1, <2>2 DEF Applied
<1>3. CASE Proc /\ ~Report
  <2>1. DistrRank' < DistrRank
    BY <1>1, <1>3, PassRank, RoundRank, ChunkRank, AskRank, SendIsAsking DEF Proc
  <2>2. st' # "idle"
    BY <1>3 DEF Proc, PassReceiver, SendToReceiver, EndRound, CheckResult, LastBlock, SendChunk, PassApplied, SendApply,
       EndApply, InRound, Ready, After, NextBlock, Rounds
  <2> QED
    BY <2>1, <2>2
<1>4. CASE Arrives
  <2>1. PICK n \in Node : RxAnswer(n)
    BY <1>4 DEF Arrives
  <2>2. Answering
    BY <1>1, <2>1, RxIsAnswering
  <2>3. st' # "idle"
    BY <2>2 DEF Answering
  <2> QED
    BY <1>1, <2>2, <2>3, AnswerRank
<1>5. CASE Retry \/ SegmentTimeout \/ AppCancel \/ \E n \in Node : Restart(n)
  BY <1>1, <1>5, FaultySteps
<1>6. CASE AppStart
  BY <1>6 DEF AppStart
<1>7. CASE ~Proc /\ ~Arrives /\ ((\E n \in Node : Reboot(n)) \/ UNCHANGED vars)
  <2>1. UNCHANGED <<st, at, wait, block, missing, list, lost>> /\ st # "idle"
    BY <1>7 DEF Reboot, vars
  <2>2. st \in {"chunkStart", "blockGet"} => AllMiss' = AllMiss
    BY <1>1, <1>7, RebootLate DEF AllMiss, vars
  <2>3. NotApplied' = NotApplied
    BY <2>1 DEF NotApplied
  <2>4. FirstApply' <=> FirstApply
    BY <2>1, <2>3 DEF FirstApply
  <2>5. st \in {"chunkStart", "blockGet"} => (WillMiss' <=> WillMiss)
    BY <2>1, <2>2 DEF WillMiss
  <2>6. Level' = Level
    BY <1>1, <2>1, <2>4, <2>5, LevelOf, LevelNext DEF LevelsAre, DistrInv, SafeInv, GatewayTyped, States, Rounds
  <2>7. StepsToCome' = StepsToCome
    BY <2>1 DEF StepsToCome, ToSend
  <2>8. FarLevel' = FarLevel
    BY <2>1, <2>6 DEF FarLevel, Levels
  <2>9. DistrRank' = DistrRank
    BY <2>7, <2>8 DEF DistrRank, MaxSteps
  <2> QED
    BY <1>7, <2>1, <2>9
<1> QED
  BY <1>2, <1>3, <1>4, <1>5, <1>6, <1>7 DEF Next, Arrives

-----------------------------------------------------------------------------
(* Every receiver starts with the new firmware *)

SmoothFairly == FairSpec /\ []GuardsSuffice

\* The invariant of a distribution without faults holds in every state of it.
LEMMA AlwaysSmooth == FairSpec => []SmoothInv
<1>1. Init => SmoothInv
  BY DistrStart, SmoothInit DEF SmoothInv
<1>2. SmoothInv /\ [Next]_vars => SmoothInv'
  BY DistrStep, SmoothStep DEF SmoothInv
<1> QED
  BY <1>1, <1>2, PTL DEF FairSpec, Spec

\* Induction over the natural numbers, for what is the case of those where a function is 1.
LEMMA Induction ==
  ASSUME NEW F, F[0] = 1, \A n \in Nat : F[n] = 1 => F[n + 1] = 1
  PROVE  \A n \in Nat : F[n] = 1
<1> SUFFICES ASSUME NEW k \in Nat, F[k] # 1 PROVE FALSE
  OBVIOUS
<1> DEFINE S == {n \in Nat : F[n] # 1}
<1>1. PICK m \in S : \A j \in S : <<j, m>> \notin OpToRel(<, Nat)
  BY NatLessThanWellFounded, WFMin
<1>2. m \in Nat /\ m # 0
  BY <1>1
<1> HIDE DEF S
<1>3. m - 1 \in Nat /\ m - 1 < m /\ (m - 1) + 1 = m
  BY <1>2
<1>4. m - 1 \notin S
  BY <1>1, <1>2, <1>3 DEF OpToRel
<1> QED
  BY <1>1, <1>3, <1>4 DEF S

\* Says nothing of f, and lets a proof name it.
Named(f) == TRUE

Active  == st # "idle" /\ faults = 0
AllDone == st = "idle" /\ faults = 0 /\ \A n \in Node : Applied(n)
Over    == faults > 0 \/ AllDone

\* A number above every rank.
Highest == MaxSteps * (Levels * (MaxLoss + 1))

\* The rank is a number below Highest.
LEMMA RankBelow == DistrInv => DistrRank < Highest /\ Highest \in Nat
<1> SUFFICES ASSUME DistrInv PROVE DistrRank < Highest /\ Highest \in Nat
  OBVIOUS
<1>1. /\ StepsToCome \in 0 .. MaxSteps - 1 /\ Level \in 0 .. Levels - 1 /\ MaxSteps \in Nat /\ Levels \in Nat
      /\ MaxLoss - lost \in Nat /\ FarLevel \in Nat
  BY RankIn
<1>2. lost \in Nat /\ MaxLoss \in Nat /\ MaxLoss + 1 \in Nat
  BY DistributionAssumption DEF DistrInv, SafeInv, CountsTyped
<1> HIDE DEF MaxSteps, Levels
<1>3. MaxLoss - lost < MaxLoss + 1 /\ 0 \in 0 .. Levels - 1 /\ 0 \in 0 .. MaxSteps - 1
  BY <1>1, <1>2
<1>4. Levels * (MaxLoss + 1) \in Nat
  BY <1>1, <1>2
<1>5. FarLevel < Levels * (MaxLoss + 1) + 0
  BY <1>1, <1>3, <1>2, FirstDecides DEF FarLevel
<1>6. MaxSteps * (Levels * (MaxLoss + 1)) \in Nat
  BY <1>1, <1>4
<1>7. DistrRank < MaxSteps * (Levels * (MaxLoss + 1)) + 0
  BY <1>1, <1>3, <1>4, <1>5, FirstDecides DEF DistrRank
<1> QED
  BY <1>6, <1>7 DEF Highest

\* The gateway goes on, or the answer that it waits for arrives.
LEMMA DistrDescends ==
  ASSUME NEW k \in Nat
  PROVE  SmoothFairly => ((Active /\ DistrRank = k) ~> (Over \/ (Active /\ DistrRank < k)))
<1> DEFINE A == Active /\ DistrRank = k /\ ~wait
           B == Active /\ DistrRank = k /\ wait
           Q == Over \/ (Active /\ DistrRank < k)
<1>1. SmoothInv /\ [Next]_vars /\ Active /\ DistrRank = k
        => \/ Q'
           \/ Active' /\ DistrRank' = k /\ wait' = wait /\ ~Proc /\ ~Arrives
  <2> SUFFICES ASSUME SmoothInv, [Next]_vars, Active, DistrRank = k, ~Q'
               PROVE  Active' /\ DistrRank' = k /\ wait' = wait /\ ~Proc /\ ~Arrives
    OBVIOUS
  <2>1. faults' = 0
    <3>1. faults' \in Nat
      BY DistrStep, DistributionAssumption DEF SmoothInv, DistrInv, SafeInv, CountsTyped
    <3> QED
      BY <3>1 DEF Over
  <2>2. st' # "idle"
    BY <2>1, DistrAdvances DEF Active, Over, AllDone
  <2>3. \/ DistrRank' < DistrRank
        \/ DistrRank' = DistrRank /\ wait' = wait /\ ~Proc /\ ~Arrives
    BY <2>1, <2>2, DistrAdvances DEF Active
  <2> QED
    BY <2>1, <2>2, <2>3 DEF Active
<1>2. SmoothInv => wait \in BOOLEAN
  BY DEF SmoothInv, DistrInv, SafeInv, GatewayTyped
<1>3. SmoothInv /\ A /\ [Next]_vars => A' \/ Q'
  BY <1>1
<1>4. SmoothInv /\ A /\ <<Proc>>_vars => Q'
  BY <1>1 DEF Next
<1>5. SmoothInv /\ GuardsSuffice /\ A => ENABLED <<Proc>>_vars
  <2>1. SmoothInv /\ A => Ready /\ \A n \in Node : back[n] = <<>>
    <3> SUFFICES ASSUME SmoothInv, A PROVE Ready /\ \A n \in Node : back[n] = <<>>
      OBVIOUS
    <3>1. OneByOne
      BY DEF Active, SmoothInv, Smooth
    <3> QED
      BY <3>1, ListOnce DEF OneByOne, Ready, Active
  <2> QED
    BY <2>1 DEF GuardsSuffice
<1>6. SmoothInv /\ B /\ [Next]_vars => B' \/ Q'
  BY <1>1
<1>7. SmoothInv /\ B /\ <<Arrives>>_vars => Q'
  BY <1>1 DEF Next, Arrives
<1>8. SmoothInv /\ GuardsSuffice /\ B => ENABLED <<Arrives>>_vars
  <2>1. SmoothInv /\ B => \E n \in Node : back[n] # <<>>
    <3> SUFFICES ASSUME SmoothInv, B PROVE \E n \in Node : back[n] # <<>>
      OBVIOUS
    <3>1. OneByOne /\ at \in 1 .. Cnt
      BY ListOnce DEF Active, SmoothInv, Smooth, DistrInv, SafeInv, GatewayTyped
    <3>2. Len(back[Nodes[at]]) = 1 /\ Nodes[at] \in Node
      BY <3>1, ListOnce DEF OneByOne, AnswerComes
    <3> QED
      BY <3>2
  <2> QED
    BY <2>1 DEF GuardsSuffice
<1>9. Active /\ DistrRank = k => A \/ B
  OBVIOUS
<1>10. SmoothFairly => []SmoothInv
  BY AlwaysSmooth, PTL DEF SmoothFairly
<1> HIDE DEF A, B, Q
<1>11. SmoothFairly => ((Active /\ DistrRank = k) ~> Q)
  BY <1>3, <1>4, <1>5, <1>6, <1>7, <1>8, <1>9, <1>10, PTL DEF SmoothFairly, FairSpec, Spec
<1> QED
  BY <1>11 DEF Q

DistrLeaves(k) == (Active /\ DistrRank < k) ~> Over

\* A distribution without faults ends, and every receiver has applied the image.
LEMMA DistrIsOver == SmoothFairly => (Active ~> Over)
<1>1. SmoothFairly => []SmoothInv
  BY AlwaysSmooth, PTL DEF SmoothFairly
<1>2. SmoothInv => ~(DistrRank < 0) /\ DistrRank < Highest
  BY RankIn, RankBelow DEF SmoothInv
<1>3. SmoothFairly => DistrLeaves(0)
  BY <1>1, <1>2, PTL DEF DistrLeaves
<1>4. ASSUME NEW k \in Nat
      PROVE  SmoothFairly /\ DistrLeaves(k) => DistrLeaves(k + 1)
  <2>1. SmoothFairly => ((Active /\ DistrRank = k) ~> (Over \/ (Active /\ DistrRank < k)))
    BY DistrDescends
  <2>2. SmoothInv /\ DistrRank < k + 1 => DistrRank = k \/ DistrRank < k
    BY RankIn DEF SmoothInv
  <2> QED
    BY <1>1, <2>1, <2>2, PTL DEF DistrLeaves
<1>5. SmoothFairly => DistrLeaves(Highest)
  <2> SUFFICES ASSUME SmoothFairly PROVE DistrLeaves(Highest)
    OBVIOUS
  <2>1. PICK F : Named(F) /\ \A k \in Nat : F[k] = 1 <=> DistrLeaves(k)
    <3>1. Named([k \in Nat |-> IF DistrLeaves(k) THEN 1 ELSE 0])
      BY DEF Named
    <3> QED
      BY <3>1
  <2>2. F[0] = 1
    BY <1>3, <2>1
  <2>3. \A k \in Nat : F[k] = 1 => F[k + 1] = 1
    BY <1>4, <2>1
  <2>4. \A k \in Nat : F[k] = 1
    BY <2>2, <2>3, Induction
  <2>5. Highest \in Nat
    <3>1. MaxSteps \in Nat /\ Levels \in Nat /\ MaxLoss + 1 \in Nat
      BY ListOnce, Numbers, Counts, DistributionAssumption DEF MaxSteps, Levels
    <3> HIDE DEF MaxSteps, Levels
    <3>2. Levels * (MaxLoss + 1) \in Nat
      BY <3>1
    <3> QED
      BY <3>1, <3>2 DEF Highest
  <2> QED
    BY <2>1, <2>4, <2>5
<1> QED
  BY <1>1, <1>2, <1>5, PTL DEF DistrLeaves

\* The nodes whose reboot is still to come.
Pending == {n \in Node : node[n].reboot # "none"}
Target == faults > 0 \/ updated = Node
NodesLeave(k) == (AllDone /\ Cardinality(Pending) < k) ~> Target

\* After a distribution without faults the nodes restart, before the next one.
LEMMA PendingFalls ==
  ASSUME SmoothInv, [Next]_vars, AllDone, ~Target, ~Target'
  PROVE  /\ AllDone' /\ Cardinality(Pending) \in Nat
         /\ \/ Cardinality(Pending') < Cardinality(Pending)
            \/ Pending' = Pending /\ ~Reboots
         /\ \E n \in Node : node[n].reboot # "none"
<1>1. /\ DistrInv /\ DistrInv' /\ CountsTyped /\ NodesOK /\ faults = 0 /\ st = "idle" /\ \A n \in Node : Applied(n)
  BY DistrStep DEF SmoothInv, DistrInv, SafeInv, AllDone
<1>2. faults' = 0
  BY <1>1, DistributionAssumption DEF DistrInv, SafeInv, CountsTyped, Target
<1>3. \E n \in Node : node[n].reboot = "success"
  BY <1>1 DEF Applied, Rebooting, CountsTyped, Target
<1>4. IsFiniteSet(Pending) /\ Cardinality(Pending) \in Nat
  BY ListOnce, FS_Subset, FS_CardinalityType DEF Pending
<1>5. ~Proc /\ ~AppStart /\ ~Arrives
  <2>1. ~Proc
    BY <1>1 DEF Proc, PassReceiver, SendToReceiver, EndRound, CheckResult, LastBlock, SendChunk, PassApplied, SendApply,
       EndApply, Report, InRound, Ready
  <2>2. ~AppStart
    BY <1>3 DEF AppStart
  <2>3. ~Arrives
    BY <1>1, RxIsAnswering DEF Arrives, Answering, Rounds
  <2> QED
    BY <2>1, <2>2, <2>3
<1>6. ~(Retry \/ SegmentTimeout \/ AppCancel \/ \E n \in Node : Restart(n))
  BY <1>1, <1>2, FaultySteps
<1>7. CASE UNCHANGED vars /\ ~Reboots
  <2>1. st' = st /\ faults' = faults /\ node' = node /\ updated' = updated
    BY <1>7 DEF vars, history
  <2> QED
    BY <1>1, <1>3, <1>4, <1>7, <2>1 DEF AllDone, Applied, Pending
<1>8. CASE Reboots
  <2>1. PICK n \in Node : Reboot(n)
    BY <1>8 DEF Reboots
  <2>2. /\ node[n].reboot # "none" /\ node' = [node EXCEPT ![n] = Nodes0] /\ st' = st
        /\ updated' = IF node[n].reboot = "success" THEN updated \union {n} ELSE updated
    BY <2>1 DEF Reboot, Restarted
  <2>3. \A m \in Node : node'[m] = IF m = n THEN Nodes0 ELSE node[m]
    BY <1>1, <2>2 DEF NodesOK
  <2>4. node[n].reboot = "success"
    BY <1>1, <2>2, Nodes0OK DEF Applied, Rebooting
  <2>5. \A m \in Node : Applied(m)'
    BY <1>1, <2>2, <2>3, <2>4 DEF Applied
  <2>6. Pending' = Pending \ {n} /\ n \in Pending
    BY <2>2, <2>3, Nodes0OK DEF Pending
  <2>7. Cardinality(Pending \ {n}) = Cardinality(Pending) - 1
    BY <1>4, <2>6, FS_RemoveElement
  <2>8. Cardinality(Pending') < Cardinality(Pending)
    BY <1>4, <2>6, <2>7
  <2> QED
    BY <1>1, <1>2, <1>3, <1>4, <2>2, <2>5, <2>8 DEF AllDone
<1> QED
  BY <1>5, <1>6, <1>7, <1>8 DEF Next, Arrives, Reboots

\* Restarts that are pending become fewer, and in the end there is none.
LEMMA PendingEnds ==
  ASSUME NEW k \in Nat
  PROVE  SmoothFairly
           => ((AllDone /\ Cardinality(Pending) = k) ~> (Target \/ (AllDone /\ Cardinality(Pending) < k)))
<1> DEFINE A == AllDone /\ Cardinality(Pending) = k /\ ~Target
           Q == Target \/ (AllDone /\ Cardinality(Pending) < k)
<1>1. SmoothInv /\ A /\ [Next]_vars => A' \/ Q'
  BY PendingFalls
<1>2. SmoothInv /\ A /\ <<Reboots>>_vars => Q'
  BY PendingFalls DEF Next, Reboots
<1>3. SmoothInv /\ GuardsSuffice /\ A => ENABLED <<Reboots>>_vars
  <2>1. SmoothInv /\ A => \E n \in Node : node[n].reboot # "none"
    <3> SUFFICES ASSUME SmoothInv, A PROVE \E n \in Node : node[n].reboot # "none"
      OBVIOUS
    <3>1. \E n \in Node : n \notin updated
      BY DEF Target, SmoothInv, DistrInv, SafeInv, CountsTyped
    <3> QED
      BY <3>1 DEF AllDone, Applied, Rebooting
  <2> QED
    BY <2>1 DEF GuardsSuffice
<1>4. SmoothFairly => []SmoothInv
  BY AlwaysSmooth, PTL DEF SmoothFairly
<1>5. AllDone /\ Cardinality(Pending) = k => A \/ Q
  OBVIOUS
<1> HIDE DEF A, Q
<1>6. SmoothFairly => ((AllDone /\ Cardinality(Pending) = k) ~> Q)
  BY <1>1, <1>2, <1>3, <1>4, <1>5, PTL DEF SmoothFairly, FairSpec, Spec
<1> QED
  BY <1>6 DEF Q

\* Every node restarts.
LEMMA AllRestart == SmoothFairly => (AllDone ~> Target)
<1> DEFINE Most == Cardinality(Node) + 1
<1>1. SmoothFairly => []SmoothInv
  BY AlwaysSmooth, PTL DEF SmoothFairly
<1>2. Cardinality(Pending) \in Nat /\ ~(Cardinality(Pending) < 0) /\ Cardinality(Pending) < Most
  <2>1. IsFiniteSet(Pending) /\ Cardinality(Pending) <= Cardinality(Node) /\ Cardinality(Pending) \in Nat
    BY ListOnce, FS_Subset, FS_CardinalityType DEF Pending
  <2> QED
    BY <2>1, ListOnce
<1>3. SmoothFairly => NodesLeave(0)
  BY <1>2, PTL DEF NodesLeave
<1>4. ASSUME NEW k \in Nat
      PROVE  SmoothFairly /\ NodesLeave(k) => NodesLeave(k + 1)
  <2>1. SmoothFairly
          => ((AllDone /\ Cardinality(Pending) = k) ~> (Target \/ (AllDone /\ Cardinality(Pending) < k)))
    BY PendingEnds
  <2>2. Cardinality(Pending) < k + 1 => Cardinality(Pending) = k \/ Cardinality(Pending) < k
    BY <1>2
  <2> QED
    BY <2>1, <2>2, PTL DEF NodesLeave
<1>5. SmoothFairly => NodesLeave(Most)
  <2> SUFFICES ASSUME SmoothFairly PROVE NodesLeave(Most)
    OBVIOUS
  <2>1. PICK F : Named(F) /\ \A k \in Nat : F[k] = 1 <=> NodesLeave(k)
    <3>1. Named([k \in Nat |-> IF NodesLeave(k) THEN 1 ELSE 0])
      BY DEF Named
    <3> QED
      BY <3>1
  <2>2. F[0] = 1
    BY <1>3, <2>1
  <2>3. \A k \in Nat : F[k] = 1 => F[k + 1] = 1
    BY <1>4, <2>1
  <2>4. \A k \in Nat : F[k] = 1
    BY <2>2, <2>3, Induction
  <2>5. Most \in Nat
    BY ListOnce
  <2> QED
    BY <2>1, <2>4, <2>5
<1> QED
  BY <1>2, <1>5, PTL DEF NodesLeave

\* EveryReceiverUpdated, for any image, list of receivers and number of lost chunks: as long as
\* commands are answered in time and nobody cancels, a distribution goes through its rounds to
\* the end, chunks that were lost are sent again, and every receiver starts with the new firmware.
THEOREM ReceiversUpdated == FairSpec /\ []GuardsSuffice => EveryReceiverUpdated
<1>1. SmoothFairly => (Active ~> Over)
  BY DistrIsOver
<1>2. SmoothFairly => (AllDone ~> Target)
  BY AllRestart
<1>3. Over => AllDone \/ Target
  BY DEF Over, Target
<1>4. SmoothInv /\ st # "idle" => Active \/ Target
  BY DistributionAssumption DEF SmoothInv, DistrInv, SafeInv, CountsTyped, Active, Target
<1>5. SmoothFairly => []SmoothInv
  BY AlwaysSmooth, PTL DEF SmoothFairly
<1>6. SmoothFairly => ((st # "idle") ~> Target)
  BY <1>1, <1>2, <1>3, <1>4, <1>5, PTL
<1> QED
  BY <1>6 DEF SmoothFairly, EveryReceiverUpdated, Target
-----------------------------------------------------------------------------
(* A distribution with faults: it ends, unless it goes one of the two ways     *)
(* that have no end.                                                           *)

\* A node that misses chunks waits for them.
WaitsForMissed == \A n \in Node : node[n].miss # {} => node[n].tp = "waitChunk"

EndInv == SafeInv /\ ApplyOrder /\ WaitsForMissed

Unended == st # "idle" /\ ~Hung /\ ~Astray

\* Faults and losses that can still come.
Spare == (MaxFaults - faults) + (MaxLoss - lost)

\* The states of a distribution in their order, those of the blocks once per block; chunks and
\* block gets take turns as long as a chunk is missing.
InLoop == st \in {"chunkStart", "blockGet"}
Place ==
    CASE st \in {"idle", "cancel"} -> 0
      [] st = "apply" -> IF FirstApply THEN 2 ELSE 1
      [] st = "updateGet" -> 3
      [] InLoop -> 4 + 3 * (NumBlocks - block)
      [] st = "checkResult" -> 5 + 3 * (NumBlocks - block)
      [] st = "blockStart" -> 6 + 3 * (NumBlocks - block)
      [] st = "transferStart" -> 7 + 3 * NumBlocks
      [] st = "transferGet" -> 8 + 3 * NumBlocks
      [] st = "updateStart" -> 9 + 3 * NumBlocks
      [] st = "query" -> 10 + 3 * NumBlocks

\* In that loop: receivers that can be given up, nodes that will restart, chunks that nodes miss.
Taking == {i \in 1 .. Cnt : ~list[i].skip}
Gaps == {p \in Node \X AllChunks : p[2] \in node[p[1]].miss}
Open == IF InLoop THEN Cardinality(Taking) + Cardinality(Pending) + Cardinality(Gaps) ELSE 0

\* Answers about missing chunks that are true no more, with those before them.
Places == Node \X (1 .. MaxBack)
UnderWay == {p \in Places : p[2] <= Len(back[p[1]])}
Outdated(n, a) == a.kind = "block" /\ a.miss # BlockGetAnswer(node[n]).miss
OldFrom(n, j) == \E k \in 1 .. Len(back[n]) : j <= k /\ Outdated(n, back[n][k].answer)
OldAnswers == {p \in Places : OldFrom(p[1], p[2])}
Old == IF InLoop THEN Cardinality(OldAnswers) ELSE 0

\* A round of chunks closes a gap or is the last: the gateway has a chunk to send, or will have it,
\* that a node in the same block misses.
WillShrink == \E n \in Node : node[n].tp = "waitChunk" /\ node[n].bcur = block /\ node[n].miss \intersect ToSend # {}
Phase ==
    CASE st = "chunkStart" -> IF WillShrink THEN 1 ELSE 4
      [] st = "blockGet" -> IF WillShrink THEN 2 ELSE IF missing = {} THEN 3 ELSE 5
      [] OTHER -> 0

\* Repetitions of the command, and answers under way.
Tries == IF cmd = NoCmd THEN 0 ELSE cmd.retry + 1
Answered == Cardinality(UnderWay)

\* All of it as one number, what is first counts most.
PlaceBound == 11 + 3 * NumBlocks
OpenBound == Cnt + Cardinality(Node) + Cardinality(Node \X AllChunks) + 1
BackBound == Cardinality(Places) + 1
Rank2 == PlaceBound * Spare + Place
Rank3 == OpenBound * Rank2 + Open
Rank4 == BackBound * Rank3 + Old
Rank5 == 6 * Rank4 + Phase
Rank6 == MaxSteps * Rank5 + StepsToCome
Rank7 == (RetryMax + 2) * Rank6 + Tries
EndRank == BackBound * Rank7 + Answered


\* The sets of the rank are finite, and no larger than those that they are taken from.
LEMMA EndSets ==
  /\ IsFiniteSet(Node \X AllChunks) /\ Cardinality(Node \X AllChunks) \in Nat
  /\ IsFiniteSet(Places) /\ Cardinality(Places) \in Nat
  /\ IsFiniteSet(Taking) /\ Cardinality(Taking) \in 0 .. Cnt
  /\ IsFiniteSet(Pending) /\ Cardinality(Pending) \in 0 .. Cardinality(Node)
  /\ IsFiniteSet(Gaps) /\ Cardinality(Gaps) \in 0 .. Cardinality(Node \X AllChunks)
  /\ IsFiniteSet(UnderWay) /\ Cardinality(UnderWay) \in 0 .. Cardinality(Places)
  /\ IsFiniteSet(OldAnswers) /\ Cardinality(OldAnswers) \in 0 .. Cardinality(Places)
<1>1. ASSUME NEW S, IsFiniteSet(S), NEW T \in SUBSET S
      PROVE  IsFiniteSet(T) /\ Cardinality(T) \in 0 .. Cardinality(S) /\ Cardinality(S) \in Nat
  BY <1>1, FS_Subset, FS_CardinalityType
<1>2. IsFiniteSet(1 .. Cnt) /\ Cardinality(1 .. Cnt) = Cnt /\ MaxBack \in Nat
  <2>1. Cnt \in Nat \ {0} /\ MaxBack \in Nat
    BY ListOnce, DistributionAssumption
  <2>2. 1 \in Int /\ Cnt \in Int /\ ~(1 > Cnt) /\ Cnt - 1 + 1 = Cnt
    BY <2>1
  <2> QED
    BY <2>1, <2>2, FS_Interval
<1>3. IsFiniteSet(Node) /\ IsFiniteSet(AllChunks) /\ IsFiniteSet(1 .. MaxBack)
  BY <1>2, ListOnce, Counts, FS_Interval
<1>4. IsFiniteSet(Node \X AllChunks) /\ IsFiniteSet(Places)
  BY <1>3, FS_Product DEF Places
<1>5. Taking \in SUBSET (1 .. Cnt) /\ Pending \in SUBSET Node /\ Gaps \in SUBSET (Node \X AllChunks)
      /\ UnderWay \in SUBSET Places /\ OldAnswers \in SUBSET Places
  BY DEF Taking, Pending, Gaps, UnderWay, OldAnswers
<1>6. IsFiniteSet(Taking) /\ Cardinality(Taking) \in 0 .. Cnt
  BY <1>1, <1>2, <1>5
<1>7. IsFiniteSet(Pending) /\ Cardinality(Pending) \in 0 .. Cardinality(Node)
  BY <1>1, <1>3, <1>5
<1>8. IsFiniteSet(Gaps) /\ Cardinality(Gaps) \in 0 .. Cardinality(Node \X AllChunks) /\ Cardinality(Node \X AllChunks) \in Nat
  BY <1>1, <1>4, <1>5
<1>9. /\ IsFiniteSet(UnderWay) /\ Cardinality(UnderWay) \in 0 .. Cardinality(Places)
      /\ IsFiniteSet(OldAnswers) /\ Cardinality(OldAnswers) \in 0 .. Cardinality(Places) /\ Cardinality(Places) \in Nat
  BY <1>1, <1>4, <1>5
<1> QED
  BY <1>4, <1>6, <1>7, <1>8, <1>9

\* The place of each state.
PlacesAre ==
    /\ st \in {"idle", "cancel"} => Place = 0
    /\ st = "apply" => Place = IF FirstApply THEN 2 ELSE 1
    /\ st = "updateGet" => Place = 3
    /\ InLoop => Place = 4 + 3 * (NumBlocks - block)
    /\ st = "checkResult" => Place = 5 + 3 * (NumBlocks - block)
    /\ st = "blockStart" => Place = 6 + 3 * (NumBlocks - block)
    /\ st = "transferStart" => Place = 7 + 3 * NumBlocks
    /\ st = "transferGet" => Place = 8 + 3 * NumBlocks
    /\ st = "updateStart" => Place = 9 + 3 * NumBlocks
    /\ st = "query" => Place = 10 + 3 * NumBlocks

\* The cases of the place, state by state.
LEMMA PlaceOf == PlacesAre
BY DEF PlacesAre, Place, InLoop

\* The same of the place after a step.
LEMMA PlaceNext == PlacesAre'
BY PlaceOf, PTL

\* The bounds of the rank.
LEMMA EndBounds ==
  /\ PlaceBound \in Nat \ {0} /\ OpenBound \in Nat \ {0} /\ BackBound \in Nat \ {0} /\ MaxSteps \in Nat \ {0}
  /\ RetryMax + 2 \in Nat \ {0} /\ MaxFaults \in Nat /\ MaxLoss \in Nat
<1>1. /\ Cnt \in Nat /\ Cardinality(Node) \in Nat /\ Cardinality(Node \X AllChunks) \in Nat /\ NumBlocks \in Nat
      /\ Cardinality(Places) \in Nat /\ Cardinality(AllChunks) \in Nat
  BY EndSets, ListOnce, Numbers, Counts
<1>2. PlaceBound \in Nat \ {0} /\ MaxSteps \in Nat \ {0} /\ BackBound \in Nat \ {0}
  BY <1>1 DEF PlaceBound, MaxSteps, BackBound
<1>3. OpenBound \in Nat \ {0}
  <2>1. \A c, n, m \in Nat : c + n + m + 1 \in Nat \ {0}
    OBVIOUS
  <2> QED
    BY <1>1, <2>1 DEF OpenBound
<1> QED
  BY <1>2, <1>3, DistributionAssumption

\* The parts of the rank are in their ranges.
EndRanges ==
    /\ Spare \in Nat /\ Place \in 0 .. PlaceBound - 1 /\ Open \in 0 .. OpenBound - 1 /\ Old \in 0 .. BackBound - 1
    /\ Phase \in 0 .. 5 /\ StepsToCome \in 0 .. MaxSteps - 1 /\ Tries \in 0 .. RetryMax + 1
    /\ Answered \in 0 .. BackBound - 1
    /\ Rank2 \in Nat /\ Rank3 \in Nat /\ Rank4 \in Nat /\ Rank5 \in Nat /\ Rank6 \in Nat /\ Rank7 \in Nat
    /\ EndRank \in Nat

\* A sum of this kind is a number.
LEMMA SumIsNat ==
  ASSUME NEW b \in Nat, NEW x \in Nat, NEW p \in 0 .. b - 1
  PROVE  b * x + p \in Nat
<1>1. b * x \in Nat
  OBVIOUS
<1> QED
  BY <1>1

\* They are.
LEMMA EndRankIn == EndInv => EndRanges
<1> SUFFICES ASSUME EndInv PROVE EndRanges
  OBVIOUS
<1>1. /\ GatewayTyped /\ CountsTyped /\ PlaceOK /\ CmdOK /\ Cnt \in Nat \ {0} /\ NumBlocks \in Nat \ {0}
      /\ block \in 0 .. NumBlocks
  BY ListOnce, Numbers DEF EndInv, SafeInv, GatewayTyped
<1>2. Spare \in Nat
  BY <1>1, EndBounds DEF Spare, CountsTyped
<1>3. Place \in 0 .. PlaceBound - 1
  BY <1>1, PlaceOf DEF PlacesAre, PlaceBound, InLoop, GatewayTyped, States, Rounds
<1>4. Open \in 0 .. OpenBound - 1
  <2>1. \A c, n, m \in Nat : \A i \in 0 .. c, j \in 0 .. n, k \in 0 .. m : i + j + k \in 0 .. (c + n + m + 1) - 1
    OBVIOUS
  <2>2. Cnt \in Nat /\ Cardinality(Node) \in Nat
    BY ListOnce
  <2>3. CASE InLoop
    <3>1. Open = Cardinality(Taking) + Cardinality(Pending) + Cardinality(Gaps)
      BY <2>3 DEF Open
    <3> QED
      BY <2>1, <2>2, <3>1, EndSets DEF OpenBound
  <2>4. CASE ~InLoop
    <3>1. 0 \in 0 .. OpenBound - 1
      BY EndBounds
    <3> QED
      BY <2>4, <3>1 DEF Open
  <2> QED
    BY <2>3, <2>4
<1>5. Old \in 0 .. BackBound - 1 /\ Answered \in 0 .. BackBound - 1
  BY EndSets DEF Old, Answered, BackBound
<1>6. Phase \in 0 .. 5
  BY DEF Phase
<1>7. StepsToCome \in 0 .. MaxSteps - 1
  <2>1. CASE st = "chunkStart"
    <3>1. ToSend \in SUBSET AllChunks
      BY <1>1 DEF ToSend, GatewayTyped
    <3>2. Cardinality(ToSend) \in 0 .. Cardinality(AllChunks) /\ Cardinality(AllChunks) \in Nat
      BY <3>1, Counts
    <3>3. StepsToCome = Cardinality(ToSend)
      BY <2>1 DEF StepsToCome, Rounds
    <3>4. \A k, c, n \in Nat : k <= c => k \in 0 .. 2 * n + c + 2 - 1
      OBVIOUS
    <3> QED
      BY <1>1, <3>2, <3>3, <3>4 DEF MaxSteps
  <2>2. CASE st \in Rounds
    <3>1. at \in 1 .. Cnt + 1 /\ (wait => at <= Cnt)
      BY <1>1, <2>2 DEF GatewayTyped
    <3> QED
      BY <1>1, <2>2, <3>1, StepsOf, Counts DEF RoundSteps, MaxSteps
  <2>3. CASE st # "chunkStart" /\ st \notin Rounds
    BY <1>1, <2>3, Counts DEF StepsToCome, MaxSteps
  <2> QED
    BY <2>1, <2>2, <2>3
<1>8. Tries \in 0 .. RetryMax + 1
  BY <1>1, DistributionAssumption DEF Tries, CmdOK, Commands
<1>9. Rank2 \in Nat
  BY <1>2, <1>3, EndBounds, SumIsNat DEF Rank2
<1>10. Rank3 \in Nat
  BY <1>4, <1>9, EndBounds, SumIsNat DEF Rank3
<1>11. Rank4 \in Nat
  BY <1>5, <1>10, EndBounds, SumIsNat DEF Rank4
<1>12. Rank5 \in Nat
  BY <1>6, <1>11, SumIsNat DEF Rank5
<1>13. Rank6 \in Nat
  BY <1>7, <1>12, EndBounds, SumIsNat DEF Rank6
<1>14. Rank7 \in Nat
  <2>1. Tries \in 0 .. (RetryMax + 2) - 1
    BY <1>8, DistributionAssumption
  <2> QED
    BY <1>13, <2>1, EndBounds, SumIsNat DEF Rank7
<1>15. EndRank \in Nat
  BY <1>5, <1>14, EndBounds, SumIsNat DEF EndRank
<1> QED
  BY <1>2, <1>3, <1>4, <1>5, <1>6, <1>7, <1>8, <1>9, <1>10, <1>11, <1>12, <1>13, <1>14, <1>15 DEF EndRanges

\* So after the next step.
LEMMA EndRankInNext == EndInv' => EndRanges'
BY EndRankIn, PTL

\* What is first decides, or else what comes after it.
LEMMA Lexical ==
  ASSUME NEW b \in Nat, NEW x \in Nat, NEW y \in Nat, NEW p \in 0 .. b - 1, NEW q \in 0 .. b - 1, x < y \/ (x = y /\ p < q)
  PROVE  b * x + p < b * y + q
<1>1. CASE x < y
  BY <1>1, FirstDecides
<1>2. CASE x = y /\ p < q
  <2>1. b * x \in Nat
    OBVIOUS
  <2> DEFINE m == b * x
  <2>2. m \in Nat /\ b * x = m /\ b * y = m
    BY <1>2, <2>1
  <2> HIDE DEF m
  <2>3. m + p < m + q
    BY <1>2, <2>2
  <2> QED
    BY <2>2, <2>3
<1> QED
  BY <1>1, <1>2

\* Something of the rank becomes less, and nothing before it more.
Drop7 == Tries' < Tries \/ (Tries' = Tries /\ Answered' < Answered)
Drop6 == StepsToCome' < StepsToCome \/ (StepsToCome' = StepsToCome /\ Drop7)
Drop5 == Phase' < Phase \/ (Phase' = Phase /\ Drop6)
Drop4 == Old' < Old \/ (Old' = Old /\ Drop5)
Drop3 == Open' < Open \/ (Open' = Open /\ Drop4)
Drop2 == Place' < Place \/ (Place' = Place /\ Drop3)
Drop1 == Spare' < Spare \/ (Spare' = Spare /\ Drop2)

\* Then the rank becomes less.
LEMMA EndRankFalls ==
  ASSUME EndInv, EndInv', Drop1
  PROVE  EndRank' < EndRank
<1>1. EndRanges /\ EndRanges'
  BY EndRankIn, EndRankInNext
<1>2. /\ PlaceBound \in Nat /\ OpenBound \in Nat /\ BackBound \in Nat /\ MaxSteps \in Nat
      /\ RetryMax + 2 \in Nat /\ RetryMax + 1 = (RetryMax + 2) - 1
  BY EndBounds, DistributionAssumption
<1>3. /\ Rank2' = PlaceBound * Spare' + Place' /\ Rank3' = OpenBound * Rank2' + Open'
      /\ Rank4' = BackBound * Rank3' + Old' /\ Rank5' = 6 * Rank4' + Phase'
      /\ Rank6' = MaxSteps * Rank5' + StepsToCome' /\ Rank7' = (RetryMax + 2) * Rank6' + Tries'
      /\ EndRank' = BackBound * Rank7' + Answered'
  BY DEF Rank2, Rank3, Rank4, Rank5, Rank6, Rank7, EndRank, PlaceBound, OpenBound, BackBound, MaxSteps, Places
<1>4. /\ Place' \in 0 .. PlaceBound - 1 /\ Open' \in 0 .. OpenBound - 1 /\ Old' \in 0 .. BackBound - 1
      /\ StepsToCome' \in 0 .. MaxSteps - 1 /\ Tries' \in 0 .. (RetryMax + 2) - 1 /\ Answered' \in 0 .. BackBound - 1
      /\ Spare' \in Nat /\ Phase' \in 0 .. 6 - 1
      /\ Rank2' \in Nat /\ Rank3' \in Nat /\ Rank4' \in Nat /\ Rank5' \in Nat /\ Rank6' \in Nat /\ Rank7' \in Nat
  BY <1>1, <1>2 DEF EndRanges, PlaceBound, OpenBound, BackBound, MaxSteps, Places
<1>5. /\ Place \in 0 .. PlaceBound - 1 /\ Open \in 0 .. OpenBound - 1 /\ Old \in 0 .. BackBound - 1
      /\ StepsToCome \in 0 .. MaxSteps - 1 /\ Tries \in 0 .. (RetryMax + 2) - 1 /\ Answered \in 0 .. BackBound - 1
      /\ Spare \in Nat /\ Phase \in 0 .. 6 - 1
      /\ Rank2 \in Nat /\ Rank3 \in Nat /\ Rank4 \in Nat /\ Rank5 \in Nat /\ Rank6 \in Nat /\ Rank7 \in Nat
  BY <1>1, <1>2 DEF EndRanges
<1>6. Rank2' < Rank2 \/ (Rank2' = Rank2 /\ Drop3)
  <2>1. CASE Spare' < Spare \/ (Spare' = Spare /\ Place' < Place)
    BY <1>2, <1>3, <1>4, <1>5, <2>1, Lexical DEF Rank2
  <2>2. CASE Spare' = Spare /\ Place' = Place /\ Drop3
    BY <1>3, <2>2 DEF Rank2
  <2> QED
    BY <2>1, <2>2 DEF Drop1, Drop2
<1>7. Rank3' < Rank3 \/ (Rank3' = Rank3 /\ Drop4)
  <2>1. CASE Rank2' < Rank2 \/ (Rank2' = Rank2 /\ Open' < Open)
    BY <1>2, <1>3, <1>4, <1>5, <2>1, Lexical DEF Rank3
  <2>2. CASE Rank2' = Rank2 /\ Open' = Open /\ Drop4
    BY <1>3, <2>2 DEF Rank3
  <2> QED
    BY <1>6, <2>1, <2>2 DEF Drop3
<1>8. Rank4' < Rank4 \/ (Rank4' = Rank4 /\ Drop5)
  <2>1. CASE Rank3' < Rank3 \/ (Rank3' = Rank3 /\ Old' < Old)
    BY <1>2, <1>3, <1>4, <1>5, <2>1, Lexical DEF Rank4
  <2>2. CASE Rank3' = Rank3 /\ Old' = Old /\ Drop5
    BY <1>3, <2>2 DEF Rank4
  <2> QED
    BY <1>7, <2>1, <2>2 DEF Drop4
<1>9. Rank5' < Rank5 \/ (Rank5' = Rank5 /\ Drop6)
  <2>1. CASE Rank4' < Rank4 \/ (Rank4' = Rank4 /\ Phase' < Phase)
    BY <1>3, <1>4, <1>5, <2>1, Lexical DEF Rank5
  <2>2. CASE Rank4' = Rank4 /\ Phase' = Phase /\ Drop6
    BY <1>3, <2>2 DEF Rank5
  <2> QED
    BY <1>8, <2>1, <2>2 DEF Drop5
<1>10. Rank6' < Rank6 \/ (Rank6' = Rank6 /\ Drop7)
  <2>1. CASE Rank5' < Rank5 \/ (Rank5' = Rank5 /\ StepsToCome' < StepsToCome)
    BY <1>2, <1>3, <1>4, <1>5, <2>1, Lexical DEF Rank6
  <2>2. CASE Rank5' = Rank5 /\ StepsToCome' = StepsToCome /\ Drop7
    BY <1>3, <2>2 DEF Rank6
  <2> QED
    BY <1>9, <2>1, <2>2 DEF Drop6
<1>11. Rank7' < Rank7 \/ (Rank7' = Rank7 /\ Answered' < Answered)
  <2>1. CASE Rank6' < Rank6 \/ (Rank6' = Rank6 /\ Tries' < Tries)
    BY <1>2, <1>3, <1>4, <1>5, <2>1, Lexical DEF Rank7
  <2>2. CASE Rank6' = Rank6 /\ Tries' = Tries /\ Answered' < Answered
    BY <1>3, <2>2 DEF Rank7
  <2> QED
    BY <1>10, <2>1, <2>2 DEF Drop7
<1> QED
  BY <1>2, <1>3, <1>4, <1>5, <1>11, Lexical DEF EndRank

-----------------------------------------------------------------------------
(* What a node misses *)

Waits(r) == r.miss # {} => r.tp = "waitChunk"

\* A block that is complete.
LEMMA AllChunksRxIs ==
  ASSUME NEW r \in NodeStates
  PROVE  AllChunksRx(r).miss = r.miss /\ AllChunksRx(r).bcur = r.bcur /\ AllChunksRx(r).reboot = r.reboot
<1> DEFINE q == [r EXCEPT !.sums[r.bnum] = IF ~r.rxok /\ @ = "none" THEN SumOf(r) ELSE @, !.rxok = TRUE]
<1>1. q \in NodeStates /\ q.miss = r.miss /\ q.bcur = r.bcur /\ q.reboot = r.reboot
  BY DEF NodeStates, SumOf
<1>2. AllChunksRx(r) = [q EXCEPT !.tp = IF RxOkCount(q) = NumBlocks THEN "complete" ELSE "waitBlock"]
  BY DEF AllChunksRx
<1> HIDE DEF q
<1> QED
  BY <1>1, <1>2 DEF NodeStates

\* A block get leaves what a node misses, and a node that misses chunks as it is.
LEMMA BlockGetLeaves ==
  ASSUME NEW r \in NodeStates
  PROVE  /\ BlockGet(r).miss = r.miss /\ BlockGet(r).bcur = r.bcur /\ BlockGet(r).reboot = r.reboot
         /\ r.miss # {} => BlockGet(r) = r
         /\ BlockGetAnswer(BlockGet(r)).miss = BlockGetAnswer(r).miss
<1>1. BlockGet(r).miss = r.miss /\ BlockGet(r).bcur = r.bcur /\ BlockGet(r).reboot = r.reboot
  BY AllChunksRxIs DEF BlockGet
<1> QED
  BY <1>1 DEF BlockGet, BlockGetAnswer, BlockStatus, Answer

\* The states that are built by clearing the procedure miss nothing.
LEMMA ClearedWaits ==
  ASSUME NEW r \in NodeStates
  PROVE  /\ Cleared(r).miss = {} /\ KeepStartAndCrc(r).miss = {}
         /\ KeepStartAndCrc(r) \in NodeStates
<1>1. Cleared(r).miss = {}
  BY DEF Cleared, Nodes0
<1>2. Cleared(r) \in NodeStates
  BY Nodes0OK DEF Cleared, NodeStates
<1> DEFINE s == Cleared(r)
<1>3. KeepStartAndCrc(r) = [s EXCEPT !.begun = r.begun, !.crcDone = IF r.crcDone = "ok" THEN "ok" ELSE "none"]
  BY DEF KeepStartAndCrc
<1>4. s.miss = {} /\ s \in NodeStates
  BY <1>1, <1>2
<1> HIDE DEF s
<1>5. KeepStartAndCrc(r) \in NodeStates /\ KeepStartAndCrc(r).miss = {}
  BY <1>3, <1>4 DEF NodeStates
<1> QED
  BY <1>1, <1>5

\* A command leaves a node waiting for the chunks that it misses.
LEMMA HandledWaits ==
  ASSUME NEW r \in NodeStates, Waits(r), NEW op, NEW b
  PROVE  Waits(Handled(op, r, b))
<1>1. CASE op = "updateStart"
  <2>1. CASE StartIsRepeat(r)
    BY <1>1, <2>1 DEF Handled, UpdateStart, Waits, NodeStates
  <2>2. CASE ~StartIsRepeat(r)
    <3> DEFINE s == Cleared(r)
    <3>1. Handled(op, r, b) = [s EXCEPT !.up = "active", !.busy = TRUE, !.begun = TRUE, !.tp = "waitStart"]
      BY <1>1, <2>2 DEF Handled, UpdateStart
    <3>2. s.miss = {}
      BY ClearedWaits
    <3> HIDE DEF s
    <3> QED
      BY <3>1, <3>2 DEF Waits
  <2> QED
    BY <2>1, <2>2
<1>2. CASE op = "transferStart"
  BY <1>2 DEF Handled, TransferStart, Waits, NodeStates
<1>3. CASE op = "blockStart"
  <2> DEFINE s == [r EXCEPT !.bcur = b]
  <2>1. Handled(op, r, b) \in {s, [s EXCEPT !.bnum = b, !.miss = Chunks(b), !.rxok = FALSE, !.tp = "waitChunk"]}
    BY <1>3 DEF Handled, BlockStart
  <2>2. s.miss = r.miss /\ s.tp = r.tp
    BY DEF NodeStates
  <2>3. [s EXCEPT !.bnum = b, !.miss = Chunks(b), !.rxok = FALSE, !.tp = "waitChunk"].tp = "waitChunk"
    BY DEF NodeStates
  <2> HIDE DEF s
  <2> QED
    BY <2>1, <2>2, <2>3 DEF Waits
<1>4. CASE op = "blockGet"
  <2>1. Handled(op, r, b) = BlockGet(r)
    BY <1>4 DEF Handled
  <2> QED
    BY <2>1, BlockGetLeaves DEF Waits
<1>5. CASE op = "updateGet"
  BY <1>5 DEF Handled, UpdateGet, Waits, NodeStates
<1>6. CASE op = "apply"
  <2> DEFINE q == [r EXCEPT !.crcDone = "ok"]
             s == KeepStartAndCrc(q)
             t == KeepStartAndCrc(r)
  <2>1. q \in NodeStates
    BY DEF NodeStates
  <2>2. s.miss = {} /\ t.miss = {} /\ s \in NodeStates /\ t \in NodeStates
    BY <2>1, ClearedWaits
  <2>3. Handled(op, r, b) \in {r, [s EXCEPT !.up = "applying", !.reboot = "success"], [t EXCEPT !.up = "verifyFail", !.reboot = "fail"]}
    BY <1>6 DEF Handled, UpdateApply
  <2> HIDE DEF s, t
  <2> QED
    BY <2>2, <2>3 DEF Waits, NodeStates
<1>7. CASE op = "cancel"
  <2> DEFINE t == KeepStartAndCrc(r)
  <2>1. t.miss = {} /\ t \in NodeStates
    BY ClearedWaits
  <2>2. Handled(op, r, b) \in {r, [t EXCEPT !.reboot = IF r.reboot = "none" THEN "fail" ELSE r.reboot]}
    BY <1>7 DEF Handled, UpdateCancel
  <2> HIDE DEF t
  <2> QED
    BY <2>1, <2>2 DEF Waits, NodeStates
<1>8. CASE op \notin {"updateStart", "transferStart", "blockStart", "blockGet", "updateGet", "apply", "cancel"}
  BY <1>8 DEF Handled
<1> QED
  BY <1>1, <1>2, <1>3, <1>4, <1>5, <1>6, <1>7, <1>8

\* A chunk closes a gap or changes nothing; in the right block it closes the gap.
LEMMA ChunkCloses ==
  ASSUME NEW r \in NodeStates, NEW b \in Blocks, NEW c \in Chunks(b)
  PROVE  LET s == ChunkTransfer(r, b, c)
         IN  /\ Waits(r) => Waits(s)
             /\ s.miss \subseteq r.miss /\ s.reboot = r.reboot
             /\ \/ s = r /\ ~(r.tp = "waitChunk" /\ r.bcur = b /\ c \in r.miss)
                \/ c \in r.miss /\ s.miss = r.miss \ {c}
<1>1. CASE ~(r.tp = "waitChunk" /\ ChunkFits(r, b, c) /\ c \in r.miss)
  BY <1>1 DEF ChunkTransfer, ChunkFits
<1>2. CASE r.tp = "waitChunk" /\ ChunkFits(r, b, c) /\ c \in r.miss
  <2> DEFINE q == [r EXCEPT !.miss = @ \ {c}, !.crcDone = "none",
                            !.flash[<<r.bnum, c>>] = IF @ \in {Erased, <<b, c>>} THEN <<b, c>> ELSE Spoilt]
  <2>1. ChunkTransfer(r, b, c) = IF q.miss = {} THEN AllChunksRx(q) ELSE q
    BY <1>2 DEF ChunkTransfer
  <2>2. q.miss = r.miss \ {c} /\ q.reboot = r.reboot /\ q.tp = r.tp
    BY DEF NodeStates
  <2>3. q \in NodeStates
    <3>1. <<b, c>> \in Image
      BY Positions
    <3> QED
      BY <3>1 DEF NodeStates
  <2> HIDE DEF q
  <2>4. AllChunksRx(q).miss = q.miss /\ AllChunksRx(q).reboot = q.reboot
    BY <2>3, AllChunksRxIs
  <2> DEFINE s == ChunkTransfer(r, b, c)
  <2>5. s.miss = r.miss \ {c} /\ s.reboot = r.reboot /\ (s.miss # {} => s = q)
    BY <2>1, <2>2, <2>4
  <2> HIDE DEF s
  <2>6. Waits(s)
    BY <1>2, <2>2, <2>5 DEF Waits
  <2> QED
    BY <1>2, <2>5, <2>6 DEF s
<1> QED
  BY <1>1, <1>2

\* What an answer changes, and what the gateway stores when it takes it.
LEMMA RxIs ==
  ASSUME SafeInv, NEW n \in Node, RxAnswer(n)
  PROVE  LET a == Head(back[n]).answer
         IN  /\ UNCHANGED <<st, block, node, lost, faults>> /\ Tries' <= Tries
             /\ back[n] \in Seq(Entries) /\ back[n] # <<>> /\ a \in Answers
             /\ back' = [back EXCEPT ![n] = Tail(@)]
             /\ \A i \in 1 .. Cnt : list'[i].applied = list[i].applied
             /\ \/ UNCHANGED <<missing, at, wait>> /\ \A i \in 1 .. Cnt : list'[i].skip = list[i].skip
                \/ /\ wait /\ wait' = FALSE /\ at \in 1 .. Cnt /\ at' = at + 1 /\ n = Nodes[at]
                   /\ a.kind = KindOf(st) /\ missing' = MissingWith(a)
                   /\ \A i \in 1 .. Cnt : i # at => list'[i].skip = list[i].skip
                   /\ IF a.ok THEN list'[at].skip = list[at].skip ELSE list'[at].skip <=> st # "apply"
<1> DEFINE a == Head(back[n]).answer
           known == IF Looked(n, a) /\ a.kind = "fw" THEN [list EXCEPT ![at].phase = a.phase] ELSE list
<1>1. GatewayTyped /\ CmdOK /\ NodesOK /\ Cnt \in Nat \ {0}
  BY ListOnce DEF SafeInv
<1>2. /\ back[n] # <<>> /\ back' = [back EXCEPT ![n] = Tail(@)] /\ UNCHANGED <<st, block, node, lost, faults>>
      /\ cmd' = IF a.kind # KindOf(cmd.op) \/ n \notin cmd.to THEN cmd
                ELSE IF cmd.left = 1 THEN NoCmd ELSE [cmd EXCEPT !.left = @ - 1]
      /\ IF Taken(n, a)
         THEN list' = [known EXCEPT ![at] = Noted(@, a)] /\ missing' = MissingWith(a) /\ at' = at + 1 /\ wait' = FALSE
         ELSE list' = known /\ UNCHANGED <<missing, at, wait>>
  BY DEF RxAnswer
<1>3. back[n] \in Seq(Entries) /\ a \in Answers
  <2>1. back[n] \in Seq(Entries)
    BY <1>1 DEF NodesOK
  <2>2. Head(back[n]) \in Entries
    BY <1>2, <2>1
  <2> QED
    BY <2>1, <2>2 DEF Entries
<1>4. wait => at \in 1 .. Cnt
  BY <1>1 DEF GatewayTyped
<1>5. /\ known \in [1 .. Cnt -> Receivers]
      /\ \A i \in 1 .. Cnt : known[i].skip = list[i].skip /\ known[i].applied = list[i].applied
  BY <1>1, <1>3 DEF GatewayTyped, Receivers, Answers, Looked
<1>6. Tries' <= Tries
  <2>1. CASE cmd = NoCmd
    BY <1>2, <2>1 DEF NoCmd, Tries
  <2>2. CASE cmd # NoCmd
    <3>1. cmd \in Commands /\ cmd.retry \in Nat
      BY <1>1, <2>2, DistributionAssumption DEF CmdOK, Commands
    <3>2. [cmd EXCEPT !.left = @ - 1].retry = cmd.retry
      BY <3>1 DEF Commands
    <3>3. cmd' = NoCmd \/ cmd'.retry = cmd.retry
      BY <1>2, <3>2
    <3> QED
      BY <2>2, <3>1, <3>3 DEF Tries
  <2> QED
    BY <2>1, <2>2
<1> HIDE DEF known
<1>7. CASE ~Taken(n, a)
  BY <1>2, <1>3, <1>5, <1>6, <1>7
<1>8. CASE Taken(n, a)
  <2>1. wait /\ at \in 1 .. Cnt /\ n = Nodes[at] /\ a.kind = KindOf(st)
    BY <1>4, <1>8 DEF Taken
  <2>2. known[at] \in Receivers
    BY <1>5, <2>1
  <2> DEFINE q == Noted(known[at], a)
  <2>3. /\ q.applied = known[at].applied
        /\ a.ok => q.skip = known[at].skip
        /\ ~a.ok => (q.skip <=> st # "apply")
    BY <1>3, <2>2, NotedIs
  <2>4. list' = [known EXCEPT ![at] = q]
    BY <1>2, <1>8
  <2> HIDE DEF q
  <2>5. list'[at] = q /\ \A i \in 1 .. Cnt : i # at => list'[i] = known[i]
    BY <1>5, <2>1, <2>4
  <2>6. \A i \in 1 .. Cnt : list'[i].applied = list[i].applied
    BY <1>5, <2>1, <2>3, <2>5
  <2>7. /\ \A i \in 1 .. Cnt : i # at => list'[i].skip = list[i].skip
        /\ IF a.ok THEN list'[at].skip = list[at].skip ELSE list'[at].skip <=> st # "apply"
    BY <1>3, <1>5, <2>1, <2>3, <2>5 DEF Answers
  <2> HIDE DEF a
  <2>8. missing' = MissingWith(a) /\ at' = at + 1 /\ wait' = FALSE
    BY <1>2, <1>8
  <2> QED
    BY <1>2, <1>3, <1>6, <2>1, <2>6, <2>7, <2>8 DEF a
<1> QED
  BY <1>7, <1>8

\* A command leaves them waiting.
LEMMA TransmitWaits ==
  ASSUME NodesOK, WaitsForMissed, NEW c, NEW late, Transmit(c, late)
  PROVE  WaitsForMissed'
<1>1. PICK reached \in SUBSET c.to :
        node' = [n \in Node |-> IF n \in reached THEN Handled(c.op, node[n], c.of[3]) ELSE node[n]]
  BY DEF Transmit
<1>2. \A n \in Node : Waits(node[n]) /\ node[n] \in NodeStates
  BY DEF NodesOK, WaitsForMissed, Waits
<1>3. \A n \in Node : Waits(node'[n])
  BY <1>1, <1>2, HandledWaits
<1> QED
  BY <1>3 DEF WaitsForMissed, Waits

\* Every step leaves every node waiting for what it misses.
LEMMA WaitsStep ==
  ASSUME SafeInv, WaitsForMissed, [Next]_vars
  PROVE  WaitsForMissed'
<1>1. NodesOK /\ GatewayTyped /\ PlaceOK
  BY DEF SafeInv
<1>2. CASE UNCHANGED node
  BY <1>2 DEF WaitsForMissed
<1>3. CASE \E c, late : Transmit(c, late)
  BY <1>1, <1>3, TransmitWaits
<1>4. CASE SendChunk
  <2>1. PICK out \in SUBSET Node :
          node' = [n \in Node |-> IF n \in out \/ NextChunk = {} THEN node[n]
                                  ELSE ChunkTransfer(node[n], block, CHOOSE c \in NextChunk : TRUE)]
    BY <1>4 DEF SendChunk
  <2>2. block \in Blocks
    BY <1>1, <1>4 DEF SendChunk, PlaceOK
  <2>3. NextChunk # {} => (CHOOSE c \in NextChunk : TRUE) \in Chunks(block)
    BY DEF NextChunk, ToSend
  <2>4. ASSUME NEW n \in Node PROVE Waits(node'[n])
    <3>1. Waits(node[n]) /\ node[n] \in NodeStates
      BY <1>1 DEF NodesOK, WaitsForMissed, Waits
    <3> QED
      BY <2>1, <2>2, <2>3, <3>1, ChunkCloses
  <2> QED
    BY <2>4 DEF WaitsForMissed, Waits
<1>5. CASE \E n \in Node : node' = [node EXCEPT ![n] = Nodes0]
  <2>1. Nodes0.miss = {}
    BY DEF Nodes0
  <2> QED
    BY <1>1, <1>5, <2>1 DEF WaitsForMissed, NodesOK
<1>6. CASE Proc
  BY <1>2, <1>3, <1>4, <1>6 DEF Proc, PassReceiver, SendToReceiver, EndRound, CheckResult, LastBlock, PassApplied,
     SendApply, EndApply, Report, Reliable
<1>7. CASE Retry \/ SegmentTimeout \/ AppStart \/ AppCancel
  BY <1>2, <1>3, <1>7 DEF Retry, SegmentTimeout, AppStart, AppCancel, Reliable
<1>8. CASE \E n \in Node : RxAnswer(n) \/ Reboot(n) \/ Restart(n)
  BY <1>2, <1>5, <1>8 DEF RxAnswer, Reboot, Restart, Restarted
<1> QED
  BY <1>2, <1>6, <1>7, <1>8 DEF Next, vars

\* In a round of applies the gateway passes only the node with the connection.
LEMMA ApplyOrderStep ==
  ASSUME SafeInv, ApplyOrder, [Next]_vars
  PROVE  ApplyOrder'
<1> SUFFICES ASSUME st' = "apply" PROVE ApplyOrder'
  BY DEF ApplyOrder
<1>1. GatewayTyped /\ CmdOK /\ Cnt \in Nat \ {0}
  BY ListOnce DEF SafeInv
<1>2. CASE UNCHANGED <<st, at, list>>
  BY <1>2 DEF ApplyOrder
<1>3. CASE at' = 1
  BY <1>3 DEF ApplyOrder
<1>4. CASE /\ st = "apply" /\ at \in 1 .. Cnt /\ at' = at + 1 /\ (list'[at].applied \/ Nodes[at] = Connected)
           /\ \A i \in 1 .. Cnt : list'[i].applied = list[i].applied
  <2>1. \A i \in 1 .. Cnt : at' > i => at > i \/ i = at
    BY <1>4
  <2> QED
    BY <1>4, <2>1 DEF ApplyOrder
<1>5. CASE PassReceiver \/ PassApplied
  <2>1. st = "apply" /\ at \in 1 .. Cnt /\ at' = at + 1 /\ list' = list
    BY <1>1, <1>5 DEF PassReceiver, PassApplied, InRound, GatewayTyped
  <2>2. list[at].applied \/ Nodes[at] = Connected
    BY <1>5, <2>1 DEF PassReceiver, PassApplied, InRound
  <2> QED
    BY <1>4, <2>1, <2>2
<1>6. CASE EndRound \/ EndApply \/ LastBlock
  BY <1>3, <1>6 DEF EndRound, EndApply, LastBlock, NextBlock, After
<1>7. CASE SendToReceiver
  BY <1>2, <1>7 DEF SendToReceiver
<1>8. CASE SendApply
  <2>1. st = "apply" /\ at' = at /\ list' = [list EXCEPT ![at].applied = TRUE]
    BY <1>8 DEF SendApply
  <2>2. \A i \in 1 .. Cnt : list[i].applied => list'[i].applied
    BY <1>1, <2>1 DEF GatewayTyped, Receivers
  <2> QED
    BY <2>1, <2>2 DEF ApplyOrder
<1>9. CASE SendChunk \/ CheckResult \/ Report \/ AppStart \/ AppCancel
  BY <1>9 DEF SendChunk, CheckResult, NextBlock, Report, Cleaned, AppStart, AppCancel, Ready
<1>10. CASE Retry
  <2>1. st = "apply"
    BY <1>10 DEF Retry
  <2>2. UNCHANGED <<at, list>> \/ (wait /\ list' = [list EXCEPT ![at].skip = TRUE] /\ at' = at + 1)
    BY <1>10 DEF Retry, GiveUp
  <2>3. CASE wait /\ list' = [list EXCEPT ![at].skip = TRUE] /\ at' = at + 1
    <3>1. at \in 1 .. Cnt /\ list[at].applied
      BY <1>1, <2>1, <2>3 DEF GatewayTyped, CmdOK
    <3>2. \A i \in 1 .. Cnt : list'[i].applied = list[i].applied
      BY <1>1, <2>3 DEF GatewayTyped, Receivers
    <3> QED
      BY <1>4, <2>1, <2>3, <3>1, <3>2
  <2> QED
    BY <1>2, <1>10, <2>2, <2>3 DEF Retry
<1>11. CASE \E n \in Node : RxAnswer(n)
  <2>1. PICK n \in Node : RxAnswer(n)
    BY <1>11
  <2>2. st = "apply" /\ \A i \in 1 .. Cnt : list'[i].applied = list[i].applied
    BY <2>1, RxIs
  <2>3. at' = at \/ (wait /\ at \in 1 .. Cnt /\ at' = at + 1)
    BY <2>1, RxIs
  <2>4. CASE at' = at
    BY <2>2, <2>4 DEF ApplyOrder
  <2>5. CASE wait /\ at \in 1 .. Cnt /\ at' = at + 1
    <3>1. list[at].applied
      BY <1>1, <2>2, <2>5 DEF CmdOK
    <3> QED
      BY <1>4, <2>2, <2>5, <3>1
  <2> QED
    BY <2>3, <2>4, <2>5
<1>12. CASE SegmentTimeout \/ (\E n \in Node : Reboot(n) \/ Restart(n)) \/ UNCHANGED vars
  BY <1>2, <1>12 DEF SegmentTimeout, Reboot, Restart, vars
<1> QED
  BY <1>5, <1>6, <1>7, <1>8, <1>9, <1>10, <1>11, <1>12 DEF Next, Proc

\* The invariant that the rank needs.
LEMMA EndInvariant == Spec => []EndInv
<1>1. Init => EndInv
  <2>1. Init => ApplyOrder
    BY DEF Init, ApplyOrder
  <2>2. Init => WaitsForMissed
    BY DEF Init, WaitsForMissed, Nodes0
  <2> QED
    BY <2>1, <2>2, SafeStart DEF EndInv
<1>2. EndInv /\ [Next]_vars => EndInv'
  BY SafeStep, WaitsStep, ApplyOrderStep DEF EndInv
<1> QED
  BY <1>1, <1>2, PTL DEF Spec

-----------------------------------------------------------------------------
(* Every step lowers the rank, or changes nothing of it *)

\* Within a state the place stays, but for the rounds of applies.
LEMMA PlaceSame ==
  ASSUME GatewayTyped, UNCHANGED <<st, block>>, st = "apply" => (FirstApply' <=> FirstApply)
  PROVE  Place' = Place
BY PlaceOf, PlaceNext DEF PlacesAre, InLoop, GatewayTyped, States, Rounds

\* A fault or a loss more.
LEMMA SpareFalls ==
  ASSUME EndInv, EndInv', faults' >= faults, lost' >= lost
  PROVE  Spare' < Spare \/ (Spare' = Spare /\ faults' = faults /\ lost' = lost)
<1>1. /\ MaxFaults \in Nat /\ MaxLoss \in Nat /\ faults \in Nat /\ lost \in Nat /\ faults' \in Nat /\ lost' \in Nat
  BY EndBounds DEF EndInv, SafeInv, CountsTyped
<1>2. \A m, l, f, g, x, y \in Nat :
        g >= f /\ y >= x => \/ (m - g) + (l - y) < (m - f) + (l - x)
                            \/ g = f /\ y = x
  OBVIOUS
<1>3. \/ (MaxFaults - faults') + (MaxLoss - lost') < (MaxFaults - faults) + (MaxLoss - lost)
      \/ faults' = faults /\ lost' = lost
  BY <1>1, <1>2
<1> QED
  BY <1>3 DEF Spare

\* What the parts of the rank that are about the loop are made of.
LEMMA LoopSame ==
  ASSUME UNCHANGED <<st, block, missing>>,
         InLoop => /\ Taking' = Taking /\ Pending' = Pending /\ Gaps' = Gaps
                   /\ \A n \in Node : \A j \in 1 .. MaxBack : OldFrom(n, j)' <=> OldFrom(n, j)
                   /\ WillShrink' <=> WillShrink
  PROVE  Open' = Open /\ Old' = Old /\ Phase' = Phase
<1>1. InLoop' <=> InLoop
  BY DEF InLoop
<1>2. InLoop => OldAnswers' = OldAnswers
  BY DEF OldAnswers, Places
<1>3. Open' = Open
  BY <1>1 DEF Open
<1>4. Old' = Old
  BY <1>1, <1>2 DEF Old
<1>5. Phase' = Phase
  BY DEF Phase, InLoop
<1> QED
  BY <1>3, <1>4, <1>5

\* The same when nothing of it changes.
LEMMA LoopUnchanged ==
  ASSUME UNCHANGED <<st, block, missing, list, node, back>>
  PROVE  Open' = Open /\ Old' = Old /\ Phase' = Phase
<1>1. Taking' = Taking /\ Pending' = Pending /\ Gaps' = Gaps
  BY DEF Taking, Pending, Gaps
<1>2. \A n \in Node : \A j \in 1 .. MaxBack : OldFrom(n, j)' <=> OldFrom(n, j)
  BY DEF OldFrom, Outdated
<1>3. WillShrink' <=> WillShrink
  BY DEF WillShrink, ToSend
<1> QED
  BY <1>1, <1>2, <1>3, LoopSame

\* A block get and its answer change nothing of it: the answer is true.
LEMMA AskedLoop ==
  ASSUME SafeInv, NEW c \in Commands, NEW late \in {0, 1}, Transmit(c, late), UNCHANGED <<st, block, missing>>,
         \A i \in 1 .. Cnt : list'[i].skip = list[i].skip,
         InLoop => c.op = "blockGet", c.op = "blockStart" => c.of[3] \in Blocks
  PROVE  Open' = Open /\ Old' = Old /\ Phase' = Phase /\ faults' >= faults
<1>1. NodesOK /\ CountsTyped /\ faults \in Nat
  BY DistributionAssumption DEF SafeInv, CountsTyped
<1>2. faults' >= faults
  BY <1>1 DEF Transmit
<1>3. ASSUME InLoop
      PROVE  /\ Taking' = Taking /\ Pending' = Pending /\ Gaps' = Gaps
             /\ \A n \in Node : \A j \in 1 .. MaxBack : OldFrom(n, j)' <=> OldFrom(n, j)
             /\ WillShrink' <=> WillShrink
  <2>1. \A n \in Node : node[n] \in NodeStates /\ back[n] \in Seq(Entries)
    BY <1>1 DEF NodesOK
  <2>2. \A n \in Node : node'[n] = node[n] \/ node'[n] = BlockGet(node[n])
    <3>1. \A n \in Node : node'[n] = node[n] \/ node'[n] = Handled(c.op, node[n], c.of[3])
      BY <1>1, TransmitOK DEF CountsTyped
    <3> QED
      BY <1>3, <3>1 DEF Handled
  <2>3. \A n \in Node : /\ node'[n].miss = node[n].miss /\ node'[n].bcur = node[n].bcur /\ node'[n].reboot = node[n].reboot
                        /\ node[n].miss # {} => node'[n] = node[n]
                        /\ BlockGetAnswer(node'[n]).miss = BlockGetAnswer(node[n]).miss
    BY <2>1, <2>2, BlockGetLeaves
  <2>4. Taking' = Taking /\ Pending' = Pending /\ Gaps' = Gaps
    BY <2>3 DEF Taking, Pending, Gaps
  <2>5. WillShrink' <=> WillShrink
    <3>1. ToSend' = ToSend
      BY DEF ToSend
    <3>2. \A n \in Node : node[n].miss \intersect ToSend # {} => node[n].miss # {}
      OBVIOUS
    <3> QED
      BY <2>3, <3>1, <3>2 DEF WillShrink
  <2>6. ASSUME NEW n \in Node, NEW j \in 1 .. MaxBack PROVE OldFrom(n, j)' <=> OldFrom(n, j)
    <3> DEFINE e == [of |-> c.of, answer |-> BlockGetAnswer(node[n])]
    <3>1. back'[n] = back[n] \/ back'[n] = Append(back[n], e)
      <4>1. \/ back'[n] = back[n]
            \/ back'[n] = Append(back[n], [of |-> c.of, answer |-> AnswerTo(c.op, node[n], c.of[3])])
        BY <1>1, TransmitOK DEF CountsTyped
      <4>2. AnswerTo(c.op, node[n], c.of[3]) = BlockGetAnswer(node[n])
        BY <1>3 DEF AnswerTo
      <4> QED
        BY <4>1, <4>2
    <3>2. \A a : Outdated(n, a)' <=> Outdated(n, a)
      BY <2>3 DEF Outdated
    <3>3. CASE back'[n] = back[n]
      BY <3>2, <3>3 DEF OldFrom
    <3>4. CASE back'[n] = Append(back[n], e)
      <4>1. e.answer = BlockGetAnswer(node[n]) /\ ~Outdated(n, e.answer)
        BY DEF Outdated
      <4> HIDE DEF e
      <4>2. back[n] \in Seq(Entries) /\ Len(back[n]) \in Nat
        BY <2>1
      <4>3. /\ Len(back'[n]) = Len(back[n]) + 1 /\ back'[n][Len(back[n]) + 1] = e
            /\ \A k \in 1 .. Len(back[n]) : back'[n][k] = back[n][k]
        BY <3>4, <4>2
      <4>4. \A k \in 1 .. Len(back[n]) + 1 : k \in 1 .. Len(back[n]) \/ k = Len(back[n]) + 1
        BY <4>2
      <4>5. \A k \in 1 .. Len(back[n]) : k \in 1 .. Len(back[n]) + 1
        BY <4>2
      <4> QED
        BY <3>2, <4>1, <4>3, <4>4, <4>5 DEF OldFrom
    <3> QED
      BY <3>1, <3>3, <3>4
  <2> QED
    BY <2>4, <2>5, <2>6
<1> QED
  BY <1>2, <1>3, LoopSame

\* A receiver is passed.
LEMMA EndPass ==
  ASSUME EndInv, EndInv', PassReceiver \/ PassApplied
  PROVE  Drop1
<1>1. /\ Ready /\ at <= Cnt /\ at' = at + 1 /\ at \in 1 .. Cnt /\ st \in Rounds /\ Cnt \in Nat \ {0} /\ GatewayTyped
      /\ UNCHANGED <<st, wait, block, missing, list, cmd, back, node, lost, faults>> /\ ~wait
  BY ListOnce DEF PassReceiver, PassApplied, InRound, EndInv, SafeInv, GatewayTyped, Ready, Rounds
<1>2. StepsToCome' < StepsToCome
  BY <1>1, StepsOf, StepsNext DEF RoundSteps
<1>3. Open' = Open /\ Old' = Old /\ Phase' = Phase
  BY <1>1, LoopUnchanged
<1>4. Spare' = Spare
  BY <1>1 DEF Spare
<1>5. ASSUME st = "apply" PROVE FirstApply' <=> FirstApply
  <2>1. NotApplied' = NotApplied
    BY <1>1 DEF NotApplied
  <2>2. list[at].applied \/ NotApplied > 1
    BY <1>5 DEF PassReceiver, PassApplied, InRound
  <2>3. \A i \in 1 .. Cnt : at' > i <=> at > i \/ i = at
    BY <1>1
  <2> QED
    BY <1>1, <2>1, <2>2, <2>3 DEF FirstApply
<1>6. Place' = Place
  BY <1>1, <1>5, PlaceSame
<1> QED
  BY <1>2, <1>3, <1>4, <1>6 DEF Drop1, Drop2, Drop3, Drop4, Drop5, Drop6

\* A receiver is asked.
LEMMA EndAsk ==
  ASSUME EndInv, EndInv', SendToReceiver \/ SendApply
  PROVE  Drop1
<1>1. /\ SafeInv /\ GatewayTyped /\ PlaceOK /\ CountsTyped /\ Cnt \in Nat \ {0}
      /\ at \in 1 .. Cnt /\ st \in Rounds /\ ~wait /\ wait' = TRUE /\ UNCHANGED <<st, at, block, missing, lost>>
      /\ Nodes[at] \in Node
  BY ListOnce DEF SendToReceiver, SendApply, InRound, Ready, EndInv, SafeInv, GatewayTyped, Rounds
<1>2. PICK op \in Ops : /\ Reliable(op, {Nodes[at]}, 0)
                        /\ IF st = "apply" THEN op \in {"apply", "cancel"} ELSE op = st /\ list' = list
                        /\ st = "blockStart" => block # NumBlocks
  <2>1. ASSUME SendToReceiver
        PROVE  st \in Ops /\ Reliable(st, {Nodes[at]}, 0) /\ st # "apply" /\ list' = list /\ ~(st = "blockStart" /\ block = NumBlocks)
    BY <1>1, <2>1 DEF SendToReceiver, InRound, Ops
  <2>2. ASSUME SendApply
        PROVE  st = "apply" /\ \E op \in {"apply", "cancel"} : Reliable(op, {Nodes[at]}, 0)
    <3>1. st = "apply" /\ Reliable(IF list[at].phase \in {"verified", "applying"} THEN "apply" ELSE "cancel", {Nodes[at]}, 0)
      BY <2>2 DEF SendApply
    <3> QED
      BY <3>1
  <2> QED
    BY <2>1, <2>2 DEF Ops
<1>3. \A i \in 1 .. Cnt : list'[i].skip = list[i].skip /\ (list[i].applied => list'[i].applied)
  BY <1>1, <1>2 DEF SendToReceiver, SendApply, GatewayTyped, Receivers
<1> DEFINE c == CommandOf(op, {Nodes[at]})
<1>4. c \in Commands /\ c.op = op /\ c.of = Current /\ Transmit(c, 0)
  <2>1. c \in Commands
    BY <1>1, CommandType
  <2> QED
    BY <1>2, <2>1 DEF CommandOf, Reliable
<1>5. c.op = "blockStart" => c.of[3] \in Blocks
  <2>1. op = "blockStart" => block \in Blocks
    BY <1>1, <1>2, Numbers DEF GatewayTyped
  <2> QED
    BY <1>4, <2>1 DEF Current
<1>6. InLoop => op = "blockGet"
  BY <1>1, <1>2 DEF InLoop, Rounds
<1> HIDE DEF c
<1>7. Open' = Open /\ Old' = Old /\ Phase' = Phase /\ faults' >= faults
  BY <1>1, <1>3, <1>4, <1>5, <1>6, AskedLoop
<1>8. StepsToCome' < StepsToCome
  BY <1>1, StepsOf, StepsNext DEF RoundSteps
<1>9. Place' < Place \/ Place' = Place
  <2>1. CASE st # "apply"
    BY <1>1, <2>1, PlaceSame
  <2>2. CASE st = "apply"
    <3>1. NotApplied \in Nat /\ NotApplied' \in Nat /\ NotApplied' <= NotApplied
      BY <1>3, AppliedGrows
    <3>2. FirstApply' => FirstApply
      BY <1>1, <1>3, <3>1 DEF FirstApply
    <3> QED
      BY <1>1, <2>2, <3>2, PlaceOf, PlaceNext DEF PlacesAre
  <2> QED
    BY <2>1, <2>2
<1>10. Spare' < Spare \/ Spare' = Spare
  <2>1. lost' >= lost
    BY <1>1, DistributionAssumption DEF CountsTyped
  <2> QED
    BY <1>7, <2>1, SpareFalls
<1> QED
  BY <1>7, <1>8, <1>9, <1>10 DEF Drop1, Drop2, Drop3, Drop4, Drop5, Drop6

\* A round ends; the loop goes on with a chunk to send, and only then with the same place.
LEMMA EndRounds ==
  ASSUME EndInv, EndInv', EndRound \/ CheckResult \/ LastBlock \/ EndApply, st' # "idle"
  PROVE  Drop1
<1>1. /\ GatewayTyped /\ PlaceOK /\ Ready /\ ApplyOrder
      /\ Cnt \in Nat \ {0} /\ NumBlocks \in Nat \ {0} /\ block \in 0 .. NumBlocks
      /\ UNCHANGED <<cmd, back, node, lost, faults>> /\ st # "idle"
  BY ListOnce, Numbers DEF EndInv, SafeInv, GatewayTyped, EndRound, CheckResult, LastBlock, EndApply, InRound, Ready
<1>2. Spare' = Spare
  BY <1>1 DEF Spare
<1>3. ASSUME Place' < Place PROVE Drop1
  BY <1>2, <1>3 DEF Drop1, Drop2
<1>4. CASE EndRound /\ st \notin {"blockStart", "blockGet"}
  <2>1. /\ at > Cnt /\ st' = After(st) /\ block' = block
        /\ st \in {"query", "updateStart", "transferGet", "transferStart", "updateGet"}
    BY <1>4 DEF EndRound, InRound, Rounds
  <2>2. \/ st = "query" /\ st' = "updateStart"
        \/ st = "updateStart" /\ st' = "transferGet"
        \/ st = "transferGet" /\ st' = "transferStart"
        \/ st = "transferStart" /\ st' = "blockStart" /\ block' = 0
        \/ st \in {"transferStart", "updateGet"} /\ st' = "cancel"
        \/ st = "updateGet" /\ st' = "apply"
    BY <1>1, <2>1 DEF After, PlaceOK
  <2>3. Place' < Place
    BY <1>1, <2>2, PlaceOf, PlaceNext DEF PlacesAre
  <2> QED
    BY <1>3, <2>3
<1>5. CASE EndRound /\ st = "blockStart"
  <2>1. st' = "checkResult" /\ block' = block
    BY <1>5 DEF EndRound
  <2>2. Place' < Place
    BY <1>1, <1>5, <2>1, PlaceOf, PlaceNext DEF PlacesAre
  <2> QED
    BY <1>3, <2>2
<1>6. CASE EndRound /\ st = "blockGet"
  <2>1. block \in 0 .. NumBlocks - 1
    BY <1>1, <1>6, Numbers DEF PlaceOK
  <2>2. CASE missing # {}
    <3>1. st' = "chunkStart" /\ UNCHANGED <<block, missing, list>>
      BY <1>6, <2>2 DEF EndRound
    <3>2. InLoop /\ InLoop'
      BY <1>6, <3>1 DEF InLoop
    <3>3. Place' = Place
      BY <3>1, <3>2, PlaceOf, PlaceNext DEF PlacesAre
    <3>4. Taking' = Taking /\ Pending' = Pending /\ Gaps' = Gaps /\ OldAnswers' = OldAnswers
      BY <1>1, <3>1 DEF Taking, Pending, Gaps, OldAnswers, OldFrom, Outdated, Places
    <3>5. Open' = Open /\ Old' = Old
      BY <3>2, <3>4 DEF Open, Old
    <3>6. WillShrink' <=> WillShrink
      BY <1>1, <3>1 DEF WillShrink, ToSend
    <3>7. Phase = (IF WillShrink THEN 2 ELSE 5) /\ Phase' = IF WillShrink THEN 1 ELSE 4
      BY <1>6, <2>2, <3>1, <3>6 DEF Phase
    <3>8. Phase' < Phase
      BY <3>7
    <3> QED
      BY <1>2, <3>3, <3>5, <3>8 DEF Drop1, Drop2, Drop3, Drop4, Drop5
  <2>3. CASE missing = {}
    <3>1. st' = "blockStart" /\ block' = block + 1
      BY <1>6, <2>3 DEF EndRound, NextBlock
    <3>2. Place' < Place
      BY <1>1, <1>6, <2>1, <3>1, PlaceOf, PlaceNext DEF PlacesAre, InLoop
    <3> QED
      BY <1>3, <3>2
  <2> QED
    BY <2>2, <2>3
<1>7. CASE CheckResult
  <2>1. st = "checkResult" /\ block \in 0 .. NumBlocks - 1
    BY <1>1, <1>7, Numbers DEF CheckResult, PlaceOK
  <2>2. (st' = "chunkStart" /\ block' = block) \/ (st' = "blockStart" /\ block' = block + 1)
    BY <1>7 DEF CheckResult, NextBlock
  <2>3. Place' < Place
    BY <1>1, <2>1, <2>2, PlaceOf, PlaceNext DEF PlacesAre, InLoop
  <2> QED
    BY <1>3, <2>3
<1>8. CASE LastBlock
  <2>1. st = "blockStart" /\ block = NumBlocks /\ st' = "updateGet"
    BY <1>8 DEF LastBlock
  <2>2. Place' < Place
    BY <1>1, <2>1, PlaceOf, PlaceNext DEF PlacesAre
  <2> QED
    BY <1>3, <2>2
<1>9. CASE EndApply
  <2>1. st = "apply" /\ at > Cnt /\ at' = 1 /\ list' = list /\ st' = IF NotApplied = 0 THEN "cancel" ELSE "apply"
    BY <1>9 DEF EndApply
  <2> DEFINE S == {i \in 1 .. Cnt : ~list[i].applied}
  <2>2. NotApplied = Cardinality(S) /\ NotApplied' = NotApplied /\ IsFiniteSet(S) /\ NotApplied \in Nat
    BY <2>1, Counts DEF NotApplied
  <2>3. CASE NotApplied = 0
    <3>1. Place' < Place
      BY <1>1, <2>1, <2>3, PlaceOf, PlaceNext DEF PlacesAre
    <3> QED
      BY <1>3, <3>1
  <2>4. CASE NotApplied # 0
    <3>1. PICK i \in 1 .. Cnt : ~list[i].applied
      BY <2>2, <2>4, FS_EmptySet
    <3>2. \A j \in 1 .. Cnt : at > j /\ ~(at' > j)
      BY <1>1, <2>1 DEF GatewayTyped
    <3>3. FirstApply
      BY <3>1, <3>2 DEF FirstApply
    <3>4. \A j \in 1 .. Cnt : list[j].applied \/ Nodes[j] = Connected
      BY <1>1, <2>1, <3>2 DEF ApplyOrder
    <3>5. S = {i}
      BY <3>1, <3>4, ListOnce
    <3>6. NotApplied' = 1
      BY <2>2, <3>5, FS_Singleton
    <3>7. ~FirstApply'
      BY <3>2, <3>6 DEF FirstApply
    <3>8. Place' < Place
      BY <1>1, <2>1, <2>4, <3>3, <3>7, PlaceOf, PlaceNext DEF PlacesAre
    <3> QED
      BY <1>3, <3>8
  <2> QED
    BY <2>3, <2>4
<1> QED
  BY <1>4, <1>5, <1>6, <1>7, <1>8, <1>9

\* A chunk goes out: it is lost for some node, it closes a gap, or no node of the block missed it.
LEMMA EndChunk ==
  ASSUME EndInv, EndInv', SendChunk
  PROVE  Drop1
<1>1. /\ GatewayTyped /\ CountsTyped /\ NodesOK /\ PlaceOK /\ Ready /\ st = "chunkStart" /\ block' = block /\ block \in Blocks
      /\ UNCHANGED <<list, back, faults>>
  BY DEF EndInv, SafeInv, SendChunk, PlaceOK
<1>2. PICK out \in SUBSET Node :
          /\ lost' = lost + Cardinality(out)
          /\ node' = [n \in Node |-> IF n \in out \/ NextChunk = {} THEN node[n]
                                    ELSE ChunkTransfer(node[n], block, CHOOSE c \in NextChunk : TRUE)]
  BY DEF SendChunk
<1>3. IsFiniteSet(out) /\ Cardinality(out) \in Nat /\ lost \in Nat /\ faults \in Nat
  BY <1>1, ListOnce, FS_Subset, FS_CardinalityType, DistributionAssumption DEF CountsTyped
<1>4. Spare' < Spare \/ (Spare' = Spare /\ lost' = lost)
  BY <1>1, <1>2, <1>3, SpareFalls
<1> SUFFICES ASSUME Spare' = Spare, lost' = lost PROVE Drop1
  BY <1>4 DEF Drop1
<1>5. out = {}
  <2>1. Cardinality(out) = 0
    BY <1>2, <1>3
  <2> QED
    BY <1>3, <2>1, FS_EmptySet
<1>6. /\ InLoop /\ InLoop' /\ st' \in {"chunkStart", "blockGet"}
      /\ IF ToSend = NextChunk THEN st' = "blockGet" /\ missing' = {} ELSE st' = st /\ missing' = missing \ NextChunk
  BY <1>1 DEF SendChunk, InLoop
<1>7. Place' = Place
  BY <1>1, <1>6, PlaceOf, PlaceNext DEF PlacesAre
<1>8. NextChunk \subseteq ToSend /\ ToSend \in SUBSET AllChunks /\ ToSend = missing \intersect Chunks(block)
      /\ (ToSend # {} => \E c \in ToSend : NextChunk = {c})
  BY <1>1, OneIsNext DEF NextChunk, ToSend, GatewayTyped
<1>9. \A n \in Node :
         /\ node'[n].miss \subseteq node[n].miss /\ node'[n].reboot = node[n].reboot
         /\ \/ node'[n] = node[n]
               /\ ~(node[n].tp = "waitChunk" /\ node[n].bcur = block /\ node[n].miss \intersect NextChunk # {})
            \/ NextChunk \subseteq node[n].miss /\ NextChunk # {} /\ node'[n].miss = node[n].miss \ NextChunk
  <2>1. CASE NextChunk = {}
    BY <1>2, <2>1
  <2>2. CASE NextChunk # {}
    <3>1. PICK c \in ToSend : NextChunk = {c}
      BY <1>8, <2>2
    <3>2. (CHOOSE d \in NextChunk : TRUE) = c /\ c \in Chunks(block)
      BY <1>8, <3>1
    <3>3. ASSUME NEW n \in Node
          PROVE  /\ node'[n].miss \subseteq node[n].miss /\ node'[n].reboot = node[n].reboot
                 /\ \/ node'[n] = node[n] /\ ~(node[n].tp = "waitChunk" /\ node[n].bcur = block /\ c \in node[n].miss)
                    \/ c \in node[n].miss /\ node'[n].miss = node[n].miss \ {c}
      <4>1. node'[n] = ChunkTransfer(node[n], block, c)
        BY <1>2, <1>5, <2>2, <3>2
      <4>2. node[n] \in NodeStates
        BY <1>1 DEF NodesOK
      <4> QED
        BY <1>1, <3>2, <4>1, <4>2, ChunkCloses
    <3> QED
      BY <3>1, <3>3
  <2> QED
    BY <2>1, <2>2
<1>10. Taking' = Taking /\ Pending' = Pending /\ Gaps' \subseteq Gaps
  BY <1>1, <1>9 DEF Taking, Pending, Gaps
<1>11. CASE \E n \in Node : node'[n] # node[n]
  <2>1. PICK n \in Node : NextChunk \subseteq node[n].miss /\ NextChunk # {} /\ node'[n].miss = node[n].miss \ NextChunk
    BY <1>9, <1>11
  <2>2. PICK c \in NextChunk : c \in node[n].miss /\ c \notin node'[n].miss /\ c \in AllChunks
    BY <1>8, <2>1
  <2>3. <<n, c>> \in Gaps /\ <<n, c>> \notin Gaps'
    BY <2>2 DEF Gaps
  <2>4. Cardinality(Gaps') < Cardinality(Gaps)
    <3>1. IsFiniteSet(Gaps) /\ Gaps' \in SUBSET Gaps /\ Gaps' # Gaps
      BY <1>10, <2>3, EndSets
    <3>2. IsFiniteSet(Gaps') /\ Cardinality(Gaps') <= Cardinality(Gaps) /\ Cardinality(Gaps) # Cardinality(Gaps')
      BY <3>1, FS_Subset
    <3> QED
      BY <3>1, <3>2, FS_CardinalityType
  <2>5. Cardinality(Gaps') \in Nat /\ Cardinality(Gaps) \in Nat /\ Cardinality(Taking) \in Nat /\ Cardinality(Pending) \in Nat
    <3>1. IsFiniteSet(Gaps')
      BY <1>10, EndSets, FS_Subset
    <3> QED
      BY <3>1, EndSets, FS_CardinalityType
  <2>6. Open' < Open
    <3>1. \A a, b, x, y \in Nat : x < y => a + b + x < a + b + y
      OBVIOUS
    <3> QED
      BY <1>6, <1>10, <2>4, <2>5, <3>1 DEF Open
  <2> QED
    BY <1>7, <2>6 DEF Drop1, Drop2, Drop3
<1>12. CASE \A n \in Node : node'[n] = node[n]
  <2>1. Gaps' = Gaps /\ OldAnswers' = OldAnswers
    BY <1>1, <1>12 DEF Gaps, OldAnswers, OldFrom, Outdated, Places
  <2>2. Open' = Open /\ Old' = Old
    BY <1>6, <1>10, <2>1 DEF Open, Old
  <2>3. \A n \in Node : ~(node[n].tp = "waitChunk" /\ node[n].bcur = block /\ node[n].miss \intersect NextChunk # {})
    BY <1>9, <1>12
  <2>4. CASE ToSend = NextChunk
    <3>1. st' = "blockGet" /\ missing' = {}
      BY <1>6, <2>4
    <3>2. ~WillShrink
      BY <2>3, <2>4 DEF WillShrink
    <3>3. ToSend' = {}
      BY <3>1 DEF ToSend
    <3>4. ~WillShrink'
      BY <3>3 DEF WillShrink
    <3>5. Phase = 4 /\ Phase' = 3
      BY <1>1, <3>1, <3>2, <3>4 DEF Phase
    <3>6. Phase' < Phase
      BY <3>5
    <3> QED
      BY <1>7, <2>2, <3>6 DEF Drop1, Drop2, Drop3, Drop4, Drop5
  <2>5. CASE ToSend # NextChunk
    <3>1. st' = st /\ missing' = missing \ NextChunk
      BY <1>6, <2>5
    <3>2. PICK c \in ToSend : NextChunk = {c}
      BY <1>8, <2>5
    <3>3. ToSend' = ToSend \ {c}
      BY <1>1, <3>1, <3>2 DEF ToSend
    <3>4. WillShrink' <=> WillShrink
      <4>1. \A n \in Node : node[n].tp = "waitChunk" /\ node[n].bcur = block
                              => (node[n].miss \intersect ToSend) = (node[n].miss \intersect ToSend')
        BY <2>3, <3>2, <3>3
      <4> QED
        BY <1>1, <1>12, <4>1 DEF WillShrink
    <3>5. Phase' = Phase
      BY <1>1, <3>1, <3>4 DEF Phase
    <3>6. StepsToCome = Cardinality(ToSend) /\ StepsToCome' = Cardinality(ToSend')
      BY <1>1, <3>1 DEF StepsToCome, Rounds
    <3>7. IsFiniteSet(ToSend) /\ Cardinality(ToSend) \in Nat
      BY <1>8, Counts
    <3>8. Cardinality(ToSend \ {c}) = Cardinality(ToSend) - 1
      BY <3>2, <3>7, FS_RemoveElement
    <3>9. StepsToCome' < StepsToCome
      BY <3>3, <3>6, <3>7, <3>8
    <3> QED
      BY <1>7, <2>2, <3>5, <3>9 DEF Drop1, Drop2, Drop3, Drop4, Drop5, Drop6
  <2> QED
    BY <2>4, <2>5
<1> QED
  BY <1>11, <1>12

\* Outside the loop its parts of the rank are 0.
LEMMA LoopOutside ==
  ASSUME ~InLoop, st' = st
  PROVE  Open' = Open /\ Old' = Old /\ Phase' = Phase
<1>1. ~InLoop'
  BY DEF InLoop
<1>2. Open = 0 /\ Open' = 0 /\ Old = 0 /\ Old' = 0
  BY <1>1 DEF Open, Old
<1>3. Phase = 0 /\ Phase' = 0
  BY DEF Phase, InLoop
<1> QED
  BY <1>2, <1>3

\* A set loses an element.
LEMMA Smaller ==
  ASSUME NEW S, IsFiniteSet(S), NEW T \in SUBSET S, NEW x \in S, x \notin T
  PROVE  Cardinality(T) < Cardinality(S)
<1>1. IsFiniteSet(T) /\ Cardinality(T) <= Cardinality(S) /\ Cardinality(T) # Cardinality(S)
  BY FS_Subset
<1> QED
  BY <1>1, FS_CardinalityType

\* In the loop a receiver is given up, or a node restarts: then less is open.
LEMMA OpenFalls ==
  ASSUME InLoop, st' = st, Taking' \subseteq Taking, Pending' \subseteq Pending, Gaps' \subseteq Gaps,
         Taking' # Taking \/ Pending' # Pending
  PROVE  Open' < Open
<1>1. \A S, T : IsFiniteSet(S) /\ T \subseteq S => /\ Cardinality(S) \in Nat /\ Cardinality(T) \in Nat
                                                  /\ Cardinality(T) <= Cardinality(S)
                                                  /\ (T # S => Cardinality(T) < Cardinality(S))
  BY FS_Subset, FS_CardinalityType
<1>2. /\ Cardinality(Taking) \in Nat /\ Cardinality(Pending) \in Nat /\ Cardinality(Gaps) \in Nat
      /\ Cardinality(Taking') \in Nat /\ Cardinality(Pending') \in Nat /\ Cardinality(Gaps') \in Nat
      /\ Cardinality(Taking') <= Cardinality(Taking) /\ Cardinality(Pending') <= Cardinality(Pending)
      /\ Cardinality(Gaps') <= Cardinality(Gaps)
      /\ Cardinality(Taking') < Cardinality(Taking) \/ Cardinality(Pending') < Cardinality(Pending)
  BY <1>1, EndSets
<1>3. \A a, b, c, x, y, z \in Nat : x <= a /\ y <= b /\ z <= c /\ (x < a \/ y < b) => x + y + z < a + b + c
  OBVIOUS
<1>4. Cardinality(Taking') + Cardinality(Pending') + Cardinality(Gaps') < Cardinality(Taking) + Cardinality(Pending) + Cardinality(Gaps)
  BY <1>2, <1>3
<1> QED
  BY <1>4 DEF Open, InLoop

\* The first of the answers of a node arrives: the outdated ones become fewer, if there is one.
LEMMA OldFalls ==
  ASSUME NodesOK, NEW n \in Node, back[n] # <<>>, back' = [back EXCEPT ![n] = Tail(@)], node' = node, InLoop, st' = st
  PROVE  /\ Answered' < Answered
         /\ Old' < Old \/ (Old' = Old /\ ~Outdated(n, Head(back[n]).answer))
<1>1. /\ back[n] \in Seq(Entries) /\ Len(back[n]) \in Nat \ {0} /\ Len(back[n]) <= MaxBack /\ MaxBack \in Nat
      /\ Head(back[n]) = back[n][1]
  BY DistributionAssumption DEF NodesOK
<1>2. /\ back'[n] = Tail(back[n]) /\ Len(back'[n]) = Len(back[n]) - 1
      /\ \A k \in 1 .. Len(back[n]) - 1 : back'[n][k] = back[n][k + 1]
      /\ \A m \in Node : m # n => back'[m] = back[m]
  BY <1>1 DEF NodesOK
<1>3. \A m, a : Outdated(m, a)' <=> Outdated(m, a)
  BY DEF Outdated
<1>4. UnderWay' \subseteq UnderWay /\ <<n, Len(back[n])>> \in UnderWay /\ <<n, Len(back[n])>> \notin UnderWay'
  <2>1. \A m \in Node : \A j \in 1 .. MaxBack : j <= Len(back'[m]) => j <= Len(back[m])
    BY <1>1, <1>2
  <2>2. Len(back[n]) \in 1 .. MaxBack /\ ~(Len(back[n]) <= Len(back'[n]))
    BY <1>1, <1>2
  <2> QED
    BY <2>1, <2>2 DEF UnderWay, Places
<1>5. Answered' < Answered
  BY <1>4, EndSets, Smaller DEF Answered
<1>6. \A m \in Node, j \in 1 .. MaxBack : m # n => (OldFrom(m, j)' <=> OldFrom(m, j))
  BY <1>2, <1>3 DEF OldFrom
<1>7. \A j \in 1 .. MaxBack : OldFrom(n, j)' <=> \E k \in 1 .. Len(back[n]) : j + 1 <= k /\ Outdated(n, back[n][k].answer)
  <2> SUFFICES ASSUME NEW j \in 1 .. MaxBack
               PROVE  OldFrom(n, j)' <=> \E k \in 1 .. Len(back[n]) : j + 1 <= k /\ Outdated(n, back[n][k].answer)
    OBVIOUS
  <2>1. OldFrom(n, j)' <=> \E k \in 1 .. Len(back[n]) - 1 : j <= k /\ Outdated(n, back[n][k + 1].answer)
    BY <1>1, <1>2, <1>3 DEF OldFrom
  <2>2. \A k \in 1 .. Len(back[n]) : j + 1 <= k => k - 1 \in 1 .. Len(back[n]) - 1 /\ j <= k - 1 /\ (k - 1) + 1 = k
    BY <1>1
  <2>3. \A k \in 1 .. Len(back[n]) - 1 : j <= k => k + 1 \in 1 .. Len(back[n]) /\ j + 1 <= k + 1
    BY <1>1
  <2> QED
    BY <2>1, <2>2, <2>3
<1>8. OldAnswers' \subseteq OldAnswers
  <2>1. \A j \in 1 .. MaxBack : OldFrom(n, j)' => OldFrom(n, j)
    <3>1. \A j \in 1 .. MaxBack, k \in 1 .. Len(back[n]) : j + 1 <= k => j <= k
      BY <1>1
    <3> QED
      BY <1>7, <3>1 DEF OldFrom
  <2> QED
    BY <1>6, <2>1 DEF OldAnswers, Places
<1>9. InLoop' /\ Old = Cardinality(OldAnswers) /\ Old' = Cardinality(OldAnswers')
  BY DEF InLoop, Old
<1> DEFINE Bad == {k \in 1 .. Len(back[n]) : Outdated(n, back[n][k].answer)}
<1>10. CASE Bad = {}
  <2>1. \A j \in 1 .. MaxBack : ~OldFrom(n, j) /\ ~OldFrom(n, j)'
    BY <1>7, <1>10 DEF OldFrom
  <2>2. OldAnswers' = OldAnswers
    BY <1>6, <2>1 DEF OldAnswers, Places
  <2>3. 1 \in 1 .. Len(back[n])
    BY <1>1
  <2> QED
    BY <1>1, <1>5, <1>9, <1>10, <2>2, <2>3
<1>11. CASE Bad # {}
  <2> DEFINE S == {Len(back[n]) - k : k \in Bad}
  <2>1. S \subseteq Nat /\ S # {}
    <3>1. \A k \in 1 .. Len(back[n]) : Len(back[n]) - k \in Nat
      BY <1>1
    <3> QED
      BY <1>11, <3>1
  <2>2. PICK m \in S : \A l \in S : <<l, m>> \notin OpToRel(<, Nat)
    BY <2>1, NatLessThanWellFounded, WFMin
  <2>3. PICK k \in Bad : m = Len(back[n]) - k
    BY <2>2
  <2>4. \A l \in Bad : ~(Len(back[n]) - l < Len(back[n]) - k)
    BY <2>1, <2>2, <2>3 DEF OpToRel
  <2>5. \A l \in Bad : l <= k
    BY <1>1, <2>3, <2>4
  <2>6. k \in 1 .. MaxBack /\ OldFrom(n, k)
    BY <1>1, <2>3 DEF OldFrom
  <2>7. ~OldFrom(n, k)'
    <3>1. \A l \in 1 .. Len(back[n]) : k + 1 <= l => ~Outdated(n, back[n][l].answer)
      <4>1. \A l \in 1 .. Len(back[n]) : k + 1 <= l => ~(l <= k)
        BY <1>1, <2>3
      <4> QED
        BY <2>5, <4>1
    <3> QED
      BY <1>7, <2>6, <3>1
  <2>8. <<n, k>> \in OldAnswers /\ <<n, k>> \notin OldAnswers'
    BY <2>6, <2>7 DEF OldAnswers, Places
  <2>9. Old' < Old
    BY <1>8, <1>9, <2>8, EndSets, Smaller
  <2> QED
    BY <1>5, <2>9
<1> QED
  BY <1>10, <1>11

\* The answer to a block get, if it is not outdated, tells of nothing new or of a chunk that will
\* close a gap: a receiver that misses chunks waits for them in the block of the gateway.
LEMMA MissedIsNew ==
  ASSUME SafeInv, WaitsForMissed, ~Astray, st = "blockGet", NEW i \in 1 .. Cnt, ~list[i].skip,
         NEW a, a.kind = "block", ~Outdated(Nodes[i], a), missing' = MissingWith(a), UNCHANGED <<node, block>>
  PROVE  missing' = missing \/ WillShrink'
<1> DEFINE r == node[Nodes[i]]
<1>1. GatewayTyped /\ NodesOK /\ block \in Blocks /\ Nodes[i] \in Node
  BY ListOnce DEF SafeInv, PlaceOK
<1>2. Chunks(block) \subseteq Nat /\ 0 \in Chunks(block)
  BY <1>1, Numbers
<1>3. a.miss = CASE r.miss = {} -> NoMissing
                 [] r.miss = Chunks(r.bcur) -> AllMissing
                 [] OTHER -> r.miss \intersect Chunks(r.bcur)
  BY DEF Outdated, BlockGetAnswer, BlockStatus, Answer
<1>4. r.miss # {} => r.tp = "waitChunk" /\ r.bcur = block
  BY <1>1 DEF WaitsForMissed, Astray
<1>5. AllMissing # NoMissing /\ \A x \in SUBSET Nat : x # AllMissing /\ x # NoMissing
  <2>1. -1 # -2 /\ -2 \notin Nat /\ -1 \notin Nat
    OBVIOUS
  <2>2. -1 \in AllMissing /\ -1 \notin NoMissing /\ -2 \in NoMissing
    BY <2>1 DEF AllMissing, NoMissing
  <2> QED
    BY <2>1, <2>2
<1>6. CASE r.miss = {}
  <2>1. r.bcur \in Blocks
    BY <1>1 DEF NodesOK, NodeStates
  <2>2. r.miss # Chunks(r.bcur)
    BY <1>6, <2>1, Numbers
  <2>3. a.miss = NoMissing
    BY <1>3, <1>6, <2>2
  <2> QED
    BY <2>3 DEF MissingWith
<1>7. CASE r.miss # {}
  <2>1. missing' = missing \/ (r.miss \intersect Chunks(block)) \subseteq missing'
    <3>1. CASE r.miss = Chunks(block)
      BY <1>3, <1>4, <1>5, <1>7, <3>1 DEF MissingWith
    <3>2. CASE r.miss # Chunks(block)
      <4>1. a.miss = r.miss \intersect Chunks(block) /\ a.miss \in SUBSET Nat
        BY <1>2, <1>3, <1>4, <1>7, <3>2
      <4> QED
        BY <1>5, <4>1 DEF MissingWith
    <3> QED
      BY <3>1, <3>2
  <2>2. CASE r.miss \intersect Chunks(block) = {}
    <3>1. r.miss # Chunks(block)
      BY <1>2, <2>2
    <3>2. a.miss = {}
      BY <1>3, <1>4, <1>7, <2>2, <3>1
    <3>3. a.miss # AllMissing /\ a.miss # NoMissing
      BY <1>5, <3>2
    <3> QED
      BY <3>2, <3>3 DEF MissingWith
  <2>3. CASE r.miss \intersect Chunks(block) # {} /\ (r.miss \intersect Chunks(block)) \subseteq missing'
    BY <1>1, <1>4, <1>7, <2>3 DEF WillShrink, ToSend
  <2> QED
    BY <2>1, <2>2, <2>3
<1> QED
  BY <1>6, <1>7

\* An answer arrives.
LEMMA EndAnswer ==
  ASSUME EndInv, EndInv', Unended, NEW n \in Node, RxAnswer(n)
  PROVE  Drop1
<1> DEFINE a == Head(back[n]).answer
           Kept == UNCHANGED <<missing, at, wait>> /\ \A i \in 1 .. Cnt : list'[i].skip = list[i].skip
           Took == /\ wait /\ wait' = FALSE /\ at \in 1 .. Cnt /\ at' = at + 1 /\ n = Nodes[at]
                   /\ a.kind = KindOf(st) /\ missing' = MissingWith(a)
                   /\ \A i \in 1 .. Cnt : i # at => list'[i].skip = list[i].skip
                   /\ IF a.ok THEN list'[at].skip = list[at].skip ELSE list'[at].skip <=> st # "apply"
<1>1. /\ SafeInv /\ GatewayTyped /\ CmdOK /\ NodesOK /\ WaitsForMissed /\ ~Astray /\ Cnt \in Nat \ {0}
  BY ListOnce DEF EndInv, SafeInv, Unended
<1>2. /\ UNCHANGED <<st, block, node, lost, faults>> /\ Tries' <= Tries
      /\ back[n] # <<>> /\ a \in Answers
      /\ back' = [back EXCEPT ![n] = Tail(@)]
      /\ \A i \in 1 .. Cnt : list'[i].applied = list[i].applied
      /\ Kept \/ Took
  BY <1>1, RxIs
<1> HIDE DEF a
<1>3. Spare' = Spare
  BY <1>2 DEF Spare
<1>4. wait => st \in Rounds /\ at \in 1 .. Cnt
  BY <1>1 DEF GatewayTyped
<1>5. Place' = Place
  <2>1. ASSUME st = "apply" PROVE FirstApply' <=> FirstApply
    <3>1. NotApplied' = NotApplied
      BY <1>2 DEF NotApplied
    <3>2. CASE Kept
      BY <1>2, <3>1, <3>2 DEF FirstApply
    <3>3. CASE Took
      <4>1. list[at].applied
        BY <1>1, <2>1, <3>3 DEF CmdOK
      <4>2. \A i \in 1 .. Cnt : at' > i <=> at > i \/ i = at
        BY <3>3
      <4> QED
        BY <1>2, <3>1, <4>1, <4>2 DEF FirstApply
    <3> QED
      BY <1>2, <3>2, <3>3
  <2> QED
    BY <1>1, <1>2, <2>1, PlaceSame
<1>6. Took => StepsToCome' < StepsToCome
  BY <1>1, <1>2, <1>4, StepsOf, StepsNext DEF RoundSteps
<1>7. Kept => StepsToCome' = StepsToCome
  BY <1>2 DEF StepsToCome, ToSend
<1>8. Answered' < Answered
  <2>1. back[n] \in Seq(Entries) /\ Len(back[n]) \in Nat \ {0} /\ Len(back[n]) <= MaxBack /\ MaxBack \in Nat
    BY <1>1, <1>2, DistributionAssumption DEF NodesOK
  <2>2. Len(back'[n]) = Len(back[n]) - 1 /\ \A m \in Node : m # n => back'[m] = back[m]
    BY <1>1, <1>2, <2>1 DEF NodesOK
  <2>3. \A m \in Node : \A j \in 1 .. MaxBack : j <= Len(back'[m]) => j <= Len(back[m])
    BY <2>1, <2>2
  <2>4. Len(back[n]) \in 1 .. MaxBack /\ ~(Len(back[n]) <= Len(back'[n]))
    BY <2>1, <2>2
  <2>5. UnderWay' \subseteq UnderWay /\ <<n, Len(back[n])>> \in UnderWay /\ <<n, Len(back[n])>> \notin UnderWay'
    BY <2>3, <2>4 DEF UnderWay, Places
  <2> QED
    BY <2>5, EndSets, Smaller DEF Answered
<1>9. Drop6
  <2>1. Tries' < Tries \/ Tries' = Tries
    <3>1. Tries \in Nat /\ Tries' \in Nat
      <4>1. EndRanges /\ EndRanges' /\ RetryMax + 1 \in Nat
        BY EndRankIn, EndRankInNext, DistributionAssumption
      <4> QED
        BY <4>1 DEF EndRanges
    <3> QED
      BY <1>2, <3>1
  <2>2. Drop7
    BY <1>8, <2>1 DEF Drop7
  <2> QED
    BY <1>2, <1>6, <1>7, <2>2 DEF Drop6
<1>10. CASE ~InLoop
  BY <1>2, <1>3, <1>5, <1>9, <1>10, LoopOutside DEF Drop1, Drop2, Drop3, Drop4, Drop5
<1>11. CASE InLoop
  <2>1. Pending' = Pending /\ Gaps' = Gaps
    BY <1>2 DEF Pending, Gaps
  <2>2. st = "blockGet" \/ ~wait
    BY <1>4, <1>11 DEF InLoop, Rounds
  <2>3. Took => st = "blockGet" /\ ~list[at].skip
    BY <1>1, <2>2 DEF CmdOK
  <2>4. CASE Took /\ ~a.ok
    <3>1. Taking' \subseteq Taking /\ at \in Taking /\ at \notin Taking'
      BY <2>3, <2>4 DEF Taking
    <3>2. Open' < Open
      BY <1>2, <1>11, <2>1, <3>1, OpenFalls
    <3> QED
      BY <1>3, <1>5, <3>2 DEF Drop1, Drop2, Drop3
  <2>5. CASE Kept \/ (Took /\ a.ok)
    <3>1. Taking' = Taking
      <4>1. \A i \in 1 .. Cnt : list'[i].skip = list[i].skip
        BY <2>5
      <4> QED
        BY <4>1 DEF Taking
    <3>2. Open' = Open
      BY <1>2, <2>1, <3>1 DEF Open, InLoop
    <3>3. Old' < Old \/ (Old' = Old /\ ~Outdated(n, a))
      BY <1>1, <1>2, <1>11, OldFalls DEF a
    <3>4. ASSUME ~Outdated(n, a) PROVE Drop5
      <4>1. CASE missing' = missing
        <5>1. WillShrink' <=> WillShrink
          BY <1>2, <4>1 DEF WillShrink, ToSend
        <5>2. Phase' = Phase
          BY <1>2, <4>1, <5>1 DEF Phase
        <5> QED
          BY <1>9, <5>2 DEF Drop5
      <4>2. CASE missing' # missing
        <5>1. Took /\ st = "blockGet" /\ ~list[at].skip
          BY <2>3, <2>5, <4>2
        <5>2. a.kind = "block"
          BY <5>1 DEF KindOf
        <5>3. WillShrink'
          BY <1>1, <1>2, <3>4, <4>2, <5>1, <5>2, MissedIsNew
        <5>4. Phase' = 2 /\ Phase \in {2, 3, 5}
          BY <1>2, <5>1, <5>3 DEF Phase
        <5>5. Phase' < Phase \/ Phase' = Phase
          BY <5>4
        <5> QED
          BY <1>9, <5>5 DEF Drop5
      <4> QED
        BY <4>1, <4>2
    <3> QED
      BY <1>3, <1>5, <3>2, <3>3, <3>4 DEF Drop1, Drop2, Drop3, Drop4
  <2> QED
    BY <1>2, <2>4, <2>5
<1> QED
  BY <1>10, <1>11

\* A command is repeated, or its receiver is given up.
LEMMA EndRetry ==
  ASSUME EndInv, EndInv', Retry
  PROVE  Drop1
<1>1. /\ SafeInv /\ GatewayTyped /\ CmdOK /\ NodesOK /\ PlaceOK /\ CountsTyped /\ Cnt \in Nat \ {0} /\ Blocks = 0 .. NumBlocks - 1
  BY ListOnce, Numbers DEF EndInv, SafeInv
<1>2. cmd # NoCmd /\ cmd \in Commands /\ UNCHANGED <<st, block, missing, lost>> /\ cmd.retry \in Nat
  BY <1>1, DistributionAssumption DEF Retry, NoCmd, CmdOK, Commands
<1>3. InLoop => cmd.op = "blockGet" /\ wait
  BY <1>1, <1>2 DEF CmdOK, InLoop, GatewayTyped, Rounds
<1>4. Tries = cmd.retry + 1
  BY <1>2 DEF Tries
<1>5. CASE cmd.retry > 0 /\ Transmit([cmd EXCEPT !.retry = @ - 1], IF Late THEN 1 ELSE 0) /\ UNCHANGED <<list, at, wait>>
  <2> DEFINE c == [cmd EXCEPT !.retry = @ - 1]
             late == IF Late THEN 1 ELSE 0
  <2>1. /\ c.op = cmd.op /\ c.of = cmd.of /\ c.retry = cmd.retry - 1 /\ c \in Commands
        /\ late \in {0, 1} /\ Transmit(c, late)
    <3>1. cmd.retry - 1 \in 0 .. RetryMax
      BY <1>2, <1>5, DistributionAssumption DEF Commands
    <3> QED
      BY <1>2, <1>5, <3>1 DEF Commands
  <2>2. c.op = "blockStart" => c.of[3] \in Blocks
    <3>1. ASSUME cmd.op = "blockStart" PROVE wait /\ st = "blockStart" /\ cmd.of = Current
      BY <1>1, <1>2, <3>1 DEF CmdOK
    <3>2. ASSUME cmd.op = "blockStart" PROVE block \in Blocks
      BY <1>1, <3>1, <3>2, Numbers DEF GatewayTyped, PlaceOK
    <3> QED
      BY <2>1, <3>1, <3>2 DEF Current
  <2> HIDE DEF c, late
  <2>3. Open' = Open /\ Old' = Old /\ Phase' = Phase /\ faults' >= faults
    BY <1>1, <1>2, <1>3, <1>5, <2>1, <2>2, AskedLoop
  <2>4. cmd' = [c EXCEPT !.acked = cmd'.acked] /\ cmd' \in Commands
    BY <1>1, <2>1, <2>2, TransmitOK DEF CountsTyped
  <2>5. cmd'.retry = cmd.retry - 1 /\ cmd' # NoCmd
    <3>1. cmd'.op \in Ops /\ cmd'.retry = c.retry
      BY <2>1, <2>4 DEF Commands, Ops
    <3> QED
      BY <2>1, <3>1 DEF NoCmd, Ops, Rounds
  <2>6. Tries' < Tries
    BY <1>2, <1>4, <1>5, <2>5 DEF Tries
  <2>7. StepsToCome' = StepsToCome
    BY <1>2, <1>5 DEF StepsToCome, ToSend
  <2>8. Place' = Place
    <3>1. NotApplied' = NotApplied
      BY <1>5 DEF NotApplied
    <3>2. FirstApply' <=> FirstApply
      BY <1>5, <3>1 DEF FirstApply
    <3> QED
      BY <1>1, <1>2, <3>2, PlaceSame
  <2>9. Spare' < Spare \/ Spare' = Spare
    <3>1. lost' >= lost
      BY <1>1, <1>2, DistributionAssumption DEF CountsTyped
    <3> QED
      BY <2>3, <3>1, SpareFalls
  <2> QED
    BY <2>3, <2>6, <2>7, <2>8, <2>9 DEF Drop1, Drop2, Drop3, Drop4, Drop5, Drop6, Drop7
<1>6. CASE cmd' = NoCmd /\ GiveUp /\ faults' = faults + (IF Late THEN 1 ELSE 0) /\ UNCHANGED <<node, back>>
  <2>1. Spare' < Spare \/ Spare' = Spare
    <3>1. lost' >= lost /\ faults' >= faults
      BY <1>1, <1>2, <1>6, DistributionAssumption DEF CountsTyped
    <3> QED
      BY <3>1, SpareFalls
  <2>2. Tries' < Tries
    BY <1>2, <1>4, <1>6 DEF Tries
  <2>3. CASE wait
    <3>1. at \in 1 .. Cnt /\ at' = at + 1 /\ wait' = FALSE /\ list' = [list EXCEPT ![at].skip = TRUE] /\ st \in Rounds
      BY <1>1, <1>6, <2>3 DEF GiveUp, GatewayTyped
    <3>2. /\ \A i \in 1 .. Cnt : list'[i].applied = list[i].applied /\ (list[i].skip => list'[i].skip)
          /\ list'[at].skip
      BY <1>1, <3>1 DEF GatewayTyped, Receivers
    <3>3. Place' = Place
      <4>1. ASSUME st = "apply" PROVE FirstApply' <=> FirstApply
        <5>1. NotApplied' = NotApplied
          BY <3>2 DEF NotApplied
        <5>2. list[at].applied
          BY <1>1, <2>3, <4>1 DEF CmdOK
        <5>3. \A i \in 1 .. Cnt : at' > i <=> at > i \/ i = at
          BY <3>1
        <5> QED
          BY <3>1, <3>2, <5>1, <5>2, <5>3 DEF FirstApply
      <4> QED
        BY <1>1, <1>2, <4>1, PlaceSame
    <3>4. StepsToCome' < StepsToCome
      BY <1>1, <1>2, <2>3, <3>1, StepsOf, StepsNext DEF RoundSteps
    <3>5. CASE InLoop
      <4>1. ~list[at].skip
        BY <1>1, <2>3, <3>5 DEF CmdOK, InLoop
      <4>2. Taking' \subseteq Taking /\ at \in Taking /\ at \notin Taking'
        BY <3>1, <3>2, <4>1 DEF Taking
      <4>3. Pending' = Pending /\ Gaps' = Gaps
        BY <1>6 DEF Pending, Gaps
      <4>4. Open' < Open
        BY <1>2, <3>5, <4>2, <4>3, OpenFalls
      <4> QED
        BY <2>1, <3>3, <4>4 DEF Drop1, Drop2, Drop3
    <3>6. CASE ~InLoop
      <4>1. Open' = Open /\ Old' = Old /\ Phase' = Phase
        BY <1>2, <3>6, LoopOutside
      <4> QED
        BY <2>1, <3>3, <3>4, <4>1 DEF Drop1, Drop2, Drop3, Drop4, Drop5, Drop6
    <3> QED
      BY <3>5, <3>6
  <2>4. CASE ~wait
    <3>1. UNCHANGED <<list, at, wait>>
      BY <1>6, <2>4 DEF GiveUp
    <3>2. Open' = Open /\ Old' = Old /\ Phase' = Phase
      BY <1>2, <1>6, <3>1, LoopUnchanged
    <3>3. StepsToCome' = StepsToCome
      BY <1>2, <3>1 DEF StepsToCome, ToSend
    <3>4. NotApplied' = NotApplied
      BY <3>1 DEF NotApplied
    <3>5. FirstApply' <=> FirstApply
      BY <3>1, <3>4 DEF FirstApply
    <3>6. Place' = Place
      BY <1>1, <1>2, <3>5, PlaceSame
    <3> QED
      BY <2>1, <2>2, <3>2, <3>3, <3>6 DEF Drop1, Drop2, Drop3, Drop4, Drop5, Drop6, Drop7
  <2> QED
    BY <2>3, <2>4
<1> QED
  BY <1>5, <1>6 DEF Retry

\* Without a segment acknowledgment the command ends.
LEMMA EndTimeout ==
  ASSUME EndInv, EndInv', SegmentTimeout
  PROVE  Drop1
<1>1. GatewayTyped /\ cmd # NoCmd /\ cmd \in Commands /\ cmd' = NoCmd
      /\ UNCHANGED <<st, at, wait, block, missing, list, back, node, lost, starts, faults, history>>
  BY DEF SegmentTimeout, NoCmd, EndInv, SafeInv, CmdOK
<1>2. Tries' < Tries
  <2>1. cmd.retry + 1 \in Nat \ {0}
    BY <1>1, DistributionAssumption DEF Commands
  <2>2. Tries' = 0 /\ Tries = cmd.retry + 1
    BY <1>1 DEF Tries
  <2> QED
    BY <2>1, <2>2
<1>3. Open' = Open /\ Old' = Old /\ Phase' = Phase
  BY <1>1, LoopUnchanged
<1>4. StepsToCome' = StepsToCome
  BY <1>1 DEF StepsToCome, ToSend
<1>5. Place' = Place
  <2>1. NotApplied' = NotApplied
    BY <1>1 DEF NotApplied
  <2>2. FirstApply' <=> FirstApply
    BY <1>1, <2>1 DEF FirstApply
  <2> QED
    BY <1>1, <2>2, PlaceSame
<1>6. Spare' = Spare
  BY <1>1 DEF Spare
<1> QED
  BY <1>2, <1>3, <1>4, <1>5, <1>6 DEF Drop1, Drop2, Drop3, Drop4, Drop5, Drop6, Drop7

\* A node loses its power: a fault.
LEMMA EndRestart ==
  ASSUME EndInv, EndInv', NEW n \in Node, Restart(n)
  PROVE  Drop1
<1>1. faults' = faults + 1 /\ lost' = lost /\ faults \in Nat /\ lost \in Nat
  BY DistributionAssumption DEF Restart, EndInv, SafeInv, CountsTyped
<1>2. faults' >= faults /\ lost' >= lost /\ faults' # faults
  BY <1>1
<1> QED
  BY <1>2, SpareFalls DEF Drop1

\* A step of the nodes alone changes nothing of the rank outside the loop.
LEMMA EndRankSame ==
  ASSUME EndInv, EndInv', UNCHANGED <<st, at, wait, block, missing, list, cmd, back, lost, faults>>,
         Open' = Open /\ Old' = Old /\ Phase' = Phase
  PROVE  EndRank' = EndRank
<1>1. GatewayTyped
  BY DEF EndInv, SafeInv
<1>2. StepsToCome' = StepsToCome
  BY DEF StepsToCome, ToSend
<1>3. Place' = Place
  <2>1. NotApplied' = NotApplied
    BY DEF NotApplied
  <2>2. FirstApply' <=> FirstApply
    BY <2>1 DEF FirstApply
  <2> QED
    BY <1>1, <2>2, PlaceSame
<1>4. Spare' = Spare /\ Tries' = Tries
  BY DEF Spare, Tries
<1>5. Answered' = Answered
  <2>1. UnderWay' = UnderWay
    BY DEF UnderWay, Places
  <2> QED
    BY <2>1 DEF Answered
<1>6. Rank2' = Rank2
  BY <1>3, <1>4 DEF Rank2, PlaceBound
<1>7. Rank3' = Rank3
  BY <1>6 DEF Rank3, OpenBound
<1>8. Rank4' = Rank4
  BY <1>7 DEF Rank4, BackBound, Places
<1>9. Rank5' = Rank5
  BY <1>8 DEF Rank5
<1>10. Rank6' = Rank6
  BY <1>2, <1>9 DEF Rank6, MaxSteps
<1>11. Rank7' = Rank7
  BY <1>4, <1>10 DEF Rank7
<1> QED
  BY <1>5, <1>11 DEF EndRank, BackBound, Places

\* A node restarts: in the loop that closes its gaps for good.
LEMMA EndReboot ==
  ASSUME EndInv, EndInv', NEW n \in Node, Reboot(n)
  PROVE  EndRank' < EndRank \/ EndRank' = EndRank
<1>1. /\ node[n].reboot # "none" /\ node' = [node EXCEPT ![n] = Nodes0] /\ NodesOK /\ GatewayTyped
      /\ UNCHANGED <<st, at, wait, block, missing, list, cmd, back, lost, faults>>
  BY DEF Reboot, Restarted, EndInv, SafeInv
<1>2. CASE ~InLoop
  BY <1>1, <1>2, LoopOutside, EndRankSame
<1>3. CASE InLoop
  <2>1. node'[n].reboot = "none" /\ node'[n].miss = {} /\ \A m \in Node : m # n => node'[m] = node[m]
    BY <1>1 DEF NodesOK, Nodes0
  <2>2. Taking' = Taking
    BY <1>1 DEF Taking
  <2>3. Pending' \subseteq Pending /\ n \in Pending /\ n \notin Pending'
    BY <1>1, <2>1 DEF Pending
  <2>4. Gaps' \subseteq Gaps
    BY <2>1 DEF Gaps
  <2>5. Open' < Open
    <3>1. Pending' # Pending
      BY <2>3
    <3> QED
      BY <1>1, <1>3, <2>2, <2>3, <2>4, <3>1, OpenFalls
  <2>6. Spare' = Spare
    BY <1>1 DEF Spare
  <2>7. Place' = Place
    <3>1. st # "apply"
      BY <1>3 DEF InLoop
    <3> QED
      BY <1>1, <3>1, PlaceSame
  <2>8. Drop1
    BY <2>5, <2>6, <2>7 DEF Drop1, Drop2, Drop3
  <2> QED
    BY <2>8, EndRankFalls
<1> QED
  BY <1>2, <1>3

\* A distribution that goes on has a lower rank after each step, unless the step is the restart of a node
\* after an apply or a cancel, and leaves what the gateway does next as it was.
LEMMA EndAdvances ==
  ASSUME EndInv, EndInv', [Next]_vars, Unended, st' # "idle"
  PROVE  \/ EndRank' < EndRank
         \/ /\ EndRank' = EndRank /\ ~Proc /\ ~Arrives /\ ~Retry /\ ~SegmentTimeout
            /\ UNCHANGED <<st, wait, cmd, back>>
<1>1. st # "idle" /\ NodesOK
  BY DEF Unended, EndInv, SafeInv
<1>2. CASE Proc
  <2>1. ~Report
    BY DEF Report, Cleaned
  <2>2. Drop1
    BY <1>2, <2>1, EndPass, EndAsk, EndRounds, EndChunk DEF Proc
  <2> QED
    BY <2>2, EndRankFalls
<1>3. CASE Arrives
  <2>1. Drop1
    BY <1>3, EndAnswer DEF Arrives
  <2> QED
    BY <2>1, EndRankFalls
<1>4. CASE Retry \/ SegmentTimeout
  <2>1. Drop1
    BY <1>4, EndRetry, EndTimeout
  <2> QED
    BY <2>1, EndRankFalls
<1>5. CASE AppStart \/ AppCancel
  BY <1>1, <1>5 DEF AppStart, AppCancel, Cleaned
<1>6. CASE \E n \in Node : Restart(n)
  <2>1. Drop1
    BY <1>6, EndRestart
  <2> QED
    BY <2>1, EndRankFalls
<1>7. CASE (\E n \in Node : Reboot(n)) /\ ~Proc /\ ~Arrives /\ ~Retry /\ ~SegmentTimeout
  <2>1. UNCHANGED <<st, wait, cmd, back>>
    BY <1>7 DEF Reboot
  <2>2. EndRank' < EndRank \/ EndRank' = EndRank
    BY <1>7, EndReboot
  <2> QED
    BY <1>7, <2>1, <2>2
<1>8. CASE UNCHANGED vars /\ ~Proc /\ ~Arrives /\ ~Retry /\ ~SegmentTimeout
  <2>1. UNCHANGED <<st, at, wait, block, missing, list, cmd, back, node, lost, faults>>
    BY <1>8 DEF vars
  <2>2. EndRank' = EndRank
    BY <2>1, LoopUnchanged, EndRankSame
  <2> QED
    BY <1>8, <2>1, <2>2
<1> QED
  BY <1>2, <1>3, <1>4, <1>5, <1>6, <1>7, <1>8 DEF Next, Arrives

\* The invariant is kept.
LEMMA EndStep == EndInv /\ [Next]_vars => EndInv'
BY SafeStep, WaitsStep, ApplyOrderStep DEF EndInv

\* A sum of this kind is below the product with a larger number.
LEMMA StaysBelow ==
  ASSUME NEW b \in Nat, NEW x \in Nat, NEW h \in Nat, x < h, NEW p \in 0 .. b - 1
  PROVE  b * h \in Nat /\ b * x + p < b * h
<1>1. 0 \in 0 .. b - 1
  OBVIOUS
<1>2. b * x + p < b * h + 0
  BY <1>1, Lexical
<1>3. b * h \in Nat
  OBVIOUS
<1> QED
  BY <1>2, <1>3

\* Numbers above every rank.
Most2 == PlaceBound * (MaxFaults + MaxLoss + 1)
Most3 == OpenBound * Most2
Most4 == BackBound * Most3
Most5 == 6 * Most4
Most6 == MaxSteps * Most5
Most7 == (RetryMax + 2) * Most6
EndHighest == BackBound * Most7

\* They are.
LEMMA EndRankBelow == EndInv => EndRank < EndHighest /\ EndHighest \in Nat
<1> SUFFICES ASSUME EndInv PROVE EndRank < EndHighest /\ EndHighest \in Nat
  OBVIOUS
<1>1. EndRanges
  BY EndRankIn
<1>2. /\ PlaceBound \in Nat /\ OpenBound \in Nat /\ BackBound \in Nat /\ MaxSteps \in Nat
      /\ RetryMax + 2 \in Nat /\ RetryMax + 1 = (RetryMax + 2) - 1
  BY EndBounds, DistributionAssumption
<1>3. MaxFaults + MaxLoss + 1 \in Nat /\ Spare \in Nat /\ Spare < MaxFaults + MaxLoss + 1
  <2>1. MaxFaults \in Nat /\ MaxLoss \in Nat /\ faults \in 0 .. MaxFaults /\ lost \in 0 .. MaxLoss
    BY EndBounds DEF EndInv, SafeInv, CountsTyped
  <2>2. \A m, l \in Nat : \A f \in 0 .. m, x \in 0 .. l : (m - f) + (l - x) \in Nat /\ (m - f) + (l - x) < m + l + 1
    OBVIOUS
  <2> QED
    BY <2>1, <2>2 DEF Spare
<1>4. /\ Place \in 0 .. PlaceBound - 1 /\ Open \in 0 .. OpenBound - 1 /\ Old \in 0 .. BackBound - 1
      /\ StepsToCome \in 0 .. MaxSteps - 1 /\ Tries \in 0 .. (RetryMax + 2) - 1 /\ Answered \in 0 .. BackBound - 1
      /\ Phase \in 0 .. 6 - 1
      /\ Rank2 \in Nat /\ Rank3 \in Nat /\ Rank4 \in Nat /\ Rank5 \in Nat /\ Rank6 \in Nat /\ Rank7 \in Nat
  BY <1>1, <1>2 DEF EndRanges
<1>5. Most2 \in Nat /\ Rank2 < Most2
  BY <1>2, <1>3, <1>4, StaysBelow DEF Rank2, Most2
<1>6. Most3 \in Nat /\ Rank3 < Most3
  BY <1>2, <1>4, <1>5, StaysBelow DEF Rank3, Most3
<1>7. Most4 \in Nat /\ Rank4 < Most4
  BY <1>2, <1>4, <1>6, StaysBelow DEF Rank4, Most4
<1>8. Most5 \in Nat /\ Rank5 < Most5
  BY <1>4, <1>7, StaysBelow DEF Rank5, Most5
<1>9. Most6 \in Nat /\ Rank6 < Most6
  BY <1>2, <1>4, <1>8, StaysBelow DEF Rank6, Most6
<1>10. Most7 \in Nat /\ Rank7 < Most7
  BY <1>2, <1>4, <1>9, StaysBelow DEF Rank7, Most7
<1> QED
  BY <1>2, <1>4, <1>10, StaysBelow DEF EndRank, EndHighest

EndFairly == FairSpec /\ []GuardsSuffice

\* What happens next: an answer arrives, the gateway goes on, the command ends without a segment
\* acknowledgment, or the timer of the command fires.  One of them can, and nothing else takes that away.
LEMMA EndDescends ==
  ASSUME NEW k \in Nat
  PROVE  EndFairly => ((Unended /\ EndRank = k) ~> (~Unended \/ (Unended /\ EndRank < k)))
<1> DEFINE Empty == \A n \in Node : back[n] = <<>>
           A == Unended /\ EndRank = k /\ \E n \in Node : back[n] # <<>>
           B == Unended /\ EndRank = k /\ Empty /\ Ready
           C == Unended /\ EndRank = k /\ cmd.op # "none" /\ ~cmd.acked
           D == Unended /\ EndRank = k /\ Empty /\ cmd.op # "none" /\ cmd.acked
           Q == ~Unended \/ (Unended /\ EndRank < k)
<1>1. EndInv /\ [Next]_vars /\ Unended /\ EndRank = k
        => \/ Q'
           \/ /\ Unended' /\ EndRank' = k /\ ~Proc /\ ~Arrives /\ ~Retry /\ ~SegmentTimeout
              /\ UNCHANGED <<st, wait, cmd, back>>
  <2> SUFFICES ASSUME EndInv, [Next]_vars, Unended, EndRank = k, ~Q'
               PROVE  /\ Unended' /\ EndRank' = k /\ ~Proc /\ ~Arrives /\ ~Retry /\ ~SegmentTimeout
                      /\ UNCHANGED <<st, wait, cmd, back>>
    OBVIOUS
  <2>1. EndInv'
    BY EndStep
  <2>2. Unended' /\ ~(EndRank' < k)
    OBVIOUS
  <2>3. st' # "idle"
    BY <2>2 DEF Unended
  <2> QED
    BY <2>1, <2>2, <2>3, EndAdvances
<1>2. EndInv /\ A /\ [Next]_vars => A' \/ Q'
  BY <1>1
<1>3. EndInv /\ B /\ [Next]_vars => B' \/ Q'
  <2>1. UNCHANGED <<st, wait, cmd, back>> => (Empty' <=> Empty) /\ (Ready' <=> Ready)
    BY DEF Ready
  <2> QED
    BY <1>1, <2>1
<1>4. EndInv /\ C /\ [Next]_vars => C' \/ Q'
  BY <1>1
<1>5. EndInv /\ D /\ [Next]_vars => D' \/ Q'
  BY <1>1
<1>6. EndInv /\ A /\ <<Arrives>>_vars => Q'
  BY <1>1 DEF Next, Arrives
<1>7. EndInv /\ B /\ <<Proc>>_vars => Q'
  BY <1>1 DEF Next
<1>8. EndInv /\ C /\ <<SegmentTimeout>>_vars => Q'
  BY <1>1 DEF Next
<1>9. EndInv /\ D /\ <<Retry>>_vars => Q'
  BY <1>1 DEF Next
<1>10. GuardsSuffice /\ A => ENABLED <<Arrives>>_vars
  BY DEF GuardsSuffice
<1>11. GuardsSuffice /\ B => ENABLED <<Proc>>_vars
  BY DEF GuardsSuffice
<1>12. GuardsSuffice /\ C => ENABLED <<SegmentTimeout>>_vars
  BY DEF GuardsSuffice
<1>13. GuardsSuffice /\ D => ENABLED <<Retry>>_vars
  BY DEF GuardsSuffice
<1>14. EndInv /\ Unended /\ EndRank = k => A \/ B \/ C \/ D
  <2> SUFFICES ASSUME EndInv, Unended, EndRank = k, Empty, ~Ready
               PROVE  cmd.op # "none"
    BY DEF CmdOK, EndInv, SafeInv, GatewayTyped
  <2>1. GatewayTyped /\ CmdOK
    BY DEF EndInv, SafeInv
  <2>2. cmd # NoCmd
    <3> SUFFICES ASSUME cmd = NoCmd PROVE FALSE
      OBVIOUS
    <3>1. wait
      BY DEF Ready, Unended
    <3>2. Segmented(st) /\ Nodes[at] \in Node
      BY <2>1, <3>1, ListOnce DEF CmdOK, GatewayTyped
    <3> QED
      BY <3>1, <3>2 DEF Hung, Unended
  <2> QED
    BY <2>1, <2>2 DEF CmdOK, Commands, Ops, Rounds
<1>15. EndFairly => []EndInv
  BY EndInvariant, PTL DEF EndFairly, FairSpec
<1> HIDE DEF A, B, C, D, Q
<1>16. EndFairly => ((Unended /\ EndRank = k) ~> Q)
  BY <1>2, <1>3, <1>4, <1>5, <1>6, <1>7, <1>8, <1>9, <1>10, <1>11, <1>12, <1>13, <1>14, <1>15, PTL
     DEF EndFairly, FairSpec, Spec
<1> QED
  BY <1>16 DEF Q

EndLeaves(k) == (Unended /\ EndRank < k) ~> ~Unended

\* DistributionEnds, for any image, list of receivers, and number of faults, lost chunks and answers under
\* way: whatever is lost, repeated, late or restarted, a distribution comes to its end, unless the gateway
\* waits for the answer to a segmented command of which no segment was acknowledged, or goes on sending
\* chunks for a receiver that was left behind in another block.
THEOREM DistributionsEnd == FairSpec /\ []GuardsSuffice => DistributionEnds
<1>1. EndFairly => []EndInv
  BY EndInvariant, PTL DEF EndFairly, FairSpec
<1>2. EndInv => ~(EndRank < 0) /\ EndRank < EndHighest
  BY EndRankIn, EndRankBelow DEF EndRanges
<1>3. EndFairly => EndLeaves(0)
  BY <1>1, <1>2, PTL DEF EndLeaves
<1>4. ASSUME NEW k \in Nat
      PROVE  EndFairly /\ EndLeaves(k) => EndLeaves(k + 1)
  <2>1. EndFairly => ((Unended /\ EndRank = k) ~> (~Unended \/ (Unended /\ EndRank < k)))
    BY EndDescends
  <2>2. EndInv /\ EndRank < k + 1 => EndRank = k \/ EndRank < k
    BY EndRankIn DEF EndRanges
  <2> QED
    BY <1>1, <2>1, <2>2, PTL DEF EndLeaves
<1>5. EndFairly => EndLeaves(EndHighest)
  <2> SUFFICES ASSUME EndFairly PROVE EndLeaves(EndHighest)
    OBVIOUS
  <2>1. PICK F : Named(F) /\ \A k \in Nat : F[k] = 1 <=> EndLeaves(k)
    <3>1. Named([k \in Nat |-> IF EndLeaves(k) THEN 1 ELSE 0])
      BY DEF Named
    <3> QED
      BY <3>1
  <2>2. F[0] = 1
    BY <1>3, <2>1
  <2>3. \A k \in Nat : F[k] = 1 => F[k + 1] = 1
    BY <1>4, <2>1
  <2>4. \A k \in Nat : F[k] = 1
    BY <2>2, <2>3, Induction
  <2>5. EndHighest \in Nat
    <3>1. /\ PlaceBound \in Nat /\ OpenBound \in Nat /\ BackBound \in Nat /\ MaxSteps \in Nat /\ RetryMax + 2 \in Nat
          /\ MaxFaults + MaxLoss + 1 \in Nat
      BY EndBounds
    <3>2. \A a, b \in Nat : a * b \in Nat
      OBVIOUS
    <3> QED
      BY <3>1, <3>2 DEF EndHighest, Most2, Most3, Most4, Most5, Most6, Most7
  <2> QED
    BY <2>1, <2>4, <2>5
<1>6. EndFairly => (Unended ~> ~Unended)
  BY <1>1, <1>2, <1>5, PTL DEF EndLeaves
<1>7. st # "idle" => Unended \/ (st = "idle" \/ Hung \/ Astray)
  BY DEF Unended
<1>8. ~Unended => st = "idle" \/ Hung \/ Astray
  BY DEF Unended
<1>9. EndFairly => ((st # "idle") ~> (st = "idle" \/ Hung \/ Astray))
  BY <1>6, <1>7, <1>8, PTL
<1> QED
  BY <1>9 DEF EndFairly, DistributionEnds

=============================================================================
