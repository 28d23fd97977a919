----------------------------- MODULE ReplayList -----------------------------
(***************************************************************************)
(* The replay protection list of a node (mesh_network_layer.c): for each   *)
(* source the IV index and the number of the last PDU taken.  A PDU carries*)
(* one bit of its IV index; the node takes its own index or the one before.*)
(* The same list filters PDUs in the receive interrupt, before they are    *)
(* queued, and in the main loop, once they are decrypted.                  *)
(* IV updates are those of NodeIv: a node accepts index cur and sends with *)
(* cur or, in the first step of an update, with cur - 1.  The build is the *)
(* one of a mains node, without the friend credentials of a low power node.*)
(***************************************************************************)
EXTENDS Integers, Sequences, FiniteSets, Functions

CONSTANTS Sources,   \* addresses of the nodes heard
          Capacity,  \* CACHE_BUF_MAX
          IviMod,    \* 256: the list keeps the index in one byte
          FifoSize,  \* PDUs between the interrupt and the main loop
          FirstStage, MaxStage,  \* bound: half steps of IV updates
          MaxNumber, \* bound: numbers a source uses under one index
          MaxResets  \* bound: restarts of the node

ASSUME ReplayListAssumption ==
    /\ Capacity \in Nat /\ IviMod \in Nat /\ IviMod > 2 /\ FifoSize \in Nat
    /\ FirstStage \in Nat \ {0, 1} /\ MaxStage \in Nat /\ FirstStage <= MaxStage
    /\ MaxNumber \in Nat /\ MaxResets \in Nat

VARIABLES
    stage,    \* the node's progress: 2c with index c, 2c + 1 in step 1 towards c + 1
    stages,   \* the same of each source
    sno,      \* the last number each source has used under its present index
    air,      \* PDUs sent, which can be heard again at any time (relays)
    list,     \* cache_buf: a partial function from sources to entries
    fifo,     \* PDUs that passed the filter of the interrupt
    resets,   \* restarts, for the bound
    last,     \* history: the last PDU accepted from each source since the start
    wrong     \* history: what went wrong: an old PDU accepted, a fresh one refused

listVars == <<stage, stages, sno, air, list, fifo, resets, last, wrong>>

\* iv_cur and iv_tx of a node at a stage
Cur(k) == (k + 1) \div 2
Tx(k) == k \div 2

Pdus == [src : Sources, iv : Nat, sno : Nat]
EmptyFcn == [s \in {} |-> 0]
Older(p, q) == p.iv < q.iv \/ (p.iv = q.iv /\ p.sno < q.sno)

\* mesh_set_iv_idx_rx: the index, of cur and cur - 1, with the bit of the PDU
IvRx(p) == IF p.iv % 2 = Cur(stage) % 2 THEN Cur(stage) ELSE Cur(stage) - 1

\* the index is part of the nonce: another one gives a wrong MIC
Decrypts(p) == IvRx(p) = p.iv

Listed(s) == s \in DOMAIN list

-----------------------------------------------------------------------------
(* is_exist_in_cache *)

SameIndex(p) == IvRx(p) % IviMod = list[p.src].ivi

\* variant: the number is compared whatever the index
BugIsOld(p) == Listed(p.src) /\ p.sno <= list[p.src].sno

\* with save = 0, and the common part of save = 1
IsOld(p) == Listed(p.src) /\ SameIndex(p) /\ p.sno <= list[p.src].sno

\* variant: an older index is not refused
BugIsOldIndex(p) == FALSE

\* save = 1: an index that differs from the entry's and is not the present one is
\* taken for an older one ("means ivi of cache is new, iv rx is old")
IsOldIndex(p) == Listed(p.src) /\ ~SameIndex(p) /\ IvRx(p) # Cur(stage)

Exists(p) == IsOld(p) \/ IsOldIndex(p)

\* mesh_update_rpl, or mesh_add_rpl (binary library) for a source not in the list:
\* a full list keeps no entry of it.
Update(p) ==
    IF Listed(p.src) \/ Cardinality(DOMAIN list) < Capacity
    THEN [s \in DOMAIN list \union {p.src} |->
             IF s = p.src THEN [ivi |-> IvRx(p) % IviMod, sno |-> p.sno] ELSE list[s]]
    ELSE list

-----------------------------------------------------------------------------
ListInit ==
    /\ stage = FirstStage
    /\ stages = [s \in Sources |-> FirstStage]
    /\ sno = [s \in Sources |-> 0]
    /\ air = {}
    /\ list = EmptyFcn
    /\ fifo = <<>>
    /\ resets = 0
    /\ last = EmptyFcn
    /\ wrong = {}

\* A source sends a PDU; NodeIv: with a number it has not used under this index.
Send(s) ==
    /\ sno[s] < MaxNumber
    /\ sno' = [sno EXCEPT ![s] = @ + 1]
    /\ air' = air \union {[src |-> s, iv |-> Tx(stages[s]), sno |-> sno[s] + 1]}
    /\ UNCHANGED <<stage, stages, list, fifo, resets, last, wrong>>

\* A step of an IV update.  Each step lasts 96 hours, so the nodes that hear each
\* other are at most one step apart.
SourceSteps(s) ==
    /\ stages[s] < MaxStage
    /\ \A k \in {stage} \union {stages[t] : t \in Sources} : stages[s] <= k
    /\ stages' = [stages EXCEPT ![s] = @ + 1]
    /\ sno' = [sno EXCEPT ![s] = IF Tx(stages[s] + 1) # Tx(stages[s]) THEN 0 ELSE @]
    /\ UNCHANGED <<stage, air, list, fifo, resets, last, wrong>>

NodeSteps ==
    /\ stage < MaxStage
    /\ \A s \in Sources : stage <= stages[s]
    /\ stage' = stage + 1
    /\ UNCHANGED <<stages, sno, air, list, fifo, resets, last, wrong>>

Fresh(p) == p.src \in DOMAIN last => Older(last[p.src], p)

\* history: a PDU that could be decrypted and is newer than all accepted is refused
Refused(p) ==
    wrong' = IF Decrypts(p) /\ Fresh(p)
             THEN wrong \union {IF last[p.src].iv < Cur(stage) - 1 THEN "behind" ELSE "fresh"}
             ELSE wrong

\* A PDU is heard, for the first time or again: irq_mesh_sec_msg_check_cache.
Hear(p) ==
    /\ \/ IsOld(p) /\ Refused(p) /\ UNCHANGED fifo
       \/ ~IsOld(p) /\ Len(fifo) < FifoSize /\ fifo' = Append(fifo, p) /\ UNCHANGED wrong
    /\ UNCHANGED <<stage, stages, sno, air, list, resets, last>>

\* The main loop takes a PDU from the fifo and decrypts it.
Refuse(p) ==
    /\ ~Decrypts(p) \/ Exists(p)
    /\ Refused(p)
    /\ UNCHANGED <<list, last>>

Accept(p) ==
    /\ Decrypts(p)
    /\ ~Exists(p)
    /\ list' = Update(p)
    /\ last' = [s \in DOMAIN last \union {p.src} |-> IF s = p.src THEN p ELSE last[s]]
    /\ wrong' = IF Listed(p.src) /\ ~Fresh(p) THEN wrong \union {"replay"} ELSE wrong

Process ==
    /\ fifo # <<>>
    /\ Refuse(Head(fifo)) \/ Accept(Head(fifo))
    /\ fifo' = Tail(fifo)
    /\ UNCHANGED <<stage, stages, sno, air, resets>>

\* mesh_node_init: cache_init(ADR_ALL_NODES)
Reset ==
    /\ resets < MaxResets
    /\ resets' = resets + 1
    /\ list' = EmptyFcn
    /\ fifo' = <<>>
    /\ last' = EmptyFcn
    /\ UNCHANGED <<stage, stages, sno, air, wrong>>

ListNext ==
    \/ \E s \in Sources : Send(s) \/ SourceSteps(s)
    \/ NodeSteps
    \/ \E p \in air : Hear(p)
    \/ Process
    \/ Reset

ListSpec == ListInit /\ [][ListNext]_listVars

-----------------------------------------------------------------------------
\* Each variable has its type.
ListTypeOK ==
    /\ stage \in 0 .. MaxStage
    /\ stages \in [Sources -> 0 .. MaxStage]
    /\ sno \in [Sources -> 0 .. MaxNumber]
    /\ air \subseteq Pdus
    /\ DOMAIN list \subseteq Sources /\ Cardinality(DOMAIN list) <= Capacity
    /\ \A s \in DOMAIN list : list[s] \in [ivi : 0 .. IviMod - 1, sno : 0 .. MaxNumber]
    /\ fifo \in Seq(air) /\ Len(fifo) <= FifoSize
    /\ resets \in 0 .. MaxResets
    /\ DOMAIN last \subseteq Sources /\ Range(last) \subseteq air
    /\ wrong \subseteq {"replay", "behind", "fresh"}

\* No PDU of a source in the list is accepted twice, nor an older one after a newer
\* one, in one session of the node: through the delay between interrupt and main
\* loop and through updates of the IV index, with one bit of it in the PDU.
AcceptedInOrder == "replay" \notin wrong

\* A PDU newer than all that were accepted from its source is not taken for a replay,
\* unless the source was not heard during a whole index.
FreshAccepted == "fresh" \notin wrong

\* ... without the restriction: an entry that differs from the index of the PDU is newer
\* ("this case happen means ivi of cache is new, iv rx is old").
FreshAlwaysAccepted == wrong \subseteq {"replay"}
=============================================================================
