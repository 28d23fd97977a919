-------------------------- MODULE NodeNumbersProofs ---------------------------
(***************************************************************************)
(* Proofs about the numbers of network PDUs in a node, as it sends and as  *)
(* it receives them. NodeIv: for any save distance, thresholds and times a *)
(* nonce is not used twice, whenever the power goes; the IV index sent     *)
(* with never goes back, a restart resumes with it, and a node that is not *)
(* in search mode has kept it long enough before it takes the next.        *)
(* ReplayList: for any number of sources, capacity of the list, depth of   *)
(* the receive queue, and number of values of the index above two, no PDU  *)
(* is accepted twice and no fresh one is refused.                          *)
(***************************************************************************)
EXTENDS NodeIv, ReplayList, FiniteSetTheorems, SequenceTheorems,
        WellFoundedInduction, TLAPS

-----------------------------------------------------------------------------
(* NodeIv: the inductive invariant *)

Misc == [sno : Nat, iv : 0 .. MaxIv, trigger : BOOLEAN]
Pairs == [st : States, flash : Misc]

\* The node sends with the index before in step 1, else with the current one,
\* and the flash has the one it sends with.
InStep(m) == /\ m.st.cur = IF m.st.proc = 1 THEN m.st.tx + 1 ELSE m.st.tx
             /\ m.flash.iv = m.st.tx

\* The number stored is the one last noted, unless nothing was sent since the start.
Saved(m) == \/ m.flash.sno = m.st.last
            \/ m.st.due /\ m.st.last = m.st.sno /\ m.st.sno = m.flash.sno + Delta

Good(m) == m \in Pairs /\ InStep(m) /\ Saved(m)

\* How an update may go on: the index does not go back; numbers that were used up stay so
\* only while an update is begun or waited for; and a step that goes on is as old as before.
Stages(m, n) ==
  /\ n.st.cur >= m.st.cur
  /\ Exhausted(n.st) => /\ n.st.sno = m.st.sno
                        /\ m.st.proc = 1 => n.st.proc = 1
                        /\ m.st.proc = 0 => n.st.proc # 2
                        /\ n.st.cur = m.st.cur \/ n.st.proc = 1
  /\ n.st.cur = m.st.cur => /\ n.st.proc = 1 => m.st.proc = 1
                            /\ n.st.proc = 2 => m.st.proc # 0
                            /\ n.st.proc = m.st.proc /\ n.st.proc # 0 => n.st.keep >= m.st.keep

\* What a handler may do to a pair: the index sent with never goes back, the
\* number changes with it only, and a number that is not stored is not changed.
Onward(m, n) ==
  /\ n.st.due = m.st.due
  /\ (n.st.tx > m.st.tx /\ n.st.keep = 0) \/ (n.st.tx = m.st.tx /\ n.st.sno = m.st.sno)
  /\ n.st.keep \in {0, m.st.keep}
  /\ \/ n.flash.sno = n.st.sno /\ n.st.last = n.st.sno
     \/ /\ n.flash.sno = m.flash.sno /\ n.st.sno = m.st.sno /\ n.st.last = m.st.last
        /\ n.st.tx = m.st.tx
  /\ Stages(m, n)

\* A restart after the next loss will be above what was settled before it.
SettledFresh == Below(settled, Nonce(st)) /\ Below(settled, <<flash.iv, flash.sno + Delta>>)

\* keep_time_s is never ahead of the time since the index last changed.
KeepHeld == st.keep <= age \/ age = KeepTime

NodeInv == TypeOK /\ Good(Now) /\ NonceFresh /\ SettledFresh /\ KeepHeld

-----------------------------------------------------------------------------
(* Stores and the change of the index *)

\* mesh_misc_store, as a pair.
LEMMA MiscStoreIs ==
  ASSUME NEW m \in Pairs, m.st.proc = 1 => m.st.cur > 0
  PROVE  /\ MiscStore(m) \in Pairs
         /\ MiscStore(m).st = [m.st EXCEPT !.last = m.st.sno]
         /\ MiscStore(m).flash.sno = m.st.sno
         /\ MiscStore(m).flash.iv = IF m.st.proc = 1 THEN m.st.cur - 1 ELSE m.st.cur
<1> m.st \in States /\ MaxIv \in Nat
  BY NodeIvAssumption DEF Pairs
<1>1. [m.st EXCEPT !.last = m.st.sno] \in States
  BY DEF States
<1>2. (IF m.st.proc = 1 THEN m.st.cur - 1 ELSE m.st.cur) \in 0 .. MaxIv
  BY DEF States
<1>3. (IF m.st.proc = 1 THEN ~Exhausted(m.st) ELSE m.st.trigger) \in BOOLEAN
  BY DEF States, Exhausted
<1>4. Stored(m.st) \in Misc
  BY <1>2, <1>3 DEF Stored, Misc, States
<1> QED
  BY <1>1, <1>4 DEF MiscStore, Stored, Pairs

\* mesh_iv_idx_init: the fields it leaves, and what it has stored.
IndexSet(n, m, iv, rst, save) ==
  /\ n \in Pairs
  /\ n.st.cur = iv /\ n.st.tx = iv /\ n.st.proc = 0 /\ n.st.keep = 0 /\ n.st.due = m.st.due
  /\ n.st.sno = IF rst THEN 1 ELSE m.st.sno
  /\ rst \/ save => n.st.last = n.st.sno /\ n.flash.sno = n.st.sno /\ n.flash.iv = iv
  /\ ~(rst \/ save) => n.st.last = m.st.last /\ n.flash = m.flash

\* mesh_iv_idx_init does so.
LEMMA IvIdxInitIs ==
  ASSUME NEW m \in Pairs, NEW iv \in 0 .. MaxIv, NEW rst \in BOOLEAN, NEW save \in BOOLEAN
  PROVE  IndexSet(IvIdxInit(m, iv, rst, save), m, iv, rst, save)
<1> DEFINE n == IvIdxInit(m, iv, rst, save)
<1> DEFINE s == [m.st EXCEPT !.cur = iv, !.tx = iv, !.proc = 0, !.rx = FALSE, !.keep = 0,
                             !.searching = FALSE, !.trigger = ~rst /\ @,
                             !.sno = IF rst THEN 1 ELSE @]
           p == [m EXCEPT !.st = s]
<1>1. m.st \in States /\ m.flash \in Misc
  BY DEF Pairs
<1>2. s \in States
  <2>1. 0 \in 0 .. 2 /\ 0 \in 0 .. KeepTime + 1 /\ FALSE \in BOOLEAN
    BY NodeIvAssumption
  <2>2. (~rst /\ m.st.trigger) \in BOOLEAN /\ (IF rst THEN 1 ELSE m.st.sno) \in Nat
    BY <1>1 DEF States
  <2> QED
    BY <1>1, <2>1, <2>2 DEF States
<1>3. /\ s.cur = iv /\ s.tx = iv /\ s.proc = 0 /\ s.keep = 0 /\ s.due = m.st.due
      /\ s.sno = (IF rst THEN 1 ELSE m.st.sno) /\ s.last = m.st.last
  BY <1>1 DEF States
<1> HIDE DEF s
<1>4. p \in Pairs /\ p.st = s /\ p.flash = m.flash
  BY <1>1, <1>2 DEF Pairs
<1>5. n = StoreIf(rst \/ save, p)
  BY Zenon DEF IvIdxInit, s
<1> HIDE DEF n
<1> HIDE DEF p
<1>6. ASSUME rst \/ save
      PROVE  /\ n \in Pairs /\ n.st = [s EXCEPT !.last = s.sno]
             /\ n.flash.sno = s.sno /\ n.flash.iv = iv
  <2>1. n = MiscStore(p)
    BY <1>5, <1>6 DEF StoreIf
  <2> QED
    BY <1>3, <1>4, <2>1, MiscStoreIs
<1>7. ASSUME ~(rst \/ save) PROVE n = p
  BY <1>5, <1>7 DEF StoreIf
<1>8. /\ n \in Pairs
      /\ n.st.cur = iv /\ n.st.tx = iv /\ n.st.proc = 0 /\ n.st.keep = 0 /\ n.st.due = m.st.due
      /\ n.st.sno = s.sno
      /\ rst \/ save => n.st.last = n.st.sno /\ n.flash.sno = n.st.sno /\ n.flash.iv = iv
      /\ ~(rst \/ save) => n.st.last = m.st.last /\ n.flash = m.flash
  BY <1>2, <1>3, <1>4, <1>6, <1>7 DEF States
<1> QED
  BY <1>3, <1>8 DEF n, IndexSet

\* Search mode keeps the index and the number.
LEMMA EnterSearchModeGood ==
  ASSUME NEW m, Good(m), m.st.proc = 0
  PROVE  Good(EnterSearchMode(m)) /\ Onward(m, EnterSearchMode(m))
<1> SUFFICES ASSUME NEW n, n = EnterSearchMode(m)
             PROVE  Good(n) /\ Onward(m, n)
  OBVIOUS
<1> DEFINE p == IvIdxInit(m, m.st.cur, FALSE, FALSE)
<1>1. m \in Pairs /\ m.st \in States /\ m.st.cur = m.st.tx /\ m.flash.iv = m.st.tx /\ m.st.cur \in 0 .. MaxIv
  BY DEF Good, Pairs, InStep, States
<1>2. /\ p \in Pairs /\ p.st.cur = m.st.cur /\ p.st.tx = m.st.cur /\ p.st.proc = 0 /\ p.st.keep = 0
      /\ p.st.due = m.st.due /\ p.st.sno = m.st.sno /\ p.st.last = m.st.last /\ p.flash = m.flash
  BY <1>1, IvIdxInitIs DEF IndexSet
<1> HIDE DEF p
<1>3. n = [p EXCEPT !.st.searching = TRUE]
  BY DEF EnterSearchMode, p
<1>4. /\ n \in Pairs /\ n.st.cur = p.st.cur /\ n.st.tx = p.st.tx /\ n.st.proc = 0 /\ n.st.keep = 0
      /\ n.st.due = p.st.due /\ n.st.sno = p.st.sno /\ n.st.last = p.st.last /\ n.flash = p.flash
  BY <1>2, <1>3 DEF Pairs, States
<1> QED
  <2>1. Stages(m, n)
    BY <1>1, <1>2, <1>4, NodeIvAssumption DEF Stages, Exhausted, States
  <2> QED
    BY <1>1, <1>2, <1>4, <2>1 DEF Good, InStep, Saved, Onward

\* The second step takes the next index, with new numbers.
LEMMA EnterUpdate2NormalGood ==
  ASSUME NEW m, Good(m), m.st.proc = 1
  PROVE  Good(EnterUpdate2Normal(m)) /\ Onward(m, EnterUpdate2Normal(m))
<1> SUFFICES ASSUME NEW n, n = EnterUpdate2Normal(m)
             PROVE  Good(n) /\ Onward(m, n)
  OBVIOUS
<1> DEFINE p == IvIdxInit(m, m.st.cur, TRUE, FALSE)
<1>1. m \in Pairs /\ m.st \in States /\ m.st.cur = m.st.tx + 1 /\ m.st.cur \in 0 .. MaxIv /\ m.st.tx \in 0 .. MaxIv
  BY DEF Good, Pairs, InStep, States
<1>2. /\ p \in Pairs /\ p.st.cur = m.st.cur /\ p.st.tx = m.st.cur /\ p.st.proc = 0 /\ p.st.keep = 0
      /\ p.st.due = m.st.due /\ p.st.last = p.st.sno /\ p.flash.sno = p.st.sno /\ p.flash.iv = m.st.cur
      /\ p.st.sno = 1
  BY <1>1, IvIdxInitIs DEF IndexSet
<1> HIDE DEF p
<1>3. n = [p EXCEPT !.st.proc = 2]
  BY DEF EnterUpdate2Normal, p
<1>4. /\ n \in Pairs /\ n.st.cur = p.st.cur /\ n.st.tx = p.st.tx /\ n.st.proc = 2 /\ n.st.keep = 0
      /\ n.st.due = p.st.due /\ n.st.sno = p.st.sno /\ n.st.last = p.st.last /\ n.flash = p.flash
  BY <1>2, <1>3 DEF Pairs, States
<1>5. n.st.tx > m.st.tx
  BY <1>1, <1>2, <1>4, NodeIvAssumption
<1> QED
  <2>1. Stages(m, n)
    BY <1>1, <1>2, <1>4, NodeIvAssumption DEF Stages, Exhausted, States
  <2> QED
    BY <1>1, <1>2, <1>4, <1>5, <2>1 DEF Good, InStep, Saved, Onward

\* The first step: the index is announced, the one before is sent with and stored.
Started(n, m) ==
  /\ n \in Pairs /\ InStep(n) /\ n.st.keep = 0 /\ n.st.proc = 1 /\ n.st.cur = m.st.cur
  /\ n.st.tx = m.st.tx /\ n.st.sno = m.st.sno /\ n.st.due = m.st.due
  /\ \/ n.flash.sno = n.st.sno /\ n.st.last = n.st.sno
     \/ n.flash.sno = m.flash.sno /\ n.st.last = m.st.last

\* mesh_iv_update_set_start_flag begins it.
LEMMA SetStartFlagIs ==
  ASSUME NEW m \in Pairs, m.st.cur = m.st.tx + 1, m.flash.iv = m.st.tx, NEW keepSearch \in BOOLEAN
  PROVE  Started(SetStartFlag(m, keepSearch), m)
<1> SUFFICES ASSUME NEW n, n = SetStartFlag(m, keepSearch)
             PROVE  Started(n, m)
  OBVIOUS
<1> DEFINE s == [m.st EXCEPT !.proc = 1, !.keep = 0, !.searching = keepSearch /\ @]
           b == [m EXCEPT !.st.proc = 1, !.st.keep = 0, !.st.searching = keepSearch /\ @]
           p == StoreIf(~Exhausted(m.st), b)
<1>1. m.st \in States /\ m.flash \in Misc /\ m.st.tx \in 0 .. MaxIv /\ m.st.cur > 0
  BY NodeIvAssumption DEF Pairs, States
<1>2. /\ b \in Pairs /\ b.st.cur = m.st.cur /\ b.st.tx = m.st.tx /\ b.st.proc = 1 /\ b.st.keep = 0
      /\ b.st.due = m.st.due /\ b.st.sno = m.st.sno /\ b.st.last = m.st.last /\ b.flash = m.flash
  <2>1. s \in States
    <3>1. 1 \in 0 .. 2 /\ 0 \in 0 .. KeepTime + 1 /\ (keepSearch /\ m.st.searching) \in BOOLEAN
      BY <1>1, NodeIvAssumption DEF States
    <3> QED
      BY <1>1, <3>1 DEF States
  <2>2. b = [m EXCEPT !.st = s]
    BY <1>1 DEF Pairs
  <2>3. /\ s.cur = m.st.cur /\ s.tx = m.st.tx /\ s.proc = 1 /\ s.keep = 0
        /\ s.due = m.st.due /\ s.sno = m.st.sno /\ s.last = m.st.last
    BY <1>1 DEF States
  <2> QED
    BY <1>1, <2>1, <2>2, <2>3 DEF Pairs
<1> HIDE DEF b
<1>3. /\ p \in Pairs /\ p.st.cur = m.st.cur /\ p.st.tx = m.st.tx /\ p.st.proc = 1 /\ p.st.keep = 0
      /\ p.st.due = m.st.due /\ p.st.sno = m.st.sno /\ p.flash.iv = m.st.tx
      /\ \/ p.flash.sno = m.st.sno /\ p.st.last = m.st.sno
         \/ p.flash.sno = m.flash.sno /\ p.st.last = m.st.last
  <2>1. CASE Exhausted(m.st)
    BY <1>1, <1>2, <2>1 DEF StoreIf
  <2>2. CASE ~Exhausted(m.st)
    <3>1. p = MiscStore(b)
      BY <2>2 DEF StoreIf
    <3>2. /\ p \in Pairs /\ p.st = [b.st EXCEPT !.last = b.st.sno]
          /\ p.flash.sno = b.st.sno /\ p.flash.iv = b.st.cur - 1
      BY <1>1, <1>2, <3>1, MiscStoreIs
    <3>3. b.st \in States /\ m.st.cur - 1 = m.st.tx
      BY <1>1, <1>2 DEF Pairs
    <3> QED
      BY <1>2, <3>2, <3>3 DEF States
  <2> QED
    BY <2>1, <2>2
<1> HIDE DEF p
<1>4. n = [p EXCEPT !.st.trigger = FALSE]
  BY DEF SetStartFlag, p, b
<1> HIDE DEF s
<1>5. /\ n \in Pairs /\ n.st.cur = p.st.cur /\ n.st.tx = p.st.tx /\ n.st.proc = 1 /\ n.st.keep = 0
      /\ n.st.due = p.st.due /\ n.st.sno = p.st.sno /\ n.st.last = p.st.last /\ n.flash = p.flash
  <2> DEFINE t == [p.st EXCEPT !.trigger = FALSE]
  <2>1. p.st \in States
    BY <1>3 DEF Pairs
  <2>2. /\ t \in States /\ t.cur = p.st.cur /\ t.tx = p.st.tx /\ t.proc = 1 /\ t.keep = 0
        /\ t.due = p.st.due /\ t.sno = p.st.sno /\ t.last = p.st.last
    BY <1>3, <2>1 DEF States
  <2>3. n = [p EXCEPT !.st = t]
    BY <1>4
  <2> HIDE DEF t
  <2> QED
    BY <1>3, <2>2, <2>3 DEF Pairs
<1> QED
  BY <1>1, <1>3, <1>5 DEF InStep, Started

-----------------------------------------------------------------------------
(* The handlers *)

\* Nothing changed, or the rest of a handler after its beginning.
LEMMA OnwardSame ==
  ASSUME NEW m, Good(m)
  PROVE  Onward(m, m)
<1>1. m.st.cur \in Nat /\ m.st.keep \in Int
  BY NodeIvAssumption DEF Good, Pairs, States
<1> QED
  BY <1>1 DEF Onward, Stages

\* Stages composes.
LEMMA StagesTwice ==
  ASSUME NEW a \in Pairs, NEW b \in Pairs, NEW c \in Pairs, Stages(a, b), Stages(b, c)
  PROVE  Stages(a, c)
<1>1. /\ a.st.cur \in Nat /\ b.st.cur \in Nat /\ c.st.cur \in Nat
      /\ a.st.proc \in 0 .. 2 /\ b.st.proc \in 0 .. 2 /\ c.st.proc \in 0 .. 2
      /\ a.st.keep \in Int /\ b.st.keep \in Int /\ c.st.keep \in Int
      /\ a.st.sno \in Nat /\ b.st.sno \in Nat /\ c.st.sno \in Nat
  BY NodeIvAssumption DEF Pairs, States
<1>2. c.st.cur >= a.st.cur
  BY <1>1 DEF Stages
<1>3. Exhausted(c.st) => Exhausted(b.st)
  BY DEF Stages, Exhausted
<1>4. Exhausted(c.st) => /\ c.st.sno = a.st.sno
                         /\ a.st.proc = 1 => c.st.proc = 1
                         /\ a.st.proc = 0 => c.st.proc # 2
                         /\ c.st.cur = a.st.cur \/ c.st.proc = 1
  BY <1>1, <1>3 DEF Stages
<1>5. c.st.cur = a.st.cur => b.st.cur = a.st.cur /\ c.st.cur = b.st.cur
  BY <1>1 DEF Stages
<1>6. c.st.cur = a.st.cur => /\ c.st.proc = 1 => a.st.proc = 1
                             /\ c.st.proc = 2 => a.st.proc # 0
                             /\ c.st.proc = a.st.proc /\ c.st.proc # 0 => c.st.keep >= a.st.keep
  BY <1>1, <1>5 DEF Stages
<1> QED
  BY <1>2, <1>4, <1>6 DEF Stages

\* Onward composes.
LEMMA OnwardTwice ==
  ASSUME NEW a \in Pairs, NEW b \in Pairs, NEW c \in Pairs, Onward(a, b), Onward(b, c)
  PROVE  Onward(a, c)
<1>1. a.st.tx \in Nat /\ b.st.tx \in Nat /\ c.st.tx \in Nat
  BY DEF Pairs, States
<1> QED
  BY <1>1, StagesTwice DEF Onward

\* What goes onward leaves the number stored as it should be.
LEMMA OnwardGood ==
  ASSUME NEW m, Good(m), NEW n \in Pairs, InStep(n), Onward(m, n)
  PROVE  Good(n)
BY DEF Good, Onward, Saved

\* A change of the other fields.
LEMMA OtherFields ==
  ASSUME NEW m, Good(m), NEW s \in States,
         s.cur = m.st.cur, s.tx = m.st.tx, s.proc = m.st.proc, s.keep = m.st.keep,
         s.sno = m.st.sno, s.last = m.st.last, s.due = m.st.due
  PROVE  Good([m EXCEPT !.st = s]) /\ Onward(m, [m EXCEPT !.st = s])
<1> DEFINE n == [m EXCEPT !.st = s]
<1>1. n \in Pairs /\ n.st = s /\ n.flash = m.flash
  BY DEF Good, Pairs
<1> HIDE DEF n
<1>2. InStep(n) /\ Onward(m, n)
  <2>1. m.st.cur \in Nat /\ m.st.keep \in Int
    BY NodeIvAssumption DEF Good, Pairs, States
  <2>2. Stages(m, n)
    BY <1>1, <2>1 DEF Stages
  <2> QED
    BY <1>1, <2>2 DEF Good, InStep, Onward
<1>3. Good(n)
  BY <1>1, <1>2, OnwardGood
<1> QED
  BY <1>2, <1>3 DEF n

\* A beacon with the update flag and a higher index.
LEMMA SetWithUpdateFlagGood ==
  ASSUME NEW m, Good(m), NEW iv \in 0 .. MaxIv, iv > m.st.cur
  PROVE  Good(SetWithUpdateFlag(m, iv)) /\ Onward(m, SetWithUpdateFlag(m, iv))
<1> SUFFICES ASSUME NEW n, n = SetWithUpdateFlag(m, iv)
             PROVE  Good(n) /\ Onward(m, n)
  OBVIOUS
<1> DEFINE rst == iv - 1 # m.st.cur
           old == IvIdxInit(m, iv - 1, rst, TRUE)
           q == [old EXCEPT !.st.cur = iv]
<1>1. /\ m \in Pairs /\ m.st \in States /\ m.st.cur \in Nat /\ m.st.tx \in Nat
      /\ m.st.cur = m.st.tx \/ m.st.cur = m.st.tx + 1
  BY DEF Good, Pairs, States, InStep
<1>2. iv - 1 \in 0 .. MaxIv /\ rst \in BOOLEAN /\ iv \in Nat /\ iv - 1 \in Nat
  BY <1>1, NodeIvAssumption
<1>3. /\ old \in Pairs /\ old.st.tx = iv - 1 /\ old.st.keep = 0 /\ old.st.due = m.st.due
      /\ old.st.sno = (IF rst THEN 1 ELSE m.st.sno)
      /\ old.st.last = old.st.sno /\ old.flash.sno = old.st.sno /\ old.flash.iv = iv - 1
  <2>1. IndexSet(old, m, iv - 1, rst, TRUE)
    BY <1>1, <1>2, IvIdxInitIs
  <2> HIDE DEF rst, old
  <2> QED
    BY <2>1 DEF IndexSet
<1> HIDE DEF old
<1>4. /\ q \in Pairs /\ q.st.cur = iv /\ q.st.tx = iv - 1 /\ q.st.due = m.st.due
      /\ q.st.sno = (IF rst THEN 1 ELSE m.st.sno) /\ q.st.last = q.st.sno
      /\ q.flash.sno = q.st.sno /\ q.flash.iv = iv - 1
  <2> DEFINE t == [old.st EXCEPT !.cur = iv]
  <2>1. t \in States /\ t.cur = iv /\ t.tx = iv - 1 /\ t.due = m.st.due /\ t.sno = old.st.sno /\ t.last = old.st.last
    BY <1>3 DEF Pairs, States
  <2>2. q = [old EXCEPT !.st = t]
    BY <1>3 DEF Pairs
  <2> HIDE DEF t, rst, q
  <2>3. q \in Pairs /\ q.st = t /\ q.flash = old.flash
    BY <1>3, <2>1, <2>2 DEF Pairs
  <2> QED
    BY <1>3, <2>1, <2>3
<1>5. n = SetStartFlag(q, FALSE)
  BY Zenon DEF SetWithUpdateFlag, q, old
<1> HIDE DEF q
<1>6. q.st.cur = q.st.tx + 1
  BY <1>2, <1>4
<1>7. /\ n \in Pairs /\ InStep(n) /\ n.st.keep = 0 /\ n.st.proc = 1 /\ n.st.cur = q.st.cur
      /\ n.st.tx = q.st.tx /\ n.st.sno = q.st.sno /\ n.st.due = q.st.due
      /\ \/ n.flash.sno = n.st.sno /\ n.st.last = n.st.sno
         \/ n.flash.sno = q.flash.sno /\ n.st.last = q.st.last
  <2>1. q \in Pairs /\ q.flash.iv = q.st.tx
    BY <1>4
  <2>2. Started(n, q)
    BY <1>5, <1>6, <2>1, SetStartFlagIs
  <2> QED
    BY <2>2 DEF Started
<1>8. \/ iv - 1 > m.st.tx
      \/ iv - 1 = m.st.tx /\ ~rst
  BY <1>1, <1>2
<1>9. Onward(m, n)
  <2>1. n.st.proc = 1 /\ n.st.cur = iv
    BY <1>4, <1>7
  <2>2. Stages(m, n)
    BY <1>1, <1>2, <1>4, <1>7, <2>1, NodeIvAssumption DEF Stages, Exhausted
  <2> QED
    BY <1>4, <1>7, <1>8, <2>2 DEF Onward
<1> QED
  BY <1>7, <1>9, OnwardGood

\* A step of an update ends.
LEMMA StepChangeGood ==
  ASSUME NEW m, Good(m)
  PROVE  Good(StepChange(m)) /\ Onward(m, StepChange(m))
<1>1. CASE busy \/ m.st.proc = 0
  BY <1>1, OnwardSame DEF StepChange
<1>2. CASE ~busy /\ m.st.proc = 1
  BY <1>2, EnterUpdate2NormalGood DEF StepChange
<1>3. CASE ~busy /\ m.st.proc = 2
  <2> DEFINE s == [m.st EXCEPT !.proc = 0]
             n == [m EXCEPT !.st = s]
  <2>1. m \in Pairs /\ m.st \in States /\ m.st.cur = m.st.tx
    BY <1>3 DEF Good, Pairs, InStep
  <2>2. /\ s \in States /\ s.cur = m.st.cur /\ s.tx = m.st.tx /\ s.proc = 0 /\ s.keep = m.st.keep
        /\ s.sno = m.st.sno /\ s.last = m.st.last /\ s.due = m.st.due
    BY <2>1 DEF States
  <2>3. StepChange(m) = n
    BY <1>3 DEF StepChange
  <2> HIDE DEF s
  <2>4. n \in Pairs /\ n.st = s /\ n.flash = m.flash
    BY <2>1, <2>2 DEF Pairs
  <2> HIDE DEF n
  <2>5. InStep(n) /\ Onward(m, n)
    <3>1. m.st.cur \in Nat
      BY <2>1 DEF States
    <3>2. Stages(m, n)
      BY <1>3, <2>2, <2>4, <3>1 DEF Stages
    <3> QED
      BY <2>1, <2>2, <2>4, <3>2 DEF Good, InStep, Onward
  <2> QED
    BY <2>3, <2>4, <2>5, OnwardGood
<1>4. m.st.proc \in 0 .. 2
  BY DEF Good, Pairs, States
<1> QED
  BY <1>1, <1>2, <1>3, <1>4

\* The start of an update keeps the index sent with.
LEMMA StartCheckGood ==
  ASSUME NEW m, Good(m)
  PROVE  /\ Good(StartCheck(m)) /\ Onward(m, StartCheck(m)) /\ StartCheck(m).st.tx = m.st.tx
         /\ ~busy /\ m.st.proc = 0 /\ m.st.cur # MaxIv => StartCheck(m).st.cur = m.st.cur + 1
<1>1. m \in Pairs /\ m.st \in States /\ m.flash \in Misc /\ m.flash.iv = m.st.tx
  BY DEF Good, Pairs, InStep
<1>2. CASE m.st.proc = 1 \/ (m.st.proc = 2 /\ ~EnoughLl(m.st))
  <2> DEFINE s == [m.st EXCEPT !.rx = FALSE]
  <2>1. /\ s \in States /\ s.cur = m.st.cur /\ s.tx = m.st.tx /\ s.proc = m.st.proc /\ s.keep = m.st.keep
        /\ s.sno = m.st.sno /\ s.last = m.st.last /\ s.due = m.st.due
    BY <1>1 DEF States
  <2>2. StartCheck(m) = [m EXCEPT !.st = s]
    BY <1>2 DEF StartCheck
  <2> HIDE DEF s
  <2>3. StartCheck(m).st = s
    BY <1>1, <2>2 DEF Pairs
  <2> QED
    BY <1>2, <2>1, <2>2, <2>3, OtherFields
<1>3. CASE ~(m.st.proc = 1 \/ (m.st.proc = 2 /\ ~EnoughLl(m.st))) /\ (busy \/ m.st.cur = MaxIv)
  BY <1>3, OnwardSame DEF StartCheck
<1>4. CASE ~(m.st.proc = 1 \/ (m.st.proc = 2 /\ ~EnoughLl(m.st))) /\ ~(busy \/ m.st.cur = MaxIv)
  <2> DEFINE s == [m.st EXCEPT !.cur = @ + 1]
             p == [m EXCEPT !.st = s]
             n == SetStartFlag(p, TRUE)
  <2>1. m.st.cur = m.st.tx /\ m.st.cur + 1 \in 0 .. MaxIv
    BY <1>1, <1>4, NodeIvAssumption DEF Good, InStep, States
  <2>2. /\ s \in States /\ s.cur = m.st.tx + 1 /\ s.tx = m.st.tx
        /\ s.sno = m.st.sno /\ s.last = m.st.last /\ s.due = m.st.due
    BY <1>1, <2>1 DEF States
  <2>3. StartCheck(m) = n
    BY <1>4 DEF StartCheck
  <2> HIDE DEF s
  <2>4. p \in Pairs /\ p.st = s /\ p.flash = m.flash
    BY <1>1, <2>2 DEF Pairs
  <2> HIDE DEF p
  <2>5. p.st.cur = p.st.tx + 1 /\ p.flash.iv = p.st.tx
    BY <1>1, <2>2, <2>4
  <2>6. Started(n, p)
    BY <2>4, <2>5, SetStartFlagIs
  <2> HIDE DEF n
  <2>7. n \in Pairs /\ InStep(n) /\ Onward(m, n) /\ n.st.tx = m.st.tx
    <3>1. n.st.proc = 1 /\ n.st.cur = m.st.cur + 1 /\ m.st.cur \in Nat /\ n.st.sno = m.st.sno
      BY <1>1, <2>1, <2>2, <2>4, <2>6 DEF Started, States
    <3>2. Stages(m, n)
      BY <1>4, <3>1 DEF Stages
    <3> QED
      BY <2>2, <2>4, <2>6, <3>2 DEF Started, Onward
  <2>8. n.st.cur = m.st.cur + 1
    BY <2>1, <2>2, <2>4, <2>6 DEF Started
  <2> QED
    BY <2>3, <2>7, <2>8, OnwardGood
<1> QED
  BY <1>2, <1>3, <1>4

\* The poll that begins an update.
LEMMA StartPollGood ==
  ASSUME NEW m, Good(m)
  PROVE  /\ Good(StartPoll(m)) /\ Onward(m, StartPoll(m)) /\ StartPoll(m).st.tx = m.st.tx
         /\ Exhausted(m.st) /\ ~busy /\ m.st.proc = 0 /\ m.st.cur # MaxIv
              => StartPoll(m).st.cur = m.st.cur + 1
BY StartCheckGood, OnwardSame DEF StartPoll

\* The number is stored when it is far enough from the one stored.
LEMMA SnoSaveCheckGood ==
  ASSUME NEW m, Good(m), NEW n, n = SnoSaveCheck(m)
  PROVE  /\ Good(n) /\ Onward(m, n) /\ n.st.tx = m.st.tx
         /\ n.st.cur = m.st.cur /\ n.st.proc = m.st.proc
         /\ n.st.sno <= n.flash.sno + Delta
<1>1. /\ m \in Pairs /\ m.st \in States /\ m.flash \in Misc /\ m.flash.iv = m.st.tx
      /\ m.st.cur = IF m.st.proc = 1 THEN m.st.tx + 1 ELSE m.st.tx
  BY DEF Good, Pairs, InStep
<1>2. m.st.sno \in Nat /\ m.st.last \in Nat /\ m.flash.sno \in Nat /\ m.st.tx \in Nat /\ Delta \in Nat
  BY <1>1, NodeIvAssumption DEF States, Misc
<1>3. CASE m.st.sno > m.st.last + Delta
  <2>1. n = MiscStore(m)
    BY <1>3 DEF SnoSaveCheck, StoreIf
  <2>2. m.st.proc = 1 => m.st.cur > 0
    BY <1>1, <1>2
  <2>3. /\ n \in Pairs /\ n.st = [m.st EXCEPT !.last = m.st.sno] /\ n.flash.sno = m.st.sno
        /\ n.flash.iv = IF m.st.proc = 1 THEN m.st.cur - 1 ELSE m.st.cur
    BY <1>1, <2>1, <2>2, MiscStoreIs
  <2>4. /\ n.st.cur = m.st.cur /\ n.st.tx = m.st.tx /\ n.st.proc = m.st.proc /\ n.st.keep = m.st.keep
        /\ n.st.sno = m.st.sno /\ n.st.last = m.st.sno /\ n.st.due = m.st.due
    BY <1>1, <2>3 DEF States
  <2>5. InStep(n)
    BY <1>1, <1>2, <2>3, <2>4 DEF InStep
  <2>6. Onward(m, n)
    <3>1. m.st.cur \in Nat /\ m.st.keep \in Int
      BY <1>1, NodeIvAssumption DEF States
    <3>2. Stages(m, n)
      BY <2>4, <3>1 DEF Stages
    <3> QED
      BY <2>3, <2>4, <3>2 DEF Onward
  <2>7. n.st.sno <= n.flash.sno + Delta
    BY <1>2, <2>3, <2>4
  <2> QED
    BY <2>3, <2>4, <2>5, <2>6, <2>7, OnwardGood
<1>4. CASE ~(m.st.sno > m.st.last + Delta)
  <2>1. n = m
    BY <1>4 DEF SnoSaveCheck, StoreIf
  <2>2. m.st.sno <= m.flash.sno + Delta
    BY <1>2, <1>4 DEF Good, Saved
  <2> QED
    BY <2>1, <2>2, OnwardSame
<1> QED
  BY <1>3, <1>4

\* A second passes: keep_time_s, and then perhaps the end of a step.
LEMMA StPollSGood ==
  ASSUME NEW m, Good(m), NEW n, n = StPollS(m)
  PROVE  /\ Good(n) /\ n.st.due = m.st.due
         /\ n.st.tx >= m.st.tx /\ (n.st.tx = m.st.tx => n.st.sno = m.st.sno)
         /\ \/ n.st.keep = 0
            \/ n.st.tx = m.st.tx /\ n.st.keep <= m.st.keep + 1
         /\ n.st.tx # m.st.tx => n.st.keep = 0 /\ m.st.keep >= KeepTime
         /\ \/ n.flash.sno = n.st.sno
            \/ n.flash.sno = m.flash.sno /\ n.st.tx = m.st.tx
         /\ Stages(m, n)
         /\ ~busy /\ m.st.proc # 0 /\ n.st.proc = m.st.proc => n.st.keep = m.st.keep + 1
<1> DEFINE s == [m.st EXCEPT !.keep = IF @ > KeepTime THEN @ ELSE @ + 1]
           on == [m EXCEPT !.st.keep = IF @ > KeepTime THEN @ ELSE @ + 1]
<1>1. m \in Pairs /\ m.st \in States /\ m.st.keep \in 0 .. KeepTime + 1 /\ KeepTime \in Nat
  BY NodeIvAssumption DEF Good, Pairs, States
<1>2. /\ s \in States /\ s.cur = m.st.cur /\ s.tx = m.st.tx /\ s.proc = m.st.proc
      /\ s.keep = (IF m.st.keep > KeepTime THEN m.st.keep ELSE m.st.keep + 1)
      /\ s.sno = m.st.sno /\ s.last = m.st.last /\ s.due = m.st.due
  <2>1. (IF m.st.keep > KeepTime THEN m.st.keep ELSE m.st.keep + 1) \in 0 .. KeepTime + 1
    BY <1>1
  <2> QED
    BY <1>1, <2>1 DEF States
<1>3. on = [m EXCEPT !.st = s]
  BY <1>1 DEF Pairs
<1> HIDE DEF s
<1>4. on \in Pairs /\ on.st = s /\ on.flash = m.flash
  BY <1>1, <1>2, <1>3 DEF Pairs
<1> HIDE DEF on
<1>5. Good(on)
  BY <1>2, <1>4 DEF Good, InStep, Saved
<1>6. n = IF on.st.proc # 0 /\ EnoughLl(on.st) THEN StepChange(on) ELSE on
  BY DEF StPollS, on
<1>7. on.st.keep <= m.st.keep + 1 /\ (EnoughLl(on.st) => m.st.keep >= KeepTime)
  BY <1>1, <1>2, <1>4 DEF EnoughLl
<1>8. on.st.tx \in Nat /\ m.st.tx = on.st.tx
  BY <1>1, <1>2, <1>4 DEF States
<1>11. Stages(m, on)
  <2>1. m.st.cur \in Nat
    BY <1>1 DEF States
  <2> QED
    BY <1>1, <1>2, <1>4, <2>1 DEF Stages
<1>9. CASE on.st.proc # 0 /\ EnoughLl(on.st)
  <2>0. n = StepChange(on)
    BY <1>6, <1>9
  <2>1. Good(n) /\ Onward(on, n)
    BY <1>5, <2>0, StepChangeGood
  <2>3. Stages(m, n)
    BY <1>1, <1>4, <1>11, <2>1, StagesTwice DEF Good, Onward
  <2>4. ~busy => n.st.proc # on.st.proc
    <3>1. CASE ~busy /\ on.st.proc = 1
      <4> DEFINE p == IvIdxInit(on, on.st.cur, TRUE, FALSE)
      <4>1. n = [p EXCEPT !.st.proc = 2]
        BY <1>9, <2>0, <3>1 DEF StepChange, EnterUpdate2Normal
      <4>2. on.st.cur \in 0 .. MaxIv
        BY <1>4 DEF Pairs, States
      <4>3. p \in Pairs
        BY <1>4, <4>2, IvIdxInitIs DEF IndexSet
      <4> HIDE DEF p
      <4> QED
        BY <3>1, <4>1, <4>3 DEF Pairs, States
    <3>2. CASE ~busy /\ on.st.proc = 2
      <4>1. n = [on EXCEPT !.st.proc = 0]
        BY <1>9, <2>0, <3>2 DEF StepChange
      <4> QED
        BY <1>4, <3>2, <4>1 DEF Pairs, States
    <3>3. on.st.proc \in 0 .. 2
      BY <1>4 DEF Pairs, States
    <3> QED
      BY <1>9, <3>1, <3>2, <3>3
  <2>2. n.st.tx \in Nat
    BY <2>1 DEF Good, Pairs, States
  <2> QED
    BY <1>2, <1>4, <1>7, <1>8, <1>9, <2>1, <2>2, <2>3, <2>4 DEF Onward
<1>10. CASE ~(on.st.proc # 0 /\ EnoughLl(on.st))
  <2>1. n = on
    BY <1>6, <1>10
  <2>2. m.st.proc # 0 => on.st.keep = m.st.keep + 1
    BY <1>1, <1>2, <1>4, <1>10 DEF EnoughLl
  <2> QED
    BY <1>2, <1>4, <1>5, <1>7, <1>8, <1>11, <2>1, <2>2
<1> QED
  BY <1>9, <1>10

\* A higher index without the update flag is taken at once, in search mode.
LEMMA IndexTakenGood ==
  ASSUME NEW m, Good(m), NEW iv \in 0 .. MaxIv, iv > m.st.cur
  PROVE  Good(IvIdxInit(m, iv, TRUE, TRUE)) /\ Onward(m, IvIdxInit(m, iv, TRUE, TRUE))
<1> DEFINE n == IvIdxInit(m, iv, TRUE, TRUE)
<1>1. m \in Pairs /\ m.st.cur \in Nat /\ m.st.tx \in Nat /\ m.st.cur >= m.st.tx /\ iv \in Nat
  BY NodeIvAssumption DEF Good, Pairs, States, InStep
<1>2. IndexSet(n, m, iv, TRUE, TRUE)
  BY <1>1, IvIdxInitIs
<1> HIDE DEF n
<1>3. n \in Pairs /\ InStep(n) /\ Onward(m, n)
  <2>1. n.st.cur = iv /\ n.st.proc = 0 /\ n.st.sno = 1
    BY <1>2 DEF IndexSet
  <2>2. Stages(m, n)
    BY <1>1, <2>1, NodeIvAssumption DEF Stages, Exhausted
  <2> QED
    BY <1>1, <1>2, <2>2 DEF IndexSet, InStep, Onward
<1> QED
  BY <1>3, OnwardGood DEF n

\* A beacon in search mode.
LEMMA BeaconSearchingGood ==
  ASSUME NEW m, Good(m), NEW iv \in 0 .. MaxIv, NEW update \in BOOLEAN
  PROVE  Good(BeaconSearching(m, iv, update)) /\ Onward(m, BeaconSearching(m, iv, update))
<1> DEFINE n == BeaconSearching(m, iv, update)
<1>1. /\ m \in Pairs /\ m.st \in States /\ m.st.cur \in Nat /\ m.st.proc \in 0 .. 2 /\ iv \in Nat
      /\ (iv - m.st.cur >= 1 <=> iv > m.st.cur)
  BY NodeIvAssumption DEF Good, Pairs, States
<1>2. CASE n = m
  BY <1>2, OnwardSame
<1>3. CASE n = [m EXCEPT !.st.rx = TRUE, !.st.searching = FALSE]
  <2> DEFINE s == [m.st EXCEPT !.rx = TRUE, !.searching = FALSE]
  <2>1. /\ s \in States /\ s.cur = m.st.cur /\ s.tx = m.st.tx /\ s.proc = m.st.proc /\ s.keep = m.st.keep
        /\ s.sno = m.st.sno /\ s.last = m.st.last /\ s.due = m.st.due
    BY <1>1 DEF States
  <2>2. n = [m EXCEPT !.st = s]
    BY <1>1, <1>3 DEF Pairs
  <2> HIDE DEF s, n
  <2>3. Good(n) /\ Onward(m, n)
    BY <2>1, <2>2, OtherFields
  <2> QED
    BY <2>3 DEF n
<1>4. CASE iv > m.st.cur /\ n = SetWithUpdateFlag(m, iv)
  BY <1>4, SetWithUpdateFlagGood
<1>5. CASE iv > m.st.cur /\ n = IvIdxInit(m, iv, TRUE, TRUE)
  BY <1>5, IndexTakenGood
<1>6. CASE m.st.proc = 1 /\ n = EnterUpdate2Normal(m)
  BY <1>6, EnterUpdate2NormalGood
<1> QED
  BY <1>1, <1>2, <1>3, <1>4, <1>5, <1>6 DEF BeaconSearching

\* A beacon, for the rest.  Out of search mode the index changes only when it has been kept.
LEMMA BeaconUpdateGood ==
  ASSUME NEW m, Good(m), NEW iv \in 0 .. MaxIv, NEW update \in BOOLEAN, NEW subnet \in BOOLEAN
  PROVE  /\ Good(BeaconUpdate(m, iv, update, subnet)) /\ Onward(m, BeaconUpdate(m, iv, update, subnet))
         /\ BeaconUpdate(m, iv, update, subnet).st.tx # m.st.tx => m.st.keep >= KeepTime
<1> DEFINE n == BeaconUpdate(m, iv, update, subnet)
<1>1. m \in Pairs /\ m.st \in States /\ m.flash \in Misc
  BY DEF Good, Pairs
<1>2. CASE n = m
  BY <1>2, OnwardSame
<1>3. CASE n = [m EXCEPT !.st.rx = TRUE]
  <2> DEFINE s == [m.st EXCEPT !.rx = TRUE]
  <2>1. /\ s \in States /\ s.cur = m.st.cur /\ s.tx = m.st.tx /\ s.proc = m.st.proc /\ s.keep = m.st.keep
        /\ s.sno = m.st.sno /\ s.last = m.st.last /\ s.due = m.st.due
    BY <1>1 DEF States
  <2>2. n = [m EXCEPT !.st = s]
    BY <1>1, <1>3 DEF Pairs
  <2> HIDE DEF s, n
  <2>3. Good(n) /\ Onward(m, n) /\ n.st.tx = m.st.tx
    BY <1>1, <2>1, <2>2, OtherFields DEF Pairs
  <2> QED
    BY <2>3 DEF n
<1>4. CASE m.st.proc = 0 /\ n = EnterSearchMode(m)
  <2>1. Good(n) /\ Onward(m, n)
    BY <1>4, EnterSearchModeGood
  <2>2. n.st.tx = m.st.tx
    <3> DEFINE p == IvIdxInit(m, m.st.cur, FALSE, FALSE)
    <3>1. m.st.cur = m.st.tx /\ m.st.cur \in 0 .. MaxIv
      BY <1>1, <1>4 DEF Good, InStep, States
    <3>2. IndexSet(p, m, m.st.cur, FALSE, FALSE)
      BY <1>1, <3>1, IvIdxInitIs
    <3>3. n = [p EXCEPT !.st.searching = TRUE]
      BY <1>4 DEF EnterSearchMode
    <3> HIDE DEF p, n
    <3> QED
      BY <3>1, <3>2, <3>3 DEF IndexSet, Pairs, States
  <2> QED
    BY <2>1, <2>2
<1>5. CASE EnoughRx(m.st) /\ n = StepChange(m)
  BY <1>5, StepChangeGood DEF EnoughRx
<1> QED
  BY <1>2, <1>3, <1>4, <1>5 DEF BeaconUpdate

\* A secure network beacon.
LEMMA RxBeaconGood ==
  ASSUME NEW m, Good(m), NEW iv \in 0 .. MaxIv, NEW update \in BOOLEAN, NEW subnet \in BOOLEAN
  PROVE  /\ Good(RxBeacon(m, iv, update, subnet)) /\ Onward(m, RxBeacon(m, iv, update, subnet))
         /\ ~m.st.searching /\ RxBeacon(m, iv, update, subnet).st.tx # m.st.tx => m.st.keep >= KeepTime
<1> DEFINE p == BeaconSearching(m, iv, update)
           n == BeaconUpdate(p, iv, update, subnet)
<1>1. Good(p) /\ Onward(m, p)
  BY BeaconSearchingGood
<1>2. ~m.st.searching => p = m
  BY DEF BeaconSearching
<1> HIDE DEF p
<1>3. Good(n) /\ Onward(p, n) /\ (n.st.tx # p.st.tx => p.st.keep >= KeepTime)
  BY <1>1, BeaconUpdateGood
<1> HIDE DEF n
<1>4. Onward(m, n)
  BY <1>1, <1>3, OnwardTwice DEF Good
<1>5. RxBeacon(m, iv, update, subnet) \in {m, n}
  BY DEF RxBeacon, n, p
<1> QED
  BY <1>2, <1>3, <1>4, <1>5, OnwardSame

-----------------------------------------------------------------------------
(* The invariant *)

\* Below is an order, and a step onward goes up in it.
LEMMA BelowUp ==
  ASSUME NEW a \in (0 .. MaxIv) \X Nat, NEW i \in Nat, NEW x \in Nat, NEW j \in Nat, NEW y \in Nat,
         Below(a, <<i, x>>), i < j \/ (i = j /\ x <= y)
  PROVE  Below(a, <<j, y>>)
<1>1. a[1] \in Nat /\ a[2] \in Nat
  BY NodeIvAssumption
<1> QED
  BY <1>1 DEF Below

\* The invariant after a handler that went onward.
LEMMA HandledInv ==
  ASSUME NodeInv, Good(Now'), Onward(Now, Now'), UNCHANGED <<busy, losses, sent, settled>>,
         age' = IF st'.tx # st.tx THEN 0 ELSE age
  PROVE  NodeInv'
<1>1. /\ st \in States /\ flash \in Misc /\ st' \in States /\ flash' \in Misc
      /\ flash.iv = st.tx /\ flash'.iv = st'.tx
  BY DEF NodeInv, Good, Pairs, Now, InStep
<1>2. /\ st.tx \in Nat /\ st.sno \in Nat /\ st'.tx \in Nat /\ st'.sno \in Nat
      /\ flash.sno \in Nat /\ flash'.sno \in Nat /\ Delta \in Nat
      /\ sent \in (0 .. MaxIv) \X Nat /\ settled \in (0 .. MaxIv) \X Nat
  BY <1>1, NodeIvAssumption DEF States, Misc, NodeInv, TypeOK
<1>3. /\ st'.tx > st.tx \/ (st'.tx = st.tx /\ st'.sno = st.sno)
      /\ flash'.sno = st'.sno \/ (flash'.sno = flash.sno /\ st'.tx = st.tx)
  BY DEF Onward, Now
<1>4. NonceFresh'
  BY <1>2, <1>3, BelowUp DEF NodeInv, NonceFresh, Nonce
<1>5. SettledFresh'
  <2>1. Below(settled, Nonce(st)')
    BY <1>2, <1>3, BelowUp DEF NodeInv, SettledFresh, Nonce
  <2>2. Below(settled, <<flash'.iv, flash'.sno + Delta>>)
    <3>1. CASE flash'.sno = st'.sno
      <4>1. st'.sno <= st'.sno + Delta /\ st'.sno + Delta \in Nat
        BY <1>2
      <4>2. Below(settled, <<st'.tx, st'.sno + Delta>>)
        BY <1>2, <2>1, <4>1, BelowUp DEF Nonce
      <4> QED
        BY <1>1, <3>1, <4>2
    <3>2. CASE flash'.sno = flash.sno /\ st'.tx = st.tx
      BY <1>1, <3>2 DEF NodeInv, SettledFresh
    <3> QED
      BY <1>3, <3>1, <3>2
  <2> QED
    BY <2>1, <2>2 DEF SettledFresh
<1>6. KeepHeld'
  <2>1. st'.keep \in {0, st.keep} /\ (st'.tx # st.tx => st'.keep = 0)
    BY <1>1, <1>2 DEF Onward, Now
  <2>2. age \in 0 .. KeepTime /\ KeepTime \in Nat
    BY NodeIvAssumption DEF NodeInv, TypeOK
  <2> QED
    BY <2>1, <2>2 DEF NodeInv, KeepHeld
<1>7. TypeOK'
  <2>1. 0 \in 0 .. KeepTime
    BY NodeIvAssumption
  <2> QED
    BY <1>1, <2>1 DEF NodeInv, TypeOK, Misc
<1> QED
  BY <1>4, <1>5, <1>6, <1>7 DEF NodeInv

\* A handler's result is the next state.
LEMMA PutIs ==
  ASSUME NEW n \in Pairs, Put(n)
  PROVE  Now' = n
BY DEF Put, Now, Pairs

\* A beacon.
LEMMA BeaconInv ==
  ASSUME NodeInv, NEW iv \in 0 .. MaxIv, NEW update \in BOOLEAN, NEW subnet \in BOOLEAN,
         Beacon(iv, update, subnet)
  PROVE  NodeInv' /\ Onward(Now, Now') /\ (~st.searching /\ st'.tx # st.tx => st.keep >= KeepTime)
<1> DEFINE n == RxBeacon(Now, iv, update, subnet)
<1>1. Good(Now)
  BY DEF NodeInv
<1>2. Good(n) /\ Onward(Now, n) /\ (~Now.st.searching /\ n.st.tx # Now.st.tx => Now.st.keep >= KeepTime)
  BY <1>1, RxBeaconGood
<1> HIDE DEF n
<1>3. Now' = n /\ st' = n.st
  BY <1>2, PutIs DEF Beacon, n, Put, Good
<1>4. NodeInv'
  BY <1>2, <1>3, HandledInv DEF Beacon, Aged
<1> QED
  BY <1>2, <1>3, <1>4 DEF Now

\* The end of a pass of the main loop, of a second too.
LEMMA EndOfPassInv ==
  ASSUME NodeInv, NEW second \in BOOLEAN, EndOfPass(second)
  PROVE  NodeInv' /\ st'.tx >= st.tx /\ (st'.tx # st.tx => st.keep >= KeepTime)
<1> DEFINE a == SnoSaveCheck(Now)
           b == StartPoll(a)
           c == IF second THEN StPollS(b) ELSE b
<1>1. Good(Now)
  BY DEF NodeInv
<1>2. Good(a) /\ Onward(Now, a) /\ a.st.tx = st.tx /\ a.st.sno <= a.flash.sno + Delta
  BY <1>1, SnoSaveCheckGood DEF Now
<1> HIDE DEF a
<1>3. Good(b) /\ Onward(a, b) /\ b.st.tx = a.st.tx
  BY <1>2, StartPollGood
<1> HIDE DEF b
<1>4. /\ Good(c) /\ c.st.tx >= b.st.tx /\ (c.st.tx = b.st.tx => c.st.sno = b.st.sno)
      /\ \/ c.st.keep = 0
         \/ c.st.tx = b.st.tx /\ c.st.keep <= (IF second THEN b.st.keep + 1 ELSE b.st.keep)
      /\ c.st.tx # b.st.tx => c.st.keep = 0 /\ b.st.keep >= KeepTime
      /\ \/ c.flash.sno = c.st.sno
         \/ c.flash.sno = b.flash.sno /\ c.st.tx = b.st.tx
  <2>1. CASE second
    BY <1>3, <2>1, StPollSGood
  <2>2. CASE ~second
    <3>1. c = b
      BY <2>2
    <3>2. b.st.tx \in Nat /\ b.st.keep \in Int
      BY <1>3, NodeIvAssumption DEF Good, Pairs, States
    <3> QED
      BY <1>3, <2>2, <3>1, <3>2
  <2> QED
    BY <2>1, <2>2
<1> HIDE DEF c
<1>5. Now' = c /\ st' = c.st /\ flash' = c.flash
  BY <1>4, PutIs DEF EndOfPass, a, b, c, Put, Good
<1>6. /\ settled' = sent /\ UNCHANGED <<busy, losses, sent>>
      /\ age' = IF st'.tx # st.tx THEN 0 ELSE IF second /\ age < KeepTime THEN age + 1 ELSE age
  BY DEF EndOfPass, Aged
<1>7. /\ st \in States /\ a \in Pairs /\ b \in Pairs /\ st' \in States /\ flash' \in Misc /\ flash'.iv = st'.tx
      /\ a.flash.iv = a.st.tx
  BY <1>1, <1>2, <1>3, <1>4, <1>5 DEF Good, Pairs, InStep, Now
<1>8. /\ st.tx \in Nat /\ st.sno \in Nat /\ st'.tx \in Nat /\ st'.sno \in Nat /\ flash'.sno \in Nat
      /\ a.st.tx \in Nat /\ a.st.sno \in Nat /\ a.flash.sno \in Nat /\ b.flash.sno \in Nat
      /\ b.st.sno \in Nat /\ Delta \in Nat /\ sent \in (0 .. MaxIv) \X Nat
      /\ age \in 0 .. KeepTime /\ KeepTime \in Nat
      /\ st.keep \in 0 .. KeepTime + 1 /\ b.st.keep \in 0 .. KeepTime + 1 /\ st'.keep \in 0 .. KeepTime + 1
  BY <1>7, NodeIvAssumption DEF Pairs, States, Misc, NodeInv, TypeOK
<1>9. a.st.sno = st.sno /\ b.st.sno = st.sno /\ b.st.keep \in {0, st.keep}
  BY <1>2, <1>3, <1>8 DEF Onward, Now
<1>10. NonceFresh'
  <2>1. st.tx < st'.tx \/ (st.tx = st'.tx /\ st.sno <= st'.sno)
    BY <1>2, <1>3, <1>4, <1>5, <1>8, <1>9
  <2> QED
    BY <1>6, <1>8, <2>1, BelowUp DEF NodeInv, NonceFresh, Nonce
<1>11. SettledFresh'
  <2>1. Below(settled', Nonce(st)')
    BY <1>6, <1>10 DEF NonceFresh
  <2>2. Below(settled', <<flash'.iv, flash'.sno + Delta>>)
    <3>1. CASE flash'.sno = st'.sno
      <4>1. st'.sno <= st'.sno + Delta /\ st'.sno + Delta \in Nat /\ settled' \in (0 .. MaxIv) \X Nat
        BY <1>6, <1>8
      <4>2. Below(settled', <<st'.tx, st'.sno + Delta>>)
        BY <1>8, <2>1, <4>1, BelowUp DEF Nonce
      <4> QED
        BY <1>7, <3>1, <4>2
    <3>2. CASE flash'.sno = b.flash.sno /\ st'.tx = st.tx
      <4>1. st.sno <= flash'.sno + Delta
        BY <1>2, <1>3, <1>8, <1>9, <3>2 DEF Onward
      <4>2. flash'.sno + Delta \in Nat
        BY <1>8
      <4>3. Below(sent, <<st'.tx, flash'.sno + Delta>>)
        BY <1>8, <3>2, <4>1, <4>2, BelowUp DEF NodeInv, NonceFresh, Nonce
      <4> QED
        BY <1>6, <1>7, <4>3
    <3> QED
      BY <1>2, <1>3, <1>4, <1>5, <3>1, <3>2
  <2> QED
    BY <2>1, <2>2 DEF SettledFresh
<1>12. KeepHeld'
  BY <1>2, <1>3, <1>4, <1>5, <1>6, <1>8, <1>9 DEF NodeInv, KeepHeld
<1>13. TypeOK'
  <2>1. 0 \in 0 .. KeepTime /\ (age < KeepTime => age + 1 \in 0 .. KeepTime)
    BY <1>8
  <2> QED
    BY <1>6, <1>7, <1>8, <2>1 DEF NodeInv, TypeOK, Misc
<1>14. st'.tx # st.tx => st.keep >= KeepTime
  BY <1>2, <1>3, <1>4, <1>5, <1>8, <1>9
<1> QED
  BY <1>2, <1>3, <1>4, <1>5, <1>10, <1>11, <1>12, <1>13, <1>14 DEF NodeInv

\* A PDU is sent, after the number was stored when that was still to be done.
LEMMA TransmitInv ==
  ASSUME NodeInv, Transmit
  PROVE  NodeInv' /\ st'.tx = st.tx
<1> DEFINE m == IF st.due THEN [MiscStore(Now) EXCEPT !.st.due = FALSE] ELSE Now
           n == [m EXCEPT !.st.sno = @ + 1]
<1>1. /\ st \in States /\ flash \in Misc /\ Now \in Pairs /\ Now.st = st /\ Now.flash = flash
      /\ flash.iv = st.tx /\ st.cur = IF st.proc = 1 THEN st.tx + 1 ELSE st.tx
  BY DEF NodeInv, TypeOK, Misc, Good, Pairs, InStep, Now
<1>2. /\ st.tx \in Nat /\ st.sno \in Nat /\ flash.sno \in Nat /\ Delta \in Nat
      /\ sent \in (0 .. MaxIv) \X Nat /\ settled \in (0 .. MaxIv) \X Nat /\ st.tx \in 0 .. MaxIv
  BY <1>1, NodeIvAssumption DEF States, Misc, NodeInv, TypeOK
<1>3. /\ m \in Pairs /\ m.st.cur = st.cur /\ m.st.tx = st.tx /\ m.st.proc = st.proc /\ m.st.keep = st.keep
      /\ m.st.sno = st.sno /\ m.flash.iv = st.tx /\ m.st.last = m.flash.sno
      /\ m.flash.sno = st.sno \/ m.flash.sno = flash.sno
  <2>1. CASE st.due
    <3> DEFINE p == MiscStore(Now)
    <3>1. st.proc = 1 => st.cur > 0
      BY <1>1, <1>2
    <3>2. /\ p \in Pairs /\ p.st = [st EXCEPT !.last = st.sno] /\ p.flash.sno = st.sno
          /\ p.flash.iv = IF st.proc = 1 THEN st.cur - 1 ELSE st.cur
      BY <1>1, <3>1, MiscStoreIs
    <3>3. m = [p EXCEPT !.st.due = FALSE]
      BY <2>1
    <3> HIDE DEF p, m
    <3>4. /\ p.st \in States /\ p.st.cur = st.cur /\ p.st.tx = st.tx /\ p.st.proc = st.proc
          /\ p.st.keep = st.keep /\ p.st.sno = st.sno /\ p.st.last = st.sno
      BY <1>1, <3>2 DEF Pairs, States
    <3>5. p.flash.iv = st.tx
      BY <1>1, <1>2, <3>2
    <3>6. /\ m \in Pairs /\ m.flash = p.flash /\ m.st.cur = p.st.cur /\ m.st.tx = p.st.tx
          /\ m.st.proc = p.st.proc /\ m.st.keep = p.st.keep /\ m.st.sno = p.st.sno /\ m.st.last = p.st.last
      BY <3>2, <3>3, <3>4 DEF Pairs, States
    <3> QED
      BY <3>2, <3>4, <3>5, <3>6
  <2>2. CASE ~st.due
    <3>1. m = Now
      BY <2>2
    <3>2. st.last = flash.sno
      BY <1>1, <2>2 DEF NodeInv, Good, Saved
    <3> QED
      BY <1>1, <3>1, <3>2
  <2> QED
    BY <2>1, <2>2
<1> HIDE DEF m
<1>4. /\ n \in Pairs /\ n.st.cur = st.cur /\ n.st.tx = st.tx /\ n.st.proc = st.proc /\ n.st.keep = st.keep
      /\ n.st.sno = st.sno + 1 /\ n.flash = m.flash /\ n.st.last = m.st.last
  BY <1>2, <1>3 DEF Pairs, States
<1>5. Put(n) /\ sent' = (IF Below(sent, Nonce(st)) THEN Nonce(st) ELSE sent)
      /\ UNCHANGED <<busy, losses, settled, age>>
  BY DEF Transmit, m
<1> HIDE DEF n
<1>6. Now' = n /\ st' = n.st /\ flash' = n.flash
  BY <1>4, <1>5, PutIs DEF Put
<1>7. Good(Now)'
  BY <1>1, <1>3, <1>4, <1>6 DEF Good, InStep, Saved, Now
<1>8. sent' = <<st.tx, st.sno>> /\ sent' \in (0 .. MaxIv) \X Nat
  BY <1>2, <1>5 DEF NodeInv, NonceFresh, Nonce
<1>9. NonceFresh'
  BY <1>2, <1>4, <1>6, <1>8 DEF NonceFresh, Nonce, Below
<1>10. SettledFresh'
  <2>1. Below(settled, <<st'.tx, st'.sno>>)
    BY <1>2, <1>4, <1>6, BelowUp DEF NodeInv, SettledFresh, Nonce
  <2>2. Below(settled, <<st.tx, flash'.sno + Delta>>)
    <3>1. flash'.sno = st.sno \/ flash'.sno = flash.sno
      BY <1>3, <1>4, <1>6
    <3>2. CASE flash'.sno = st.sno
      BY <1>2, <3>2, BelowUp DEF NodeInv, SettledFresh, Nonce
    <3>3. CASE flash'.sno = flash.sno
      BY <1>1, <3>3 DEF NodeInv, SettledFresh
    <3> QED
      BY <3>1, <3>2, <3>3
  <2> QED
    BY <1>3, <1>4, <1>5, <1>6, <2>1, <2>2 DEF SettledFresh, Nonce
<1>11. TypeOK' /\ KeepHeld'
  BY <1>4, <1>5, <1>6, <1>8 DEF NodeInv, TypeOK, KeepHeld, Pairs, Misc
<1> QED
  BY <1>4, <1>6, <1>7, <1>9, <1>10, <1>11 DEF NodeInv

\* A power loss and the restart from flash.
LEMMA PowerLossInv ==
  ASSUME NodeInv, PowerLoss
  PROVE  NodeInv' /\ st'.tx = st.tx
<1>1. flash \in Misc /\ flash.iv = st.tx /\ flash.iv \in 0 .. MaxIv /\ flash.sno \in Nat /\ Delta \in Nat
  BY NodeIvAssumption DEF NodeInv, TypeOK, Misc, Good, InStep, Now
<1>2. /\ st' = Restart(flash) /\ flash' = flash /\ sent' = settled /\ settled' = settled
      /\ age' = 0 /\ busy' = FALSE /\ losses' \in 0 .. MaxLosses
  BY NodeIvAssumption DEF PowerLoss, NodeInv, TypeOK
<1>3. /\ st' \in States /\ st'.cur = flash.iv /\ st'.tx = flash.iv /\ st'.proc = 0 /\ st'.keep = 0
      /\ st'.sno = flash.sno + Delta /\ st'.last = st'.sno /\ st'.due
  <2>1. 0 \in 0 .. 2 /\ 0 \in 0 .. KeepTime + 1 /\ flash.sno + Delta \in Nat /\ flash.trigger \in BOOLEAN
    BY <1>1, NodeIvAssumption DEF Misc
  <2> QED
    BY <1>1, <1>2, <2>1 DEF Restart, States
<1>4. Good(Now)'
  BY <1>1, <1>2, <1>3 DEF Good, Pairs, InStep, Saved, Now
<1>5. NonceFresh' /\ SettledFresh'
  BY <1>2, <1>3 DEF NodeInv, SettledFresh, NonceFresh, Nonce
<1>6. TypeOK'
  <2>1. settled \in (0 .. MaxIv) \X Nat /\ 0 \in 0 .. KeepTime /\ FALSE \in BOOLEAN
    BY NodeIvAssumption DEF NodeInv, TypeOK
  <2> QED
    BY <1>1, <1>2, <1>3, <2>1 DEF TypeOK, Misc
<1>7. KeepHeld'
  BY <1>2, <1>3 DEF KeepHeld
<1> QED
  BY <1>1, <1>3, <1>4, <1>5, <1>6, <1>7 DEF NodeInv

\* Provisioning.
LEMMA InitInv ==
  ASSUME Init
  PROVE  NodeInv
<1> DEFINE blank == [st |-> Blank, flash |-> Stored(Blank)]
<1>1. /\ Blank \in States /\ Blank.cur = 0 /\ Blank.tx = 0 /\ Blank.proc = 0 /\ Blank.keep = 0
      /\ Blank.sno = 1
  <2> DEFINE r == Restart([iv |-> 0, sno |-> 0, trigger |-> FALSE])
  <2>1. 0 \in 0 .. 2 /\ 0 \in 0 .. KeepTime + 1 /\ 0 + Delta \in Nat /\ 0 \in 0 .. MaxIv
    BY NodeIvAssumption
  <2>2. /\ r \in States /\ r.cur = 0 /\ r.tx = 0 /\ r.proc = 0 /\ r.keep = 0
    BY <2>1 DEF Restart, States
  <2>3. Blank = [r EXCEPT !.due = FALSE, !.sno = 1]
    BY DEF Blank
  <2> HIDE DEF r
  <2> QED
    BY <2>2, <2>3 DEF States
<1>2. blank \in Pairs /\ blank.st = Blank /\ blank.flash.iv = 0
  <2>1. Stored(Blank) \in Misc /\ Stored(Blank).iv = 0
    BY <1>1 DEF Stored, Misc, States
  <2> QED
    BY <1>1, <2>1 DEF Pairs
<1> HIDE DEF blank
<1>3. PICK m : /\ st = m.st /\ flash = m.flash
               /\ \/ m = [IvIdxInit(blank, 1, TRUE, TRUE) EXCEPT !.st.searching = TRUE]
                  \/ m = SetWithUpdateFlag(blank, 2)
  BY DEF Init, blank
<1>4. m \in Pairs /\ InStep(m) /\ m.st.keep = 0 /\ m.st.tx = 1 /\ m.st.sno = 1
      /\ m.flash.sno = 1 /\ m.st.last = 1
  <2> DEFINE p == IvIdxInit(blank, 1, TRUE, TRUE)
  <2>0. 1 \in 0 .. MaxIv /\ 2 \in 0 .. MaxIv
    BY NodeIvAssumption
  <2>1. IndexSet(p, blank, 1, TRUE, TRUE)
    BY <1>2, <2>0, IvIdxInitIs
  <2>2. /\ p \in Pairs /\ p.st.cur = 1 /\ p.st.tx = 1 /\ p.st.proc = 0 /\ p.st.keep = 0 /\ p.st.sno = 1
        /\ p.st.last = 1 /\ p.flash.sno = 1 /\ p.flash.iv = 1
    <3> HIDE DEF p
    <3> QED
      BY <2>1 DEF IndexSet
  <2>3. CASE m = [p EXCEPT !.st.searching = TRUE]
    <3> HIDE DEF p
    <3> DEFINE s == [p.st EXCEPT !.searching = TRUE]
    <3>1. p.st \in States /\ p.flash \in Misc
      BY <2>2 DEF Pairs
    <3>2. /\ s \in States /\ s.cur = 1 /\ s.tx = 1 /\ s.proc = 0 /\ s.keep = 0 /\ s.sno = 1
          /\ s.last = 1
      BY <2>2, <3>1 DEF States
    <3>3. m = [p EXCEPT !.st = s]
      BY <2>3
    <3> HIDE DEF s
    <3>4. m \in Pairs /\ m.st = s /\ m.flash = p.flash
      BY <2>2, <3>2, <3>3 DEF Pairs
    <3> QED
      BY <2>2, <3>2, <3>4 DEF InStep
  <2>4. CASE m = SetWithUpdateFlag(blank, 2)
    <3> DEFINE q == [p EXCEPT !.st.cur = 2]
    <3>1. m = SetStartFlag(q, FALSE)
      <4>1. (2 - 1 # blank.st.cur) = TRUE /\ 2 - 1 = 1
        BY <1>1, <1>2
      <4> QED
        BY <2>4, <4>1 DEF SetWithUpdateFlag
    <3> HIDE DEF p
    <3>2. /\ q \in Pairs /\ q.st.cur = 2 /\ q.st.tx = 1 /\ q.st.sno = 1 /\ q.st.last = 1
          /\ q.flash.sno = 1 /\ q.flash.iv = 1
      BY <2>0, <2>2 DEF Pairs, States
    <3> HIDE DEF q
    <3>3. q.st.cur = q.st.tx + 1 /\ q.flash.iv = q.st.tx
      BY <3>2
    <3>4. Started(m, q)
      BY <3>1, <3>2, <3>3, SetStartFlagIs
    <3> QED
      BY <3>2, <3>4 DEF Started
  <2> QED
    BY <1>3, <2>3, <2>4
<1>5. st \in States /\ flash \in Misc /\ Good(Now)
  BY <1>3, <1>4 DEF Good, Pairs, InStep, Saved, Now
<1>6. sent = <<0, 0>> /\ settled = <<0, 0>> /\ age = 0 /\ busy = FALSE /\ losses = 0
  BY DEF Init
<1>7. 0 \in 0 .. MaxIv /\ 0 \in 0 .. MaxLosses /\ 0 \in 0 .. KeepTime /\ Delta \in Nat
  BY NodeIvAssumption
<1>8. TypeOK /\ KeepHeld
  <2>1. <<0, 0>> \in (0 .. MaxIv) \X Nat /\ FALSE \in BOOLEAN
    BY <1>7
  <2>2. TypeOK
    BY <1>5, <1>6, <1>7, <2>1 DEF TypeOK, Misc
  <2> QED
    BY <1>3, <1>4, <1>6, <2>2 DEF KeepHeld
<1>9. flash.iv = 1 /\ st.tx = 1 /\ st.sno = 1
  BY <1>3, <1>4, <1>5 DEF Good, InStep, Now
<1>10. NonceFresh /\ SettledFresh
  BY <1>6, <1>9 DEF NonceFresh, SettledFresh, Nonce, Below
<1> QED
  BY <1>5, <1>8, <1>10 DEF NodeInv

\* Every step keeps the invariant; the index sent with does not go back, and
\* changes out of search mode only when it was kept long enough.
LEMMA StepInv ==
  ASSUME NodeInv, [Next]_vars
  PROVE  /\ NodeInv' /\ st'.tx >= st.tx
         /\ losses' # losses => st'.tx = st.tx
         /\ ~st.searching /\ st'.tx # st.tx => st.keep >= KeepTime
<1>1. st.tx \in Nat
  BY NodeIvAssumption DEF NodeInv, TypeOK, States
<1>2. CASE Transmit
  BY <1>1, <1>2, TransmitInv DEF Transmit
<1>3. ASSUME NEW iv \in 0 .. MaxIv, NEW update \in BOOLEAN, NEW subnet \in BOOLEAN,
             Beacon(iv, update, subnet)
      PROVE  /\ NodeInv' /\ st'.tx >= st.tx /\ losses' = losses
             /\ ~st.searching /\ st'.tx # st.tx => st.keep >= KeepTime
  <2>1. NodeInv' /\ Onward(Now, Now') /\ (~st.searching /\ st'.tx # st.tx => st.keep >= KeepTime)
    BY <1>3, BeaconInv
  <2>2. st'.tx \in Nat
    BY <2>1, NodeIvAssumption DEF NodeInv, TypeOK, States
  <2>3. st'.tx >= st.tx
    BY <1>1, <2>1, <2>2 DEF Onward, Now
  <2> QED
    BY <1>3, <2>1, <2>3 DEF Beacon
<1>4. ASSUME NEW second \in BOOLEAN, EndOfPass(second)
      PROVE  /\ NodeInv' /\ st'.tx >= st.tx /\ losses' = losses
             /\ ~st.searching /\ st'.tx # st.tx => st.keep >= KeepTime
  BY <1>4, EndOfPassInv DEF EndOfPass
<1>5. CASE FlowBegins \/ FlowEnds \/ UNCHANGED vars
  <2>1. UNCHANGED <<st, flash, losses, sent, settled, age>> /\ busy' \in BOOLEAN
    BY <1>5 DEF FlowBegins, FlowEnds, vars, NodeInv, TypeOK
  <2> QED
    BY <1>1, <2>1 DEF NodeInv, TypeOK, Good, Pairs, InStep, Saved, Now, NonceFresh, Nonce, SettledFresh, KeepHeld
<1>6. CASE PowerLoss
  BY <1>1, <1>6, PowerLossInv
<1> QED
  BY <1>2, <1>3, <1>4, <1>5, <1>6 DEF Next

\* The node never sends two PDUs of ended passes with one nonce, through restarts and
\* index updates, whatever MESH_CMD_SNO_SAVE_DELTA and the other constants are.
THEOREM NoncesAreFresh == Spec => []NonceFresh
<1>1. Init => NodeInv
  BY InitInv
<1>2. NodeInv /\ [Next]_vars => NodeInv'
  BY StepInv
<1>3. NodeInv => NonceFresh
  BY DEF NodeInv
<1> QED
  BY <1>1, <1>2, <1>3, PTL DEF Spec

\* Each variable has its type: no handler takes iv_idx_st out of its range.
THEOREM TypeCorrect == Spec => []TypeOK
<1>1. Init => NodeInv
  BY InitInv
<1>2. NodeInv /\ [Next]_vars => NodeInv'
  BY StepInv
<1>3. NodeInv => TypeOK
  BY DEF NodeInv
<1> QED
  BY <1>1, <1>2, <1>3, PTL DEF Spec

\* The index sent with never goes back, and a restart resumes with it.
THEOREM IndexIsKept == Spec => IvKept
<1>1. Init => NodeInv
  BY InitInv
<1>2. NodeInv /\ [Next]_vars => NodeInv'
  BY StepInv
<1>3. NodeInv /\ [Next]_vars => [st'.tx >= st.tx /\ (losses' # losses => st'.tx = st.tx)]_vars
  BY StepInv
<1> QED
  BY <1>1, <1>2, <1>3, PTL DEF Spec, IvKept

\* Out of search mode an index is sent with for KeepTime before the next one.
THEOREM IndexHeldLongEnough == Spec => HeldLongEnough
<1>1. Init => NodeInv
  BY InitInv
<1>2. NodeInv /\ [Next]_vars => NodeInv'
  BY StepInv
<1>3. NodeInv /\ [Next]_vars => [(st'.tx # st.tx /\ ~st.searching) => age >= KeepTime]_vars
  <2> SUFFICES ASSUME NodeInv, [Next]_vars, st'.tx # st.tx, ~st.searching
               PROVE  age >= KeepTime
    OBVIOUS
  <2>1. st.keep >= KeepTime
    BY StepInv
  <2>2. st.keep <= age \/ age = KeepTime
    BY DEF NodeInv, KeepHeld
  <2>3. st.keep \in Int /\ age \in Int /\ KeepTime \in Int
    BY NodeIvAssumption DEF NodeInv, TypeOK, States
  <2> QED
    BY <2>1, <2>2, <2>3
<1> QED
  BY <1>1, <1>2, <1>3, PTL DEF Spec, HeldLongEnough

-----------------------------------------------------------------------------
(* NodeIv: liveness.  The provers reason about WF and SF, not about the     *)
(* ENABLED in them, so that the theorem assumes GuardsSuffice.              *)

\* A pass of a second brings a step of an update nearer to its end, and begins an update when
\* the numbers are used up.
LEMMA EndOfPassStages ==
  ASSUME NodeInv, NEW second \in BOOLEAN, EndOfPass(second)
  PROVE  /\ Stages(Now, Now')
         /\ second /\ ~busy /\ st.proc # 0 /\ st'.proc = st.proc /\ st'.cur = st.cur
              => st'.keep > st.keep
         /\ second /\ ~busy /\ st.proc = 0 /\ Exhausted(st) /\ st.cur # MaxIv => st'.cur > st.cur
<1> DEFINE a == SnoSaveCheck(Now)
           b == StartPoll(a)
           c == IF second THEN StPollS(b) ELSE b
<1>1. Good(Now) /\ Now.st = st
  BY DEF NodeInv, Now
<1>2. /\ Good(a) /\ Onward(Now, a) /\ a.st.cur = st.cur /\ a.st.proc = st.proc
      /\ a.st.tx = st.tx
  BY <1>1, SnoSaveCheckGood
<1> HIDE DEF a
<1>3. /\ Good(b) /\ Onward(a, b)
      /\ Exhausted(a.st) /\ ~busy /\ a.st.proc = 0 /\ a.st.cur # MaxIv => b.st.cur = a.st.cur + 1
  BY <1>2, StartPollGood
<1> HIDE DEF b
<1>4. /\ Good(c) /\ Stages(b, c)
      /\ second /\ ~busy /\ b.st.proc # 0 /\ c.st.proc = b.st.proc => c.st.keep = b.st.keep + 1
  <2>1. CASE second
    BY <1>3, <2>1, StPollSGood
  <2>2. CASE ~second
    BY <1>3, <2>2, OnwardSame DEF Onward
  <2> QED
    BY <2>1, <2>2
<1> HIDE DEF c
<1>5. Now' = c /\ st' = c.st
  BY <1>4, PutIs DEF EndOfPass, a, b, c, Put, Good
<1>6. /\ Now \in Pairs /\ a \in Pairs /\ b \in Pairs /\ c \in Pairs
      /\ Stages(Now, a) /\ Stages(a, b) /\ Stages(b, c)
  BY <1>1, <1>2, <1>3, <1>4 DEF Good, Onward
<1>7. Stages(Now, b) /\ Stages(Now, c)
  BY <1>6, StagesTwice
<1>8. /\ st.cur \in Nat /\ b.st.cur \in Nat /\ c.st.cur \in Nat
      /\ st.keep \in Int /\ b.st.keep \in Int /\ c.st.keep \in Int
      /\ st.proc \in 0 .. 2 /\ b.st.proc \in 0 .. 2 /\ st.tx \in Nat
  BY <1>1, <1>6, NodeIvAssumption DEF Pairs, States
<1>9. ASSUME second, ~busy, st.proc # 0, st'.proc = st.proc, st'.cur = st.cur
      PROVE  st'.keep > st.keep
  <2>1. b.st.cur = st.cur /\ c.st.cur = b.st.cur
    BY <1>1, <1>5, <1>6, <1>7, <1>8, <1>9 DEF Stages
  <2>2. b.st.proc = st.proc
    <3>1. c.st.proc = 1 => b.st.proc = 1
      BY <1>6, <2>1 DEF Stages
    <3>2. b.st.proc = 1 => st.proc = 1
      BY <1>1, <1>7, <2>1 DEF Stages
    <3>3. c.st.proc = 2 => b.st.proc # 0
      BY <1>6, <2>1 DEF Stages
    <3> QED
      BY <1>5, <1>8, <1>9, <3>1, <3>2, <3>3
  <2>3. b.st.keep >= st.keep /\ c.st.keep = b.st.keep + 1
    BY <1>1, <1>4, <1>5, <1>7, <1>9, <2>1, <2>2 DEF Stages
  <2> QED
    BY <1>5, <1>8, <2>3
<1>10. ASSUME second, ~busy, st.proc = 0, Exhausted(st), st.cur # MaxIv
       PROVE  st'.cur > st.cur
  <2>1. a.st.sno = st.sno
    BY <1>1, <1>2, <1>8 DEF Onward
  <2>2. b.st.cur = st.cur + 1
    BY <1>2, <1>3, <1>10, <2>1 DEF Exhausted
  <2> QED
    BY <1>5, <1>6, <1>8, <2>2 DEF Stages
<1> QED
  BY <1>5, <1>7, <1>9, <1>10

\* A node that has used up its numbers, and can still take an index or is about to.
Wanting == Exhausted(st) /\ (st.cur < MaxIv \/ st.proc = 1)

\* How a step of the system changes the stage of an update.
Goes ==
  /\ st.proc # 0 /\ st'.proc = st.proc => st'.cur > st.cur \/ (st'.cur = st.cur /\ st'.keep >= st.keep)
  /\ Wanting =>
       \/ ~Exhausted(st)'
       \/ losses' = losses + 1 /\ Wanting'
       \/ /\ Wanting' /\ losses' = losses
          /\ st.proc = 1 => st'.proc = 1
          /\ st.proc = 0 => st'.proc # 2

\* What a handler does to the stage of the update, without a power loss.
LEMMA StagesGo ==
  ASSUME NodeInv, Good(Now)', Stages(Now, Now'), losses' = losses
  PROVE  Goes
<1>1. /\ st.cur \in 0 .. MaxIv /\ st'.cur \in 0 .. MaxIv /\ MaxIv \in Nat
      /\ st.proc \in 0 .. 2 /\ st'.proc \in 0 .. 2 /\ st.keep \in Int /\ st'.keep \in Int
      /\ Now.st = st /\ Now'.st = st' /\ st.sno \in Nat /\ st'.sno \in Nat
  BY NodeIvAssumption DEF NodeInv, Good, Pairs, States, Now
<1>2. st.proc # 0 /\ st'.proc = st.proc => st'.cur > st.cur \/ (st'.cur = st.cur /\ st'.keep >= st.keep)
  BY <1>1 DEF Stages
<1>3. ASSUME Wanting, Exhausted(st')
      PROVE  Wanting' /\ (st.proc = 1 => st'.proc = 1) /\ (st.proc = 0 => st'.proc # 2)
  BY <1>1, <1>3 DEF Stages, Wanting, Exhausted
<1> QED
  BY <1>2, <1>3 DEF Goes

\* What a step does to the stage of the update.
LEMMA NodeGoes ==
  ASSUME NodeInv, [Next]_vars
  PROVE  Goes
<1>1. /\ st.cur \in 0 .. MaxIv /\ st.tx \in 0 .. MaxIv /\ MaxIv \in Nat /\ st \in States
      /\ st.proc \in 0 .. 2 /\ st.keep \in Int /\ st.sno \in Nat
      /\ st.cur = (IF st.proc = 1 THEN st.tx + 1 ELSE st.tx) /\ flash.iv = st.tx
  BY NodeIvAssumption DEF NodeInv, Good, Pairs, States, Now, InStep
<1>2. Good(Now)'
  BY StepInv DEF NodeInv
<1>3. CASE Transmit
  <2> DEFINE m == IF st.due THEN [MiscStore(Now) EXCEPT !.st.due = FALSE] ELSE Now
  <2>1. m.st \in States /\ m.st.cur = st.cur /\ m.st.proc = st.proc /\ m.st.keep = st.keep
    <3>1. Now \in Pairs /\ Now.st = st
      BY DEF NodeInv, Good, Now
    <3>2. st.proc = 1 => st.cur > 0
      BY <1>1
    <3>3. MiscStore(Now) \in Pairs /\ MiscStore(Now).st = [st EXCEPT !.last = st.sno]
      BY <3>1, <3>2, MiscStoreIs
    <3>4. CASE st.due
      <4> DEFINE s == [st EXCEPT !.last = st.sno, !.due = FALSE]
      <4>1. m = [MiscStore(Now) EXCEPT !.st.due = FALSE]
        BY <3>4
      <4>2. m.st = [MiscStore(Now).st EXCEPT !.due = FALSE]
        BY <3>3, <4>1 DEF Pairs
      <4> HIDE DEF m
      <4>3. MiscStore(Now).st \in States
        BY <3>3 DEF Pairs
      <4>4. /\ MiscStore(Now).st.cur = st.cur /\ MiscStore(Now).st.proc = st.proc
            /\ MiscStore(Now).st.keep = st.keep
        BY <1>1, <3>3 DEF States
      <4> HIDE DEF s
      <4> QED
        BY <4>2, <4>3, <4>4 DEF States
    <3>5. CASE ~st.due
      BY <1>1, <3>1, <3>5
    <3> QED
      BY <3>4, <3>5
  <2>2. st' = [m EXCEPT !.st.sno = @ + 1].st
    BY <1>3 DEF Transmit, Put
  <2>3. st'.cur = st.cur /\ st'.proc = st.proc /\ st'.keep = st.keep /\ losses' = losses
    <3>1. st' = [m.st EXCEPT !.sno = @ + 1]
      <4>1. m = [st |-> m.st, flash |-> m.flash]
        BY DEF Now, MiscStore
      <4> HIDE DEF m
      <4> QED
        BY <2>2, <4>1
    <3> HIDE DEF m
    <3> QED
      BY <1>3, <2>1, <3>1 DEF Transmit, States
  <2> QED
    BY <1>1, <2>3 DEF Goes, Wanting
<1>4. ASSUME NEW iv \in 0 .. MaxIv, NEW update \in BOOLEAN, NEW subnet \in BOOLEAN,
             Beacon(iv, update, subnet)
      PROVE  Goes
  <2>1. Onward(Now, Now')
    BY <1>4, BeaconInv
  <2> QED
    BY <1>2, <1>4, <2>1, StagesGo DEF Onward, Beacon
<1>5. ASSUME NEW second \in BOOLEAN, EndOfPass(second) PROVE Goes
  <2>1. Stages(Now, Now')
    BY <1>5, EndOfPassStages
  <2> QED
    BY <1>2, <1>5, <2>1, StagesGo DEF EndOfPass
<1>6. CASE FlowBegins \/ FlowEnds \/ UNCHANGED vars
  <2>1. st' = st /\ losses' = losses
    BY <1>6 DEF FlowBegins, FlowEnds, vars
  <2> QED
    BY <1>1, <2>1 DEF Goes, Wanting
<1>7. CASE PowerLoss
  <2>1. st'.proc = 0 /\ st'.cur = flash.iv /\ losses' = losses + 1
    BY <1>7 DEF PowerLoss, Restart
  <2>2. Wanting => st'.cur < MaxIv
    BY <1>1, <2>1 DEF Wanting
  <2> QED
    BY <2>1, <2>2 DEF Goes, Wanting
<1> QED
  BY <1>3, <1>4, <1>5, <1>6, <1>7 DEF Next

\* How far a step of an update is from its end: the seconds to keep the index, and the indexes
\* that beacons can still bring, each of which begins the step again.
Distance == (KeepTime + 2) * (MaxIv - st.cur) + (KeepTime + 1 - st.keep)

\* A product grows with its second factor by at least the first.
LEMMA Product ==
  ASSUME NEW p \in Nat, NEW x \in Nat, NEW y \in Nat, x < y
  PROVE  p * x \in Nat /\ p * y \in Nat /\ p * x + p <= p * y
<1>1. p * x \in Nat /\ p * y \in Nat /\ p * (y - x) \in Nat
  OBVIOUS
<1>2. p * y = p * x + p * (y - x)
  OBVIOUS
<1>3. p * (y - x) >= p
  OBVIOUS
<1> QED
  BY <1>1, <1>2, <1>3

\* The distance to the end of an update is a number.
LEMMA DistanceIsNat ==
  ASSUME NodeInv
  PROVE  Distance \in Nat /\ Distance <= (KeepTime + 2) * MaxIv + KeepTime + 1
<1>1. /\ st.cur \in 0 .. MaxIv /\ st.keep \in 0 .. KeepTime + 1 /\ KeepTime \in Nat /\ MaxIv \in Nat
      /\ KeepTime + 2 \in Nat
  BY NodeIvAssumption DEF NodeInv, TypeOK, States
<1> DEFINE p == KeepTime + 2
<1>2. MaxIv - st.cur \in Nat /\ p \in Nat
  BY <1>1
<1> HIDE DEF p
<1>3. p * (MaxIv - st.cur) \in Nat /\ p * MaxIv \in Nat /\ p * (MaxIv - st.cur) <= p * MaxIv
  <2>1. CASE MaxIv - st.cur < MaxIv
    BY <1>1, <1>2, <2>1, Product
  <2>2. CASE MaxIv - st.cur = MaxIv
    BY <1>1, <1>2, <2>2
  <2> QED
    BY <1>1, <2>1, <2>2
<1> QED
  BY <1>1, <1>3 DEF Distance, p

\* While the update stays in its step it never grows, and a pass that finds no flow makes it less.
LEMMA DistanceFalls ==
  ASSUME NodeInv, [Next]_vars, st.proc # 0, st'.proc = st.proc
  PROVE  Distance' <= Distance /\ (QuietPass => Distance' < Distance)
<1>1. /\ st.cur \in 0 .. MaxIv /\ st'.cur \in 0 .. MaxIv /\ MaxIv \in Nat
      /\ st.keep \in 0 .. KeepTime + 1 /\ st'.keep \in 0 .. KeepTime + 1 /\ KeepTime \in Nat
  BY StepInv, NodeIvAssumption DEF NodeInv, TypeOK, States
<1>2. st'.cur > st.cur \/ (st'.cur = st.cur /\ st'.keep >= st.keep)
  BY NodeGoes DEF Goes
<1>3. QuietPass => st'.cur > st.cur \/ (st'.cur = st.cur /\ st'.keep > st.keep)
  BY <1>2, EndOfPassStages DEF QuietPass
<1> DEFINE p == KeepTime + 2
<1>4. p \in Nat /\ MaxIv - st.cur \in Nat /\ MaxIv - st'.cur \in Nat
  BY <1>1
<1>5. CASE st'.cur > st.cur
  <2>1. MaxIv - st'.cur < MaxIv - st.cur
    BY <1>1, <1>5
  <2> HIDE DEF p
  <2>2. /\ p * (MaxIv - st'.cur) \in Nat /\ p * (MaxIv - st.cur) \in Nat
        /\ p * (MaxIv - st'.cur) + p <= p * (MaxIv - st.cur)
    BY <1>4, <2>1, Product
  <2>3. Distance' = p * (MaxIv - st'.cur) + (KeepTime + 1 - st'.keep)
    BY DEF Distance, p
  <2>4. Distance = p * (MaxIv - st.cur) + (KeepTime + 1 - st.keep)
    BY DEF Distance, p
  <2>5. p = KeepTime + 2
    BY DEF p
  <2> QED
    BY <1>1, <2>2, <2>3, <2>4, <2>5
<1>6. CASE st'.cur = st.cur
  <2> HIDE DEF p
  <2>1. p * (MaxIv - st.cur) \in Int
    BY <1>4
  <2>2. Distance' = p * (MaxIv - st.cur) + (KeepTime + 1 - st'.keep)
    BY <1>6 DEF Distance, p
  <2>3. Distance = p * (MaxIv - st.cur) + (KeepTime + 1 - st.keep)
    BY DEF Distance, p
  <2> QED
    BY <1>1, <1>2, <1>3, <1>6, <2>1, <2>2, <2>3
<1> QED
  BY <1>2, <1>5, <1>6

\* Induction over the natural numbers, for what is the case of those where a function is 1.
LEMMA Induction ==
  ASSUME NEW F, F[0] = 1, \A n \in Nat : F[n] = 1 => F[n + 1] = 1
  PROVE  \A n \in Nat : F[n] = 1
<1> SUFFICES ASSUME NEW k \in Nat, F[k] # 1 PROVE FALSE
  OBVIOUS
<1> DEFINE S == {n \in Nat : F[n] # 1}
<1>1. PICK m \in S : \A j \in S : <<j, m>> \notin OpToRel(<, Nat)
  BY NatLessThanWellFounded, WFMin
<1>2. m \in Nat /\ m # 0
  BY <1>1
<1> HIDE DEF S
<1>3. m - 1 \in Nat /\ m - 1 < m /\ (m - 1) + 1 = m
  BY <1>2
<1>4. m - 1 \notin S
  BY <1>1, <1>2, <1>3 DEF OpToRel
<1> QED
  BY <1>1, <1>3, <1>4 DEF S

\* Says nothing of f, and lets a proof name it.
Named(f) == TRUE

\* NodeInv, and no flow is under way forever.
LEMMA QuietAgain ==
  FairSpec /\ []GuardsSuffice => []NodeInv /\ []<>~busy
<1>1. FairSpec => []NodeInv
  BY InitInv, StepInv, PTL DEF FairSpec, Spec
<1>2. <<FlowEnds>>_vars => ~busy'
  BY DEF FlowEnds
<1>3. GuardsSuffice /\ busy => ENABLED <<FlowEnds>>_vars
  BY DEF GuardsSuffice
<1> QED
  BY <1>1, <1>2, <1>3, PTL DEF FairSpec, Fairness

\* One second less, or one index less.
LEMMA StepNearer ==
  ASSUME NEW c \in {1, 2}, NEW n \in Nat
  PROVE  FairSpec /\ []GuardsSuffice
            => ((st.proc = c /\ Distance = n) ~> (st.proc # c \/ Distance < n))
<1> DEFINE A == st.proc = c
           P == Distance = n
           L == Distance < n
           N == st.proc # c
<1>0. N <=> ~A
  OBVIOUS
<1>1. (NodeInv => Distance \in Nat)'
  BY DistanceIsNat, PTL
<1>2. NodeInv /\ [Next]_vars /\ A /\ P => ~A' \/ L' \/ P'
  BY <1>1, StepInv, DistanceFalls
<1>3. NodeInv /\ [Next]_vars /\ <<QuietPass>>_vars /\ A /\ P => ~A' \/ L'
  BY DistanceFalls
<1>4. GuardsSuffice /\ A /\ ~busy => ENABLED <<QuietPass>>_vars
  BY DEF GuardsSuffice
<1>5. FairSpec => [][Next]_vars /\ SF_vars(QuietPass)
  BY PTL DEF FairSpec, Spec, Fairness
<1> HIDE DEF A, P, L, N
<1>6. FairSpec /\ []GuardsSuffice => ((A /\ P) ~> (N \/ L))
  BY <1>0, <1>2, <1>3, <1>4, <1>5, QuietAgain, PTL
<1> QED
  BY <1>6 DEF A, P, L, N

Leaves(c, n) == (st.proc = c /\ Distance < n) ~> (st.proc # c)
Halts(c) == (st.proc = c) ~> (st.proc # c)

\* A step of an update ends, through beacons that begin it again with a higher index.
LEMMA StagesEnd ==
  ASSUME NEW c \in {1, 2}
  PROVE  FairSpec /\ []GuardsSuffice => Halts(c)
<1> DEFINE Most == (KeepTime + 2) * MaxIv + KeepTime + 2
<1>a. KeepTime + 2 \in Nat /\ MaxIv \in Nat /\ KeepTime \in Nat
  BY NodeIvAssumption
<1>1. Most \in Nat
  <2> DEFINE p == KeepTime + 2
  <2>1. p * MaxIv \in Nat
    <3> HIDE DEF p
    <3> QED
      BY <1>a DEF p
  <2> QED
    BY <1>a, <2>1
<1>2. NodeInv => ~(Distance < 0) /\ Distance < Most
  <2> DEFINE q == (KeepTime + 2) * MaxIv
  <2>1. q \in Int
    BY <1>a
  <2>2. NodeInv => Distance \in Nat /\ Distance <= q + KeepTime + 1
    BY DistanceIsNat
  <2>3. Most = q + KeepTime + 2
    OBVIOUS
  <2> HIDE DEF q, Most
  <2> QED
    BY <1>a, <2>1, <2>2, <2>3
<1> HIDE DEF Most
<1>0. st.proc # c <=> ~(st.proc = c)
  OBVIOUS
<1>3. FairSpec /\ []GuardsSuffice => Leaves(c, 0)
  BY <1>2, QuietAgain, PTL DEF Leaves
<1>4. ASSUME NEW n \in Nat
      PROVE  FairSpec /\ []GuardsSuffice /\ Leaves(c, n) => Leaves(c, n + 1)
  <2>1. NodeInv /\ Distance < n + 1 => Distance = n \/ Distance < n
    BY DistanceIsNat
  <2>2. FairSpec /\ []GuardsSuffice
          => ((st.proc = c /\ Distance = n) ~> (st.proc # c \/ Distance < n))
    BY StepNearer
  <2> QED
    BY <1>0, <2>1, <2>2, QuietAgain, PTL DEF Leaves
<1>5. FairSpec /\ []GuardsSuffice => Leaves(c, Most)
  <2> SUFFICES ASSUME FairSpec /\ []GuardsSuffice PROVE Leaves(c, Most)
    OBVIOUS
  <2>1. PICK F : Named(F) /\ \A n \in Nat : F[n] = 1 <=> Leaves(c, n)
    <3>1. Named([n \in Nat |-> IF Leaves(c, n) THEN 1 ELSE 0])
      BY DEF Named
    <3> QED
      BY <3>1
  <2>2. F[0] = 1
    BY <1>3, <2>1
  <2>3. \A n \in Nat : F[n] = 1 => F[n + 1] = 1
    BY <1>4, <2>1
  <2>4. \A n \in Nat : F[n] = 1
    BY <2>2, <2>3, Induction
  <2> QED
    BY <1>1, <2>1, <2>4
<1> QED
  BY <1>2, <1>5, QuietAgain, PTL DEF Leaves, Halts

Lasts(n) == (Wanting /\ MaxLosses - losses < n) ~> ~Exhausted(st)

\* Between two power losses a node that wants numbers gets them: the step that is under way
\* ends, and the next pass begins an update.
LEMMA SessionGives ==
  ASSUME NEW n \in Nat
  PROVE  FairSpec /\ []GuardsSuffice
            => ((Wanting /\ MaxLosses - losses = n)
                  ~> (~Exhausted(st) \/ (Wanting /\ MaxLosses - losses < n)))
<1> DEFINE W == Wanting
           K == MaxLosses - losses = n
           L == MaxLosses - losses < n
           X == Exhausted(st)
           One == st.proc = 1
           Two == st.proc = 2
           NotOne == st.proc # 1
           NotTwo == st.proc # 2
<1>1. NodeInv => st.proc \in 0 .. 2 /\ losses \in Int /\ MaxLosses \in Int
  BY NodeIvAssumption DEF NodeInv, TypeOK, States
<1>2. NodeInv /\ [Next]_vars /\ W /\ K
        => \/ ~X'
           \/ W' /\ L'
           \/ W' /\ K' /\ (One => One') /\ (~One /\ ~Two => ~Two')
  <2> SUFFICES ASSUME NodeInv, [Next]_vars, W, K
               PROVE  \/ ~X'
                      \/ W' /\ L'
                      \/ W' /\ K' /\ (One => One') /\ (~One /\ ~Two => ~Two')
    OBVIOUS
  <2>1. \/ ~Exhausted(st)'
        \/ losses' = losses + 1 /\ Wanting'
        \/ /\ Wanting' /\ losses' = losses
           /\ st.proc = 1 => st'.proc = 1
           /\ st.proc = 0 => st'.proc # 2
    BY NodeGoes DEF Goes
  <2> QED
    BY <1>1, <2>1
<1>3. NodeInv /\ [Next]_vars /\ <<QuietPass>>_vars /\ W /\ ~One /\ ~Two => ~X' \/ One'
  <2> SUFFICES ASSUME NodeInv, QuietPass, W, ~One, ~Two, X' PROVE One'
    OBVIOUS
  <2>1. EndOfPass(TRUE) /\ ~busy
    BY DEF QuietPass
  <2>2. /\ Stages(Now, Now')
        /\ ~busy /\ st.proc = 0 /\ Exhausted(st) /\ st.cur # MaxIv => st'.cur > st.cur
    BY <2>1, EndOfPassStages
  <2>3. st.proc = 0 /\ Exhausted(st) /\ st.cur < MaxIv /\ st.cur \in 0 .. MaxIv /\ MaxIv \in Nat
    BY <1>1, NodeIvAssumption DEF Wanting, NodeInv, TypeOK, States
  <2>4. st'.cur > st.cur /\ st'.cur # st.cur
    BY <2>1, <2>2, <2>3
  <2> QED
    BY <2>2, <2>4 DEF Stages, Now
<1>4. NodeInv /\ GuardsSuffice /\ W /\ ~One /\ ~Two /\ ~busy => ENABLED <<QuietPass>>_vars
  BY <1>1 DEF GuardsSuffice, Wanting
<1>5. FairSpec => [][Next]_vars /\ SF_vars(QuietPass)
  BY PTL DEF FairSpec, Spec, Fairness
<1>6. FairSpec /\ []GuardsSuffice => (One ~> NotOne) /\ (Two ~> NotTwo)
  <2>1. FairSpec /\ []GuardsSuffice => Halts(1) /\ Halts(2)
    BY StagesEnd
  <2> QED
    BY <2>1 DEF Halts
<1>7. W => X
  BY DEF Wanting
<1>8. (One => ~Two) /\ (NotOne <=> ~One) /\ (NotTwo <=> ~Two)
  OBVIOUS
<1> HIDE DEF W, K, L, X, One, Two, NotOne, NotTwo
<1>9. FairSpec /\ []GuardsSuffice => (W /\ K ~> ~X \/ (W /\ L))
  BY <1>2, <1>3, <1>4, <1>5, <1>6, <1>7, <1>8, QuietAgain, PTL
<1> QED
  BY <1>9 DEF W, K, L, X

\* UpdatesGoOn: through beacons, messages under way and power losses, of which there are
\* finitely many, an update ends, and a node whose numbers are used up gets new ones while
\* there is an index left.
THEOREM UpdatesEnd == FairSpec /\ []GuardsSuffice => UpdatesGoOn
<1>1. NodeInv => ~(MaxLosses - losses < 0) /\ MaxLosses - losses < MaxLosses + 1
  BY NodeIvAssumption DEF NodeInv, TypeOK
<1>2. FairSpec /\ []GuardsSuffice => Lasts(0)
  BY <1>1, QuietAgain, PTL DEF Lasts
<1>3. ASSUME NEW n \in Nat
      PROVE  FairSpec /\ []GuardsSuffice /\ Lasts(n) => Lasts(n + 1)
  <2>1. NodeInv /\ MaxLosses - losses < n + 1 => MaxLosses - losses = n \/ MaxLosses - losses < n
    BY NodeIvAssumption DEF NodeInv, TypeOK
  <2> QED
    BY <2>1, QuietAgain, SessionGives, PTL DEF Lasts
<1>4. FairSpec /\ []GuardsSuffice => Lasts(MaxLosses + 1)
  <2> SUFFICES ASSUME FairSpec /\ []GuardsSuffice PROVE Lasts(MaxLosses + 1)
    OBVIOUS
  <2>1. PICK F : Named(F) /\ \A n \in Nat : F[n] = 1 <=> Lasts(n)
    <3>1. Named([n \in Nat |-> IF Lasts(n) THEN 1 ELSE 0])
      BY DEF Named
    <3> QED
      BY <3>1
  <2>2. F[0] = 1
    BY <1>2, <2>1
  <2>3. \A n \in Nat : F[n] = 1 => F[n + 1] = 1
    BY <1>3, <2>1
  <2>4. \A n \in Nat : F[n] = 1
    BY <2>2, <2>3, Induction
  <2>5. MaxLosses + 1 \in Nat
    BY NodeIvAssumption
  <2> QED
    BY <2>1, <2>4, <2>5
<1>5. Exhausted(st) /\ st.cur < MaxIv => Wanting
  BY DEF Wanting
<1>6. FairSpec /\ []GuardsSuffice => GetsFreshNumbers
  BY <1>1, <1>4, <1>5, QuietAgain, PTL DEF Lasts, GetsFreshNumbers
<1>7. FairSpec /\ []GuardsSuffice => UpdateEnds
  <2>1. FairSpec /\ []GuardsSuffice => Halts(1)
    BY StagesEnd
  <2> QED
    BY <2>1 DEF UpdateEnds, Halts
<1> QED
  BY <1>6, <1>7 DEF UpdatesGoOn

-----------------------------------------------------------------------------
(* ReplayList *)

\* what was sent has the bounds of the entries
AirOK == \A p \in air : p \in Pdus /\ p.sno <= MaxNumber

\* an entry is what the list keeps of the last PDU accepted, and that one is not ahead of
\* the node
ListOK ==
  /\ IsFiniteSet(DOMAIN list) /\ DOMAIN list \subseteq DOMAIN last
  /\ \A s \in DOMAIN list : list[s] = [ivi |-> last[s].iv % IviMod, sno |-> last[s].sno]
  /\ \A s \in DOMAIN last : /\ s \in Sources /\ last[s] \in air
                            /\ last[s].iv <= Cur(stage)

ReplayInv == ListTypeOK /\ AirOK /\ ListOK /\ AcceptedInOrder /\ FreshAccepted

\* The index the node gives to a PDU is its own or the one before, and no smaller than 0.
LEMMA IndexOfPdu ==
  ASSUME stage \in Nat, NEW p \in Pdus, Decrypts(p)
  PROVE  /\ Cur(stage) \in Nat /\ p.iv \in Nat /\ p.sno \in Nat /\ p.src \in Sources
         /\ IvRx(p) = p.iv
         /\ p.iv = Cur(stage) \/ p.iv = Cur(stage) - 1
BY DEF Decrypts, IvRx, Cur, Pdus

\* Two indexes less than IviMod apart are told apart by what the list keeps of them.
LEMMA ByteOfIndex ==
  ASSUME NEW i \in Nat, NEW j \in Nat, i < j, i % IviMod = j % IviMod
  PROVE  i + 2 < j
<1>1. IviMod \in Nat /\ IviMod > 2
  BY ReplayListAssumption
<1>2. i = IviMod * (i \div IviMod) + (i % IviMod) /\ j = IviMod * (j \div IviMod) + (j % IviMod)
  BY <1>1
<1>3. i \div IviMod \in Nat /\ j \div IviMod \in Nat
  BY <1>1
<1> DEFINE a == i \div IviMod
           b == j \div IviMod
<1>4. j - i = IviMod * b - IviMod * a
  BY <1>1, <1>2, <1>3
<1>5. a < b
  <2>1. ASSUME a >= b PROVE IviMod * a >= IviMod * b
    BY <1>1, <1>3, <2>1
  <2> QED
    BY <1>1, <1>3, <1>4, <2>1
<1>6. IviMod * b >= IviMod * (a + 1) /\ IviMod * (a + 1) = IviMod * a + IviMod
  BY <1>1, <1>3, <1>5
<1> QED
  BY <1>1, <1>3, <1>4, <1>6

\* A PDU that the list lets pass is newer than the last one accepted.
LEMMA PassedIsNewer ==
  ASSUME ListTypeOK, AirOK, ListOK, NEW p \in air,
         Decrypts(p), ~Exists(p), Listed(p.src)
  PROVE  Fresh(p)
<1>1. stage \in Nat /\ p \in Pdus
  BY ReplayListAssumption DEF ListTypeOK, AirOK
<1> DEFINE q == last[p.src]
<1>2. /\ q \in Pdus /\ q.iv \in Nat /\ q.sno \in Nat /\ q.iv <= Cur(stage)
      /\ list[p.src].ivi = q.iv % IviMod /\ list[p.src].sno = q.sno
  BY DEF Listed, ListOK, AirOK, Pdus
<1>3. /\ Cur(stage) \in Nat /\ p.iv \in Nat /\ p.sno \in Nat /\ IvRx(p) = p.iv
      /\ p.iv = Cur(stage) \/ p.iv = Cur(stage) - 1
  BY <1>1, IndexOfPdu
<1> HIDE DEF q
<1>4. CASE p.iv % IviMod = q.iv % IviMod
  <2>1. p.sno > q.sno
    BY <1>2, <1>3, <1>4 DEF Exists, IsOld, SameIndex
  <2>2. ~(p.iv < q.iv)
    BY <1>2, <1>3, <1>4, ByteOfIndex
  <2> QED
    BY <1>2, <1>3, <2>1, <2>2 DEF Fresh, Older, q
<1>5. CASE p.iv % IviMod # q.iv % IviMod
  <2>1. p.iv = Cur(stage)
    BY <1>2, <1>3, <1>5 DEF Exists, IsOldIndex, SameIndex
  <2>2. p.iv # q.iv
    BY <1>5
  <2> QED
    BY <1>2, <1>3, <2>1, <2>2 DEF Fresh, Older, q
<1> QED
  BY <1>4, <1>5

\* A PDU that is refused although it is newer comes after a silence of a whole index.
LEMMA RefusedAfterSilence ==
  ASSUME ListTypeOK, AirOK, ListOK, NEW p \in air,
         Decrypts(p), Exists(p), Fresh(p)
  PROVE  last[p.src].iv < Cur(stage) - 1
<1>1. stage \in Nat /\ p \in Pdus /\ Listed(p.src)
  BY ReplayListAssumption DEF ListTypeOK, AirOK, Exists, IsOld, IsOldIndex
<1> DEFINE q == last[p.src]
<1>2. /\ q \in Pdus /\ q.iv \in Nat /\ q.sno \in Nat /\ q.iv <= Cur(stage)
      /\ list[p.src].ivi = q.iv % IviMod /\ list[p.src].sno = q.sno /\ p.src \in DOMAIN last
  BY <1>1 DEF Listed, ListOK, AirOK, Pdus
<1>3. /\ Cur(stage) \in Nat /\ p.iv \in Nat /\ p.sno \in Nat /\ IvRx(p) = p.iv
      /\ p.iv = Cur(stage) \/ p.iv = Cur(stage) - 1
  BY <1>1, IndexOfPdu
<1>4. q.iv < p.iv \/ (q.iv = p.iv /\ q.sno < p.sno)
  BY <1>2 DEF Fresh, Older
<1> HIDE DEF q
<1>5. CASE p.iv % IviMod = q.iv % IviMod
  <2>1. p.sno <= q.sno
    BY <1>2, <1>3, <1>5 DEF Exists, IsOld, IsOldIndex, SameIndex
  <2>2. q.iv + 2 < p.iv
    BY <1>2, <1>3, <1>4, <1>5, <2>1, ByteOfIndex
  <2> QED
    BY <1>2, <1>3, <2>2 DEF q
<1>6. CASE p.iv % IviMod # q.iv % IviMod
  <2>1. p.iv = Cur(stage) - 1
    BY <1>2, <1>3, <1>6 DEF Exists, IsOld, IsOldIndex, SameIndex
  <2>2. q.iv # p.iv
    BY <1>6
  <2> QED
    BY <1>2, <1>3, <1>4, <2>1, <2>2 DEF q
<1> QED
  BY <1>5, <1>6

\* A sequence over a set is one over a larger set.
LEMMA LargerSeq ==
  ASSUME NEW S, NEW T, S \subseteq T, NEW q \in Seq(S)
  PROVE  q \in Seq(T)
<1>1. Len(q) \in Nat /\ q = [i \in 1 .. Len(q) |-> q[i]] /\ \A i \in 1 .. Len(q) : q[i] \in T
  BY LenProperties, ElementOfSeq
<1> QED
  BY <1>1, IsASeq

\* The progress of an update never lowers the index.
LEMMA CurGrows ==
  ASSUME NEW k \in Nat
  PROVE  /\ Cur(k) \in Nat /\ Cur(k + 1) \in Nat /\ Cur(k) <= Cur(k + 1)
         /\ Tx(k) \in Nat
BY DEF Cur, Tx

\* The types, in the form the proofs use.
LEMMA Types ==
  ASSUME ListTypeOK, AirOK
  PROVE  /\ stage \in Nat /\ stage \in 0 .. MaxStage
         /\ stages \in [Sources -> 0 .. MaxStage] /\ sno \in [Sources -> 0 .. MaxNumber]
         /\ fifo \in Seq(air) /\ Len(fifo) \in Nat /\ Len(fifo) <= FifoSize
         /\ \A p \in air : /\ p \in Pdus /\ p.src \in Sources /\ p.iv \in Nat
                           /\ p.sno \in 0 .. MaxNumber
<1>1. /\ stage \in Nat /\ stage \in 0 .. MaxStage /\ MaxNumber \in Nat
      /\ stages \in [Sources -> 0 .. MaxStage] /\ sno \in [Sources -> 0 .. MaxNumber]
      /\ fifo \in Seq(air) /\ Len(fifo) <= FifoSize
  BY ReplayListAssumption DEF ListTypeOK
<1>2. \A p \in air : /\ p \in Pdus /\ p.src \in Sources /\ p.iv \in Nat /\ p.sno \in Nat
                     /\ p.sno <= MaxNumber
  BY DEF AirOK, Pdus
<1>3. \A p \in air : p.sno \in 0 .. MaxNumber
  BY <1>1, <1>2
<1> QED
  BY <1>1, <1>2, <1>3, LenProperties

\* PDUs are sent, and the other nodes go through updates: the list is as it was.
LEMMA SentInv ==
  ASSUME ReplayInv, air \subseteq air',
         stages' \in [Sources -> 0 .. MaxStage], sno' \in [Sources -> 0 .. MaxNumber],
         \A p \in air' : p \in Pdus /\ p.sno <= MaxNumber,
         UNCHANGED <<stage, list, fifo, resets, last, wrong>>
  PROVE  ReplayInv'
<1>1. ListTypeOK /\ AirOK /\ ListOK /\ AcceptedInOrder /\ FreshAccepted
  BY DEF ReplayInv
<1>2. fifo' \in Seq(air')
  BY <1>1, Types, LargerSeq
<1>3. ListTypeOK'
  BY <1>1, <1>2 DEF ListTypeOK
<1>4. AirOK' /\ ListOK' /\ AcceptedInOrder' /\ FreshAccepted'
  BY <1>1 DEF AirOK, ListOK, AcceptedInOrder, FreshAccepted
<1> QED
  BY <1>3, <1>4 DEF ReplayInv

\* A source sends a PDU.
LEMMA SendInv ==
  ASSUME ReplayInv, NEW s \in Sources, Send(s)
  PROVE  ReplayInv'
<1>1. ListTypeOK /\ AirOK
  BY DEF ReplayInv
<1> DEFINE p == [src |-> s, iv |-> Tx(stages[s]), sno |-> sno[s] + 1]
<1>2. /\ sno[s] < MaxNumber /\ sno' = [sno EXCEPT ![s] = @ + 1] /\ air' = air \union {p}
      /\ UNCHANGED <<stage, stages, list, fifo, resets, last, wrong>>
  BY DEF Send
<1>3. sno[s] \in Nat /\ stages[s] \in Nat /\ MaxNumber \in Nat
  BY <1>1, Types, ReplayListAssumption
<1>4. p \in Pdus /\ p.sno <= MaxNumber /\ sno[s] + 1 \in 0 .. MaxNumber
  BY <1>2, <1>3, CurGrows DEF Pdus
<1> HIDE DEF p
<1>5. sno' \in [Sources -> 0 .. MaxNumber] /\ stages' \in [Sources -> 0 .. MaxStage]
  BY <1>1, <1>2, <1>4, Types
<1>6. air \subseteq air' /\ \A r \in air' : r \in Pdus /\ r.sno <= MaxNumber
  BY <1>1, <1>2, <1>4 DEF AirOK
<1> QED
  BY <1>2, <1>5, <1>6, SentInv

\* A source takes a step of an update.
LEMMA SourceStepsInv ==
  ASSUME ReplayInv, NEW s \in Sources, SourceSteps(s)
  PROVE  ReplayInv'
<1>1. ListTypeOK /\ AirOK
  BY DEF ReplayInv
<1>2. /\ stages[s] < MaxStage /\ stages' = [stages EXCEPT ![s] = @ + 1]
      /\ sno' = [sno EXCEPT ![s] = IF Tx(stages[s] + 1) # Tx(stages[s]) THEN 0 ELSE @]
      /\ UNCHANGED <<stage, air, list, fifo, resets, last, wrong>>
  BY DEF SourceSteps
<1>3. /\ stages \in [Sources -> 0 .. MaxStage] /\ sno \in [Sources -> 0 .. MaxNumber]
      /\ MaxStage \in Nat /\ MaxNumber \in Nat
  BY <1>1, Types, ReplayListAssumption
<1>4. stages[s] + 1 \in 0 .. MaxStage /\ 0 \in 0 .. MaxNumber
  BY <1>2, <1>3
<1>5. stages' \in [Sources -> 0 .. MaxStage] /\ sno' \in [Sources -> 0 .. MaxNumber]
  BY <1>2, <1>3, <1>4
<1>6. air \subseteq air' /\ \A r \in air' : r \in Pdus /\ r.sno <= MaxNumber
  BY <1>1, <1>2 DEF AirOK
<1> QED
  BY <1>2, <1>5, <1>6, SentInv

\* The node goes on with its update: what it accepted is not ahead of it.
LEMMA NodeStepsInv ==
  ASSUME ReplayInv, NodeSteps
  PROVE  ReplayInv'
<1>1. ListTypeOK /\ AirOK /\ ListOK /\ AcceptedInOrder /\ FreshAccepted
  BY DEF ReplayInv
<1>2. /\ stage < MaxStage /\ stage' = stage + 1
      /\ UNCHANGED <<stages, sno, air, list, fifo, resets, last, wrong>>
  BY DEF NodeSteps
<1>3. stage \in Nat /\ MaxStage \in Nat
  BY <1>1, Types, ReplayListAssumption
<1>4. ListTypeOK'
  BY <1>1, <1>2, <1>3 DEF ListTypeOK
<1>5. ListOK'
  <2>1. \A q \in DOMAIN last : last[q] \in air /\ last[q].iv \in Nat
    BY <1>1, Types DEF ListOK
  <2>2. /\ Cur(stage) <= Cur(stage') /\ Cur(stage) \in Nat
        /\ Cur(stage') \in Nat
    BY <1>2, <1>3, CurGrows
  <2>3. Cur(stage)' = Cur(stage')
    BY DEF Cur
  <2> QED
    BY <1>1, <1>2, <2>1, <2>2, <2>3 DEF ListOK
<1>6. AirOK' /\ AcceptedInOrder' /\ FreshAccepted'
  BY <1>1, <1>2 DEF AirOK, AcceptedInOrder, FreshAccepted
<1> QED
  BY <1>1, <1>4, <1>5, <1>6 DEF ReplayInv

\* A refusal leaves the list, and is right.
LEMMA RefusedInv ==
  ASSUME ReplayInv, NEW p \in air, ~Decrypts(p) \/ Exists(p),
         Refused(p), fifo' \in Seq(air), Len(fifo') <= FifoSize,
         UNCHANGED <<stage, stages, sno, air, list, resets, last>>
  PROVE  ReplayInv'
<1>1. ListTypeOK /\ AirOK /\ ListOK /\ AcceptedInOrder /\ FreshAccepted
  BY DEF ReplayInv
<1>2. wrong' = wrong \/ wrong' = wrong \union {"behind"}
  BY <1>1, RefusedAfterSilence DEF Refused
<1>3. ListTypeOK'
  BY <1>1, <1>2 DEF ListTypeOK
<1>4. AirOK' /\ ListOK' /\ AcceptedInOrder' /\ FreshAccepted'
  BY <1>1, <1>2 DEF AirOK, ListOK, AcceptedInOrder, FreshAccepted
<1> QED
  BY <1>3, <1>4 DEF ReplayInv

\* The filter of the interrupt.
LEMMA HearInv ==
  ASSUME ReplayInv, NEW p \in air, Hear(p)
  PROVE  ReplayInv'
<1>1. ListTypeOK /\ AirOK /\ ListOK /\ AcceptedInOrder /\ FreshAccepted
  BY DEF ReplayInv
<1>2. UNCHANGED <<stage, stages, sno, air, list, resets, last>>
  BY DEF Hear
<1>3. fifo \in Seq(air) /\ Len(fifo) \in Nat /\ Len(fifo) <= FifoSize /\ FifoSize \in Nat
  BY <1>1, Types, ReplayListAssumption
<1>4. CASE IsOld(p) /\ Refused(p) /\ UNCHANGED fifo
  <2>1. Exists(p)
    BY <1>4 DEF Exists
  <2> QED
    BY <1>2, <1>3, <1>4, <2>1, RefusedInv
<1>5. CASE ~IsOld(p) /\ Len(fifo) < FifoSize /\ fifo' = Append(fifo, p) /\ UNCHANGED wrong
  <2>1. fifo' \in Seq(air) /\ Len(fifo') <= FifoSize
    BY <1>3, <1>5, AppendProperties
  <2>2. ListTypeOK'
    BY <1>1, <1>2, <1>5, <2>1 DEF ListTypeOK
  <2>3. AirOK' /\ ListOK' /\ AcceptedInOrder' /\ FreshAccepted'
    BY <1>1, <1>2, <1>5 DEF AirOK, ListOK, AcceptedInOrder, FreshAccepted
  <2> QED
    BY <2>2, <2>3 DEF ReplayInv
<1> QED
  BY <1>4, <1>5 DEF Hear

\* An accepted PDU is the newest of its source, and its entry, if there is room, says so.
LEMMA AcceptInv ==
  ASSUME ReplayInv, NEW p \in air, Accept(p), fifo' \in Seq(air),
         Len(fifo') <= FifoSize, UNCHANGED <<stage, stages, sno, air, resets>>
  PROVE  ReplayInv'
<1>1. ListTypeOK /\ AirOK /\ ListOK /\ AcceptedInOrder /\ FreshAccepted
  BY DEF ReplayInv
<1>2. /\ Decrypts(p) /\ ~Exists(p) /\ list' = Update(p)
      /\ last' = [s \in DOMAIN last \union {p.src} |-> IF s = p.src THEN p ELSE last[s]]
      /\ wrong' = IF Listed(p.src) /\ ~Fresh(p) THEN wrong \union {"replay"} ELSE wrong
  BY DEF Accept
<1>3. UNCHANGED wrong
  BY <1>1, <1>2, PassedIsNewer
<1>4. /\ stage \in Nat /\ IviMod \in Nat \ {0} /\ Capacity \in Nat /\ MaxNumber \in Nat
      /\ p \in Pdus /\ p.src \in Sources /\ p.iv \in Nat /\ p.sno \in 0 .. MaxNumber
  BY <1>1, Types, ReplayListAssumption
<1>5. IvRx(p) = p.iv /\ p.iv <= Cur(stage)
  BY <1>4, <1>2, IndexOfPdu
<1> DEFINE e == [ivi |-> p.iv % IviMod, sno |-> p.sno]
<1>6. e \in [ivi : 0 .. IviMod - 1, sno : 0 .. MaxNumber]
  <2>1. p.iv % IviMod \in 0 .. IviMod - 1
    BY <1>4
  <2> QED
    BY <1>4, <2>1
<1>7. /\ DOMAIN last' = DOMAIN last \union {p.src} /\ last'[p.src] = p
      /\ \A s \in DOMAIN last \ {p.src} : last'[s] = last[s]
  BY <1>2
<1>8. \A s \in DOMAIN last' : last'[s] \in air /\ s \in Sources /\ last'[s].iv <= Cur(stage)
  BY <1>1, <1>4, <1>5, <1>7 DEF ListOK
<1>9. CASE list' = list /\ ~Listed(p.src)
  <2>1. \A s \in DOMAIN list : s \in DOMAIN last /\ s # p.src /\ last'[s] = last[s]
    BY <1>1, <1>7, <1>9 DEF ListOK, Listed
  <2>2. ListOK'
    <3>1. Cur(stage)' = Cur(stage)
      BY DEF Cur
    <3> QED
      BY <1>1, <1>7, <1>8, <1>9, <2>1, <3>1 DEF ListOK
  <2>3. ListTypeOK'
    <3>1. DOMAIN last' \subseteq Sources /\ {last'[s] : s \in DOMAIN last'} \subseteq air'
      BY <1>8
    <3> QED
      BY <1>1, <1>3, <1>9, <3>1 DEF ListTypeOK, Range
  <2> QED
    BY <1>1, <1>3, <2>2, <2>3 DEF ReplayInv, AirOK, AcceptedInOrder, FreshAccepted
<1>10. CASE /\ Listed(p.src) \/ Cardinality(DOMAIN list) < Capacity
            /\ list' = [s \in DOMAIN list \union {p.src} |-> IF s = p.src THEN e ELSE list[s]]
  <2>1. /\ DOMAIN list' = DOMAIN list \union {p.src} /\ list'[p.src] = e
        /\ \A s \in DOMAIN list \ {p.src} : list'[s] = list[s]
    BY <1>10
  <2>2. IsFiniteSet(DOMAIN list') /\ Cardinality(DOMAIN list') <= Capacity
    <3>1. IsFiniteSet(DOMAIN list) /\ Cardinality(DOMAIN list) <= Capacity
      BY <1>1 DEF ListOK, ListTypeOK
    <3>2. Cardinality(DOMAIN list) \in Nat
      BY <3>1, FS_CardinalityType
    <3>3. CASE Listed(p.src)
      <4>1. DOMAIN list' = DOMAIN list
        BY <2>1, <3>3 DEF Listed
      <4> QED
        BY <3>1, <4>1
    <3>4. CASE ~Listed(p.src)
      <4>1. Cardinality(DOMAIN list') = Cardinality(DOMAIN list) + 1 /\ IsFiniteSet(DOMAIN list')
        BY <2>1, <3>1, <3>4, FS_AddElement DEF Listed
      <4> QED
        BY <1>4, <1>10, <3>2, <3>4, <4>1
    <3> QED
      BY <3>3, <3>4
  <2>3. \A s \in DOMAIN list' : list'[s] = [ivi |-> last'[s].iv % IviMod, sno |-> last'[s].sno]
    BY <1>1, <1>7, <2>1 DEF ListOK
  <2>4. ListOK'
    <3>1. Cur(stage)' = Cur(stage)
      BY DEF Cur
    <3>2. DOMAIN list' \subseteq DOMAIN last'
      BY <1>1, <1>7, <2>1 DEF ListOK
    <3> QED
      BY <1>8, <2>2, <2>3, <3>1, <3>2 DEF ListOK
  <2>5. ListTypeOK'
    <3>1. DOMAIN last' \subseteq Sources /\ {last'[s] : s \in DOMAIN last'} \subseteq air'
      BY <1>8
    <3>2. /\ DOMAIN list' \subseteq Sources
          /\ \A s \in DOMAIN list' : list'[s] \in [ivi : 0 .. IviMod - 1, sno : 0 .. MaxNumber]
      <4> HIDE DEF e
      <4> QED
        BY <1>1, <1>4, <1>6, <2>1 DEF ListTypeOK
    <3> QED
      BY <1>1, <1>3, <2>2, <3>1, <3>2 DEF ListTypeOK, Range
  <2> QED
    BY <1>1, <1>3, <2>4, <2>5 DEF ReplayInv, AirOK, AcceptedInOrder, FreshAccepted
<1> QED
  BY <1>2, <1>5, <1>9, <1>10 DEF Update

\* The main loop.
LEMMA ProcessInv ==
  ASSUME ReplayInv, Process
  PROVE  ReplayInv'
<1>1. ListTypeOK /\ AirOK
  BY DEF ReplayInv
<1>2. /\ fifo # <<>> /\ fifo' = Tail(fifo) /\ UNCHANGED <<stage, stages, sno, air, resets>>
      /\ Refuse(Head(fifo)) \/ Accept(Head(fifo))
  BY DEF Process
<1>3. fifo \in Seq(air) /\ Len(fifo) \in Nat /\ Len(fifo) <= FifoSize /\ FifoSize \in Nat
  BY <1>1, Types, ReplayListAssumption
<1>4. Head(fifo) \in air /\ fifo' \in Seq(air) /\ Len(fifo') <= FifoSize
  <2>1. Head(fifo) \in air /\ Tail(fifo) \in Seq(air) /\ Len(Tail(fifo)) = Len(fifo) - 1
    BY <1>2, <1>3, HeadTailProperties
  <2> QED
    BY <1>2, <1>3, <2>1
<1>5. CASE Refuse(Head(fifo))
  BY <1>2, <1>4, <1>5, RefusedInv DEF Refuse
<1>6. CASE Accept(Head(fifo))
  BY <1>2, <1>4, <1>6, AcceptInv
<1> QED
  BY <1>2, <1>5, <1>6

\* The node starts again with an empty list.
LEMMA ResetInv ==
  ASSUME ReplayInv, Reset
  PROVE  ReplayInv'
<1>1. ListTypeOK /\ AirOK /\ AcceptedInOrder /\ FreshAccepted
  BY DEF ReplayInv
<1>2. /\ resets < MaxResets /\ resets' = resets + 1 /\ fifo' = <<>>
      /\ DOMAIN list' = {} /\ DOMAIN last' = {}
      /\ UNCHANGED <<stage, stages, sno, air, wrong>>
  BY DEF Reset, EmptyFcn
<1>3. /\ resets' \in 0 .. MaxResets /\ fifo' \in Seq(air') /\ Len(fifo') <= FifoSize
      /\ IsFiniteSet({}) /\ Cardinality({}) <= Capacity
  BY <1>1, <1>2, FS_EmptySet, ReplayListAssumption DEF ListTypeOK
<1>4. ListTypeOK'
  BY <1>1, <1>2, <1>3 DEF ListTypeOK, Range
<1>5. ListOK'
  BY <1>2, <1>3 DEF ListOK
<1> QED
  BY <1>1, <1>2, <1>4, <1>5 DEF ReplayInv, AirOK, AcceptedInOrder, FreshAccepted

\* The node starts with an empty list.
LEMMA ListInitInv ==
  ASSUME ListInit
  PROVE  ReplayInv
<1>1. /\ stage = FirstStage /\ stages = [s \in Sources |-> FirstStage] /\ sno = [s \in Sources |-> 0]
      /\ air = {} /\ fifo = <<>> /\ resets = 0 /\ wrong = {} /\ DOMAIN list = {} /\ DOMAIN last = {}
  BY DEF ListInit, EmptyFcn
<1>2. /\ FirstStage \in 0 .. MaxStage /\ 0 \in 0 .. MaxNumber /\ 0 \in 0 .. MaxResets
      /\ IsFiniteSet({}) /\ Cardinality({}) <= Capacity /\ fifo \in Seq(air) /\ Len(fifo) <= FifoSize
  BY <1>1, FS_EmptySet, ReplayListAssumption
<1>3. ListTypeOK
  BY <1>1, <1>2 DEF ListTypeOK, Range
<1>4. AirOK /\ ListOK /\ AcceptedInOrder /\ FreshAccepted
  BY <1>1, <1>2 DEF AirOK, ListOK, AcceptedInOrder, FreshAccepted
<1> QED
  BY <1>3, <1>4 DEF ReplayInv

\* The invariant holds throughout.
LEMMA ReplayInvariant ==
  ListSpec => []ReplayInv
<1>1. ListInit => ReplayInv
  BY ListInitInv
<1>2. ReplayInv /\ [ListNext]_listVars => ReplayInv'
  <2> SUFFICES ASSUME ReplayInv, [ListNext]_listVars PROVE ReplayInv'
    OBVIOUS
  <2>1. CASE UNCHANGED listVars
    BY <2>1 DEF listVars, ReplayInv, ListTypeOK, AirOK, ListOK, AcceptedInOrder,
                FreshAccepted, Cur
  <2>2. CASE ListNext
    BY <2>2, SendInv, SourceStepsInv, NodeStepsInv, HearInv, ProcessInv, ResetInv DEF ListNext
  <2> QED
    BY <2>1, <2>2
<1> QED
  BY <1>1, <1>2, PTL DEF ListSpec

\* The types of the list and of what it is made from; the list never grows over its
\* CACHE_BUF_MAX entries.
THEOREM ListTypeCorrect ==
  ListSpec => []ListTypeOK
<1>1. ReplayInv => ListTypeOK
  BY DEF ReplayInv
<1> QED
  BY <1>1, ReplayInvariant, PTL

\* is_exist_in_cache accepts no PDU of a listed source twice and none out of order, with
\* any delay between the interrupt and the main loop and through updates of the index.
THEOREM NoReplay ==
  ListSpec => []AcceptedInOrder
<1>1. ReplayInv => AcceptedInOrder
  BY DEF ReplayInv
<1> QED
  BY <1>1, ReplayInvariant, PTL

\* It takes no newer PDU for a replay, unless the source was silent for a whole index.
THEOREM NoFreshRefused ==
  ListSpec => []FreshAccepted
<1>1. ReplayInv => FreshAccepted
  BY DEF ReplayInv
<1> QED
  BY <1>1, ReplayInvariant, PTL
=============================================================================
