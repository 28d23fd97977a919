----------------------------- MODULE FlashProofs ------------------------------
(***************************************************************************)
(* Proofs about what a node keeps in flash. FlashRecord: for any values,   *)
(* any number of slots and any number of power losses the log of records   *)
(* is sound, and it implements a register that survives power losses       *)
(* (DurableRegister). FactoryReset: for any table of sessions, any sector  *)
(* and any data only the sequence of the table resets the node, the        *)
(* sequence does, and a reset that has begun is not forgotten.             *)
(***************************************************************************)
EXTENDS FlashRecord, FactoryReset, WellFoundedInduction, SequenceTheorems, TLAPS

-----------------------------------------------------------------------------
(* FlashRecord: the inductive invariant *)

\* A record with its flag is what a store wrote.
FlaggedIsWhole ==
  \A i \in Slots : main[i].flag = "A5" => main[i].data \in Values /\ main[i].crc = Crc(main[i].data)

\* The slots are used in order: all before "next" are written, or all slots
\* while a full sector is copied and erased; none after it is.
UsedInOrder ==
  IF op.step \in {"backupHead", "backupData", "backupFlag", "erase"}
  THEN next = 1 /\ \A i \in Slots : main[i] # Erased
  ELSE \A i \in Slots : /\ i < next => main[i] # Erased
                        /\ i > next => main[i] = Erased

\* What the slot under way holds at each step.
Written(cell, step, v) ==
  CASE step = "Head" -> cell = [flag |-> "AF", crc |-> Crc(v), data |-> Bits]
    [] step = "Data" -> cell = [flag |-> "AF", crc |-> Crc(v), data |-> v]
    [] step = "Flag" -> cell = [flag |-> "A5", crc |-> Crc(v), data |-> v]

SlotUnderWay ==
  /\ op.step \in {"head", "data", "flag", "clean"} => next <= NSlots
  /\ op.step = "data" => Written(main[next], "Head", op.value)
  /\ op.step = "flag" => Written(main[next], "Data", op.value)
  /\ op.step = "clean" => Written(main[next], "Flag", op.value)

\* The backup, until one is written over the remains of another.
BackupOK ==
  ~overlaid =>
    /\ backup.flag = "A5" => backup.data \in Values
    /\ op.step = "backupData" => Written(backup, "Head", op.value)
    /\ op.step = "backupFlag" => Written(backup, "Data", op.value)
    /\ op.step = "erase" /\ misc => Written(backup, "Flag", op.value)

\* Only the sector FLASH_ADR_MISC has a backup.
BackupOfMisc == op.step \in {"backupHead", "backupData", "backupFlag"} => misc

\* Data that a store would take for stored has its flag, but for the record under way.
NotStranded ==
  ~stranded =>
    \A i \in Slots : main[i].data \in Values /\ main[i].flag # "A5" => i = next /\ op.step = "flag"

FlashInv == /\ LogTypeOK /\ FlaggedIsWhole /\ UsedInOrder /\ NextIsErased /\ SlotUnderWay
            /\ BackupOK /\ BackupOfMisc /\ NotStranded

-----------------------------------------------------------------------------
(* Records *)

\* The three writes on an erased slot, one after the other.
LEMMA Writes ==
  ASSUME NEW v \in Values, NEW r \in Record
  PROVE  /\ v \subseteq Bits /\ v # Bits
         /\ Written(WithHead(Erased, v), "Head", v)
         /\ Written(r, "Head", v) => Written(WithData(r, v), "Data", v)
         /\ Written(r, "Data", v) => Written(WithFlag(r), "Flag", v)
<1>1. v \subseteq Bits /\ v # Bits
  BY ValuesAssumption
<1>2. Bits \cap Crc(v) = Crc(v) /\ Bits \cap v = v
  BY <1>1 DEF Crc
<1>3. Written(WithHead(Erased, v), "Head", v)
  <2>1. AndFlag("FF", "AF") = "AF"
    BY DEF AndFlag
  <2>2. WithHead(Erased, v) = [flag |-> "AF", crc |-> Bits \cap Crc(v), data |-> Bits]
    <3>1. Erased.flag = "FF" /\ Erased.crc = Bits
      BY DEF Erased
    <3>2. WithHead(Erased, v) = [Erased EXCEPT !.flag = "AF", !.crc = Bits \cap Crc(v)]
      BY <2>1, <3>1, Zenon DEF WithHead
    <3> QED
      BY <3>2 DEF Erased
  <2> QED
    BY <1>2, <2>2 DEF Written
<1>4. Written(r, "Head", v) => Written(WithData(r, v), "Data", v)
  BY <1>2 DEF Written, WithData
<1>5. Written(r, "Data", v) => Written(WithFlag(r), "Flag", v)
  BY DEF Written, WithFlag
<1> QED
  BY <1>1, <1>3, <1>4, <1>5

\* A write leaves a record.
LEMMA WritesType ==
  ASSUME NEW v \in Values, NEW r \in Record
  PROVE  /\ Erased \in Record
         /\ WithHead(r, v) \in Record /\ WithData(r, v) \in Record /\ WithFlag(r) \in Record
<1>1. v \subseteq Bits
  BY ValuesAssumption
<1> QED
  BY <1>1 DEF Record, Erased, Flags, WithHead, WithData, WithFlag, AndFlag, Crc

\* What an interrupted write leaves.
LEMMA TornType ==
  ASSUME NEW r \in Record, NEW step \in {"Head", "Data"}, NEW t \in Torn(r, step), op.value \in Values
  PROVE  /\ t \in Record
         /\ step = "Head" => t.data = r.data /\ (t.flag = r.flag \/ t.flag = AndFlag(r.flag, "AF"))
         /\ step = "Head" /\ t.flag = "FF" => t = r
         /\ step = "Data" => t.flag = r.flag /\ t.crc = r.crc
<1>1. CASE step = "Head"
  <2>1. CASE t = r
    BY <1>1, <2>1
  <2>2. CASE t # r
    <3>1. PICK c \in {r.crc, r.crc \cap Crc(op.value)} :
            t = [r EXCEPT !.flag = AndFlag(@, "AF"), !.crc = c]
      BY <1>1, <2>2 DEF Torn
    <3>2. AndFlag(r.flag, "AF") \in {"AF", "A5"}
      BY DEF AndFlag
    <3>3. c \in SUBSET Bits /\ t.flag = AndFlag(r.flag, "AF") /\ t.crc = c /\ t.data = r.data
      BY <3>1 DEF Record
    <3>4. t \in Record
      BY <3>1, <3>2, <3>3 DEF Record, Flags
    <3> QED
      BY <1>1, <3>2, <3>3, <3>4
  <2> QED
    BY <2>1, <2>2
<1>2. CASE step = "Data"
  <2>1. PICK d \in SUBSET r.data : t = [r EXCEPT !.data = d]
    BY <1>2 DEF Torn
  <2> QED
    BY <1>2, <2>1 DEF Record
<1> QED
  BY <1>1, <1>2

-----------------------------------------------------------------------------
(* The scan of the sector *)

\* A set of slots has a last one.
LEMMA LastSlot ==
  ASSUME NEW V \in SUBSET Slots, V # {}
  PROVE  \E k \in V : \A j \in V : j <= k
<1> DEFINE T == {NSlots - i : i \in V}
<1>1. T \subseteq Nat /\ T # {}
  <2>1. \A i \in V : i \in 1 .. NSlots
    BY DEF Slots
  <2>2. \A i \in 1 .. NSlots : NSlots - i \in Nat
    BY NSlotsAssumption
  <2> QED
    BY <2>1, <2>2
<1>2. PICK t \in T : \A u \in T : <<u, t>> \notin OpToRel(<, Nat)
  BY <1>1, NatLessThanWellFounded, WFMin
<1>3. PICK k \in V : t = NSlots - k
  OBVIOUS
<1>4. ASSUME NEW j \in V PROVE j <= k
  <2>1. NSlots - j \in T /\ NSlots - j \in Nat /\ t \in Nat
    BY <1>1
  <2>2. ~(NSlots - j < t)
    BY <1>2, <2>1 DEF OpToRel
  <2> QED
    BY <1>3, <2>1, <2>2, NSlotsAssumption DEF Slots
<1> QED
  BY <1>4

\* What the scan finds is in the last valid record.
LEMMA FoundIs ==
  ASSUME NEW sector, NEW isMisc, NEW k \in Slots, ValidIn(sector[k], isMisc),
         \A j \in Slots : ValidIn(sector[j], isMisc) => j <= k
  PROVE  Found(sector, isMisc) = sector[k].data
<1> DEFINE valid == {i \in Slots : ValidIn(sector[i], isMisc)}
<1>1. k \in valid /\ \A j \in valid : j <= k
  OBVIOUS
<1>2. ASSUME NEW i \in valid, \A j \in valid : j <= i PROVE i = k
  BY <1>1, <1>2, NSlotsAssumption DEF Slots
<1>3. (CHOOSE i \in valid : \A j \in valid : j <= i) = k
  BY <1>1, <1>2
<1> QED
  BY <1>1, <1>3 DEF Found

\* There is no valid record, or a last one.
LEMMA FoundCases ==
  ASSUME NEW sector, NEW isMisc
  PROVE  \/ /\ \A i \in Slots : ~ValidIn(sector[i], isMisc)
            /\ Found(sector, isMisc) = None
         \/ \E k \in Slots :
              /\ ValidIn(sector[k], isMisc) /\ \A j \in Slots : ValidIn(sector[j], isMisc) => j <= k
              /\ Found(sector, isMisc) = sector[k].data
<1> DEFINE valid == {i \in Slots : ValidIn(sector[i], isMisc)}
<1>1. CASE valid = {}
  BY <1>1 DEF Found
<1>2. CASE valid # {}
  <2>1. PICK k \in valid : \A j \in valid : j <= k
    BY <1>2, LastSlot
  <2> QED
    BY <2>1, FoundIs
<1> QED
  BY <1>1, <1>2

\* Two sectors with the same valid records read the same.
LEMMA FoundSame ==
  ASSUME NEW sector, NEW other, NEW isMisc,
         \A i \in Slots : ValidIn(sector[i], isMisc) <=> ValidIn(other[i], isMisc),
         \A i \in Slots : ValidIn(sector[i], isMisc) => sector[i].data = other[i].data
  PROVE  Found(sector, isMisc) = Found(other, isMisc)
<1>1. CASE \A i \in Slots : ~ValidIn(sector[i], isMisc)
  BY <1>1 DEF Found
<1>2. CASE ~ \A i \in Slots : ~ValidIn(sector[i], isMisc)
  <2>1. PICK k \in Slots : /\ ValidIn(sector[k], isMisc)
                           /\ \A j \in Slots : ValidIn(sector[j], isMisc) => j <= k
                           /\ Found(sector, isMisc) = sector[k].data
    BY <1>2, FoundCases
  <2>2. Found(other, isMisc) = other[k].data
    BY <2>1, FoundIs
  <2> QED
    BY <2>1, <2>2
<1> QED
  BY <1>1, <1>2

\* The next record goes to the first slot of the erased end of the sector.
LEMMA NextSlotIs ==
  ASSUME NEW sector, NEW isMisc, NEW k \in 1 .. NSlots + 1,
         \A i \in Slots : sector[i] = Erased <=> i >= k
  PROVE  NextSlot(sector, isMisc) = k
<1> DEFINE stop == {i \in Slots : ValidIn(sector[i], isMisc)}
           free == {i \in Slots : sector[i] = Erased /\ \A j \in stop : j < i}
<1>1. \A j \in stop : j < k
  BY NSlotsAssumption DEF ValidIn, Erased, Slots
<1>2. free = {i \in Slots : i >= k}
  BY <1>1, NSlotsAssumption DEF Slots
<1>3. CASE k = NSlots + 1
  <2>1. free = {}
    BY <1>2, <1>3, NSlotsAssumption DEF Slots
  <2> QED
    BY <1>3, <2>1 DEF NextSlot
<1>4. CASE k # NSlots + 1
  <2>1. k \in free /\ \A j \in free : k <= j
    BY <1>2, <1>4, NSlotsAssumption DEF Slots
  <2>2. ASSUME NEW i \in free, \A j \in free : i <= j PROVE i = k
    BY <1>2, <2>1, <2>2, NSlotsAssumption DEF Slots
  <2>3. (CHOOSE i \in free : \A j \in free : i <= j) = k
    BY <2>1, <2>2
  <2> QED
    BY <2>1, <2>3 DEF NextSlot
<1> QED
  BY <1>3, <1>4

-----------------------------------------------------------------------------
(* The steps of a store *)

\* The frame of StoreStep.
Frame == /\ overlaid' = (overlaid \/ (op.step = "backupHead" /\ backup # Erased))
         /\ UNCHANGED <<misc, stores, losses, stranded>>

\* The store goes on to another step, with the same value.
LEMMA GoIs ==
  ASSUME LogTypeOK, NEW s \in Steps \ {"idle"}, op.step # "idle", Go(s)
  PROVE  /\ op' \in [step : Steps, value : Values \union {None}]
         /\ op'.step = s /\ op'.value = op.value /\ op.value \in Values
         /\ op'.step = "idle" <=> op'.value = None
BY DEF LogTypeOK, Go

\* A cell of the sector is written.
LEMMA CellWritten ==
  ASSUME LogTypeOK, next <= NSlots, NEW r \in Record
  PROVE  /\ next \in Slots /\ main[next] \in Record
         /\ [main EXCEPT ![next] = r] \in [Slots -> Record]
         /\ [main EXCEPT ![next] = r][next] = r
         /\ \A i \in Slots \ {next} : [main EXCEPT ![next] = r][i] = main[i]
<1>1. next \in Slots
  BY NSlotsAssumption DEF LogTypeOK, Slots
<1> QED
  BY <1>1 DEF LogTypeOK

\* No value is what an erased cell holds, and a written record is not erased.
LEMMA NotErased ==
  ASSUME NEW v \in Values
  PROVE  /\ Erased.flag = "FF" /\ Erased.data = Bits /\ Bits \notin Values
         /\ \A r : Written(r, "Head", v) \/ Written(r, "Data", v) \/ Written(r, "Flag", v) => r # Erased
<1>1. Erased.flag = "FF" /\ Erased.data = Bits /\ Bits \notin Values
  BY ValuesAssumption DEF Erased
<1>2. ASSUME NEW r, Written(r, "Head", v) \/ Written(r, "Data", v) \/ Written(r, "Flag", v)
      PROVE  r.flag \in {"AF", "A5"}
  BY <1>2 DEF Written
<1> QED
  BY <1>1, <1>2

\* A store is called.
LEMMA StoreInv ==
  ASSUME FlashInv, NEW v \in Values, Store(v)
  PROVE  FlashInv'
<1>1. op.step = "idle" /\ op'.step = "start" /\ op'.value = v /\ v # None
  BY ValuesAssumption, NoneAssumption DEF Store, Idle
<1>2. LogTypeOK'
  BY <1>1, BoundsAssumption DEF FlashInv, LogTypeOK, Store, Steps
<1>3. (FlaggedIsWhole /\ UsedInOrder /\ NextIsErased /\ SlotUnderWay)'
  BY <1>1 DEF FlashInv, Store, FlaggedIsWhole, UsedInOrder, NextIsErased, SlotUnderWay
<1>4. (BackupOK /\ BackupOfMisc /\ NotStranded)'
  BY <1>1 DEF FlashInv, Store, BackupOK, BackupOfMisc, NotStranded
<1> QED
  BY <1>2, <1>3, <1>4 DEF FlashInv

\* The sector is full.
LEMMA StartFullInv ==
  ASSUME FlashInv, StartFull, Frame
  PROVE  FlashInv'
<1>1. /\ op' \in [step : Steps, value : Values \union {None}]
      /\ op'.step = (IF misc THEN "backupHead" ELSE "erase") /\ op'.value = op.value
      /\ op'.step = "idle" <=> op'.value = None
  BY GoIs DEF FlashInv, StartFull, Steps
<1>2. op.step = "start" /\ next' = 1 /\ UNCHANGED <<misc, main, backup, stores, losses, overlaid, stranded>>
  BY DEF StartFull, Frame, FlashInv, LogTypeOK
<1>3. LogTypeOK'
  BY <1>1, <1>2, NSlotsAssumption DEF FlashInv, LogTypeOK
<1>4. \A i \in Slots : main[i] # Erased
  BY <1>2, NSlotsAssumption DEF FlashInv, UsedInOrder, StartFull, LogTypeOK, Slots
<1>5. (FlaggedIsWhole /\ UsedInOrder /\ NextIsErased /\ SlotUnderWay)'
  BY <1>1, <1>2, <1>4 DEF FlashInv, FlaggedIsWhole, UsedInOrder, NextIsErased, SlotUnderWay
<1>6. (BackupOK /\ BackupOfMisc /\ NotStranded)'
  BY <1>1, <1>2 DEF FlashInv, BackupOK, BackupOfMisc, NotStranded
<1> QED
  BY <1>3, <1>5, <1>6 DEF FlashInv

\* The value is taken for stored, or its record is begun.
LEMMA StartInv ==
  ASSUME FlashInv, StartSame \/ StartWrite, Frame
  PROVE  FlashInv'
<1>1. /\ op' \in [step : Steps, value : Values \union {None}]
      /\ op'.step \in {"idle", "head"} /\ (op'.step = "head" => op'.value = op.value)
      /\ op'.step = "idle" <=> op'.value = None
  <2>1. CASE StartSame
    BY <2>1, ValuesAssumption, NoneAssumption DEF FlashInv, LogTypeOK, StartSame, Idle, Steps
  <2>2. CASE StartWrite
    BY <2>2, GoIs DEF FlashInv, StartWrite, Steps
  <2> QED
    BY <2>1, <2>2
<1>2. /\ op.step = "start" /\ next <= NSlots
      /\ UNCHANGED <<misc, main, backup, next, stores, losses, overlaid, stranded>>
  BY DEF StartSame, StartWrite, Frame, FlashInv, LogTypeOK
<1>3. LogTypeOK'
  BY <1>1, <1>2 DEF FlashInv, LogTypeOK
<1>4. (FlaggedIsWhole /\ UsedInOrder /\ NextIsErased /\ SlotUnderWay)'
  BY <1>1, <1>2 DEF FlashInv, FlaggedIsWhole, UsedInOrder, NextIsErased, SlotUnderWay
<1>5. (BackupOK /\ BackupOfMisc /\ NotStranded)'
  BY <1>1, <1>2 DEF FlashInv, BackupOK, BackupOfMisc, NotStranded
<1> QED
  BY <1>3, <1>4, <1>5 DEF FlashInv

\* One of the three writes of the backup.
LEMMA WriteBackupInv ==
  ASSUME FlashInv, WriteBackup, Frame
  PROVE  FlashInv'
<1>1. /\ op.step \in {"backupHead", "backupData", "backupFlag"}
      /\ op'.step \in {"backupData", "backupFlag", "erase"}
      /\ op' \in [step : Steps, value : Values \union {None}]
      /\ op'.value = op.value /\ op.value \in Values
      /\ op'.step = "idle" <=> op'.value = None
  BY GoIs DEF FlashInv, WriteBackup, Steps
<1>2. /\ UNCHANGED <<misc, main, next, stores, losses, stranded>>
      /\ overlaid' = (overlaid \/ (op.step = "backupHead" /\ backup # Erased)) /\ misc
  BY <1>1 DEF WriteBackup, Frame, FlashInv, BackupOfMisc
<1>3. backup' \in Record
  BY <1>1, WritesType DEF WriteBackup, FlashInv, LogTypeOK
<1>4. LogTypeOK'
  BY <1>1, <1>2, <1>3 DEF FlashInv, LogTypeOK
<1>5. (FlaggedIsWhole /\ UsedInOrder /\ NextIsErased /\ SlotUnderWay)'
  BY <1>1, <1>2 DEF FlashInv, FlaggedIsWhole, UsedInOrder, NextIsErased, SlotUnderWay
<1>6. BackupOK'
  <2> SUFFICES ASSUME ~overlaid'
               PROVE  BackupOK'
    BY DEF BackupOK
  <2> backup \in Record
    BY DEF FlashInv, LogTypeOK
  <2>1. CASE op.step = "backupHead"
    <3>1. backup = Erased /\ backup' = WithHead(Erased, op.value) /\ op'.step = "backupData"
      BY <1>2, <2>1, GoIs DEF WriteBackup, FlashInv, Steps
    <3>2. Written(backup', "Head", op'.value)
      BY <1>1, <3>1, Writes
    <3> QED
      BY <3>1, <3>2 DEF BackupOK, Written
  <2>2. CASE op.step = "backupData"
    <3>1. backup' = WithData(backup, op.value) /\ op'.step = "backupFlag"
      BY <2>2, GoIs DEF WriteBackup, FlashInv, Steps
    <3>2. Written(backup', "Data", op'.value)
      BY <1>1, <1>2, <2>2, <3>1, Writes DEF FlashInv, BackupOK
    <3> QED
      BY <3>1, <3>2 DEF BackupOK, Written
  <2>3. CASE op.step = "backupFlag"
    <3>1. backup' = WithFlag(backup) /\ op'.step = "erase"
      BY <2>3, GoIs DEF WriteBackup, FlashInv, Steps
    <3>2. Written(backup', "Flag", op'.value)
      BY <1>1, <1>2, <2>3, <3>1, Writes DEF FlashInv, BackupOK
    <3>3. backup'.flag = "A5" /\ backup'.data = op.value
      BY <1>1, <3>2 DEF Written
    <3> QED
      BY <1>1, <3>1, <3>2, <3>3 DEF BackupOK
  <2> QED
    BY <1>1, <2>1, <2>2, <2>3
<1>7. (BackupOfMisc /\ NotStranded)'
  BY <1>1, <1>2 DEF FlashInv, BackupOfMisc, NotStranded
<1> QED
  BY <1>4, <1>5, <1>6, <1>7 DEF FlashInv

\* The sector is erased.
LEMMA EraseInv ==
  ASSUME FlashInv, EraseMain, Frame
  PROVE  FlashInv'
<1>1. /\ op.step = "erase" /\ op'.step = "head" /\ op'.value = op.value /\ op.value \in Values
      /\ op' \in [step : Steps, value : Values \union {None}]
      /\ op'.step = "idle" <=> op'.value = None
  BY GoIs DEF FlashInv, EraseMain, Steps
<1>2. /\ UNCHANGED <<misc, backup, next, stores, losses, overlaid, stranded>>
      /\ main' = [i \in Slots |-> Erased] /\ next = 1
  BY <1>1 DEF EraseMain, Frame, FlashInv, LogTypeOK, UsedInOrder
<1>3. 1 \in Slots /\ \A i \in Slots : main'[i] = Erased /\ i >= 1
  BY <1>2, NSlotsAssumption DEF Slots
<1>4. LogTypeOK'
  BY <1>1, <1>2, WritesType DEF FlashInv, LogTypeOK
<1>5. (FlaggedIsWhole /\ UsedInOrder /\ NextIsErased /\ SlotUnderWay)'
  BY <1>1, <1>2, <1>3, NotErased, NSlotsAssumption
     DEF FlashInv, FlaggedIsWhole, UsedInOrder, NextIsErased, SlotUnderWay, Slots
<1>6. (BackupOK /\ BackupOfMisc /\ NotStranded)'
  BY <1>1, <1>2, <1>3, NotErased DEF FlashInv, BackupOK, BackupOfMisc, NotStranded
<1> QED
  BY <1>4, <1>5, <1>6 DEF FlashInv

\* One of the three writes of the record.
LEMMA WriteMainInv ==
  ASSUME FlashInv, WriteMain, Frame
  PROVE  FlashInv'
<1>1. /\ op.step \in {"head", "data", "flag"} /\ op'.step \in {"data", "flag", "clean"}
      /\ op'.value = op.value /\ op.value \in Values
      /\ op' \in [step : Steps, value : Values \union {None}]
      /\ op'.step = "idle" <=> op'.value = None
  BY GoIs DEF FlashInv, WriteMain, Steps
<1>2. /\ UNCHANGED <<misc, backup, next, stores, losses, overlaid, stranded>>
      /\ next <= NSlots /\ next \in Slots /\ main[next] \in Record
  BY <1>1, CellWritten DEF WriteMain, Frame, FlashInv, LogTypeOK, NextIsErased, SlotUnderWay
<1> DEFINE r == main'[next]
<1>3. /\ op.step = "head" => Written(r, "Head", op.value) /\ op'.step = "data"
      /\ op.step = "data" => Written(r, "Data", op.value) /\ op'.step = "flag"
      /\ op.step = "flag" => Written(r, "Flag", op.value) /\ op'.step = "clean"
      /\ r \in Record /\ main' \in [Slots -> Record]
      /\ \A i \in Slots \ {next} : main'[i] = main[i]
  <2>1. CASE op.step = "head"
    <3>1. main[next] = Erased /\ op'.step = "data"
      BY <1>2, <2>1, GoIs DEF FlashInv, NextIsErased, WriteMain, Steps
    <3>2. main' = [main EXCEPT ![next] = WithHead(Erased, op.value)]
      BY <2>1, <3>1 DEF WriteMain
    <3> QED
      BY <1>1, <1>2, <2>1, <3>1, <3>2, CellWritten, WritesType, Writes DEF FlashInv
  <2>2. CASE op.step = "data"
    <3>1. main' = [main EXCEPT ![next] = WithData(main[next], op.value)] /\ op'.step = "flag"
      BY <2>2, GoIs DEF FlashInv, WriteMain, Steps
    <3>2. Written(main[next], "Head", op.value)
      BY <2>2 DEF FlashInv, SlotUnderWay
    <3> QED
      BY <1>1, <1>2, <2>2, <3>1, <3>2, CellWritten, WritesType, Writes DEF FlashInv
  <2>3. CASE op.step = "flag"
    <3>1. main' = [main EXCEPT ![next] = WithFlag(main[next])] /\ op'.step = "clean"
      BY <2>3, GoIs DEF FlashInv, WriteMain, Steps
    <3>2. Written(main[next], "Data", op.value)
      BY <2>3 DEF FlashInv, SlotUnderWay
    <3> QED
      BY <1>1, <1>2, <2>3, <3>1, <3>2, CellWritten, WritesType, Writes DEF FlashInv
  <2> QED
    BY <1>1, <2>1, <2>2, <2>3
<1>4. /\ op.step = "head" => r.flag = "AF" /\ r.data = Bits
      /\ op.step = "data" => r.flag = "AF"
      /\ op.step = "flag" => r.flag = "A5" /\ r.data = op.value /\ r.crc = Crc(r.data)
  BY <1>3 DEF Written
<1>5. r # Erased /\ Bits \notin Values
  BY <1>1, <1>4, NotErased
<1> HIDE DEF r
<1>6. LogTypeOK'
  BY <1>1, <1>2, <1>3 DEF FlashInv, LogTypeOK
<1>7. (FlaggedIsWhole /\ UsedInOrder)'
  <2>1. main'[next] = r
    BY DEF r
  <2>2. \A i \in Slots : main'[i].flag = "A5" => main'[i].data \in Values /\ main'[i].crc = Crc(main'[i].data)
    BY <1>1, <1>3, <1>4, <2>1 DEF FlashInv, FlaggedIsWhole
  <2>3. \A i \in Slots : (i < next => main'[i] # Erased) /\ (i > next => main'[i] = Erased)
    BY <1>1, <1>3, NSlotsAssumption DEF FlashInv, UsedInOrder, LogTypeOK, Slots
  <2> QED
    BY <1>1, <1>2, <2>2, <2>3 DEF FlaggedIsWhole, UsedInOrder
<1>8. (NextIsErased /\ SlotUnderWay)'
  BY <1>1, <1>2, <1>3 DEF r, NextIsErased, SlotUnderWay
<1>9. (BackupOK /\ BackupOfMisc)'
  BY <1>1, <1>2 DEF FlashInv, BackupOK, BackupOfMisc
<1>10. NotStranded'
  BY <1>1, <1>2, <1>3, <1>4, <1>5 DEF r, FlashInv, NotStranded
<1> QED
  BY <1>6, <1>7, <1>8, <1>9, <1>10 DEF FlashInv

\* The backup is erased and the store returns.
LEMMA CleanInv ==
  ASSUME FlashInv, Clean, Frame
  PROVE  FlashInv'
<1>1. op.step = "clean" /\ op'.step = "idle" /\ op'.value = None /\ op.value \in Values
      /\ op' \in [step : Steps, value : Values \union {None}]
  BY ValuesAssumption, NoneAssumption DEF FlashInv, LogTypeOK, Clean, Idle, Steps
<1>2. /\ UNCHANGED <<misc, main, stores, losses, overlaid, stranded>>
      /\ backup' = (IF misc THEN Erased ELSE backup) /\ next' = next + 1
      /\ next <= NSlots /\ next \in Slots /\ main[next] # Erased /\ main[next].flag = "A5"
  BY <1>1, CellWritten, NotErased DEF Clean, Frame, FlashInv, LogTypeOK, SlotUnderWay, Written
<1>3. LogTypeOK'
  BY <1>1, <1>2, WritesType, NSlotsAssumption DEF FlashInv, LogTypeOK
<1>4. \A i \in Slots : (i < next' => main[i] # Erased) /\ (i >= next' => main[i] = Erased)
  BY <1>1, <1>2, NSlotsAssumption DEF FlashInv, UsedInOrder, LogTypeOK, Slots
<1>5. (FlaggedIsWhole /\ UsedInOrder /\ NextIsErased /\ SlotUnderWay)'
  BY <1>1, <1>2, <1>3, <1>4, NSlotsAssumption
     DEF FlashInv, LogTypeOK, FlaggedIsWhole, UsedInOrder, NextIsErased, SlotUnderWay, Slots
<1>6. (BackupOK /\ BackupOfMisc /\ NotStranded)'
  BY <1>1, <1>2, NotErased DEF FlashInv, BackupOK, BackupOfMisc, NotStranded
<1> QED
  BY <1>3, <1>5, <1>6 DEF FlashInv

-----------------------------------------------------------------------------
(* Power loss *)

\* What a loss leaves: the records with their flag, the erased end of the
\* sector, and no data that looks stored but in the slot under way.
Left(cells) ==
  /\ cells[1] \in [Slots -> Record] /\ cells[2] \in Record
  /\ \A i \in Slots : /\ cells[1][i].flag = "A5" <=> main[i].flag = "A5"
                      /\ cells[1][i].flag = "A5" => cells[1][i] = main[i]
  /\ \E k \in 1 .. NSlots + 1 : \A i \in Slots : cells[1][i] = Erased <=> i >= k
  /\ \A i \in Slots : cells[1][i].data \in Values =>
        cells[1][i] = main[i] \/ (i = next /\ op.step = "data")
  /\ ~overlaid => /\ cells[2].flag = "A5" <=> backup.flag = "A5"
                  /\ cells[2].flag = "A5" => cells[2].data = backup.data

\* A loss between two writes of the record, or anywhere but in one of them.
LEMMA LeftBetween ==
  ASSUME FlashInv, NEW cells, cells[1] = main, cells[2] \in Record,
         ~overlaid => /\ cells[2].flag = "A5" <=> backup.flag = "A5"
                      /\ cells[2].flag = "A5" => cells[2].data = backup.data
  PROVE  Left(cells)
<1>1. \E k \in 1 .. NSlots + 1 : \A i \in Slots : main[i] = Erased <=> i >= k
  <2> next \in 1 .. NSlots + 1 /\ NSlots \in Nat /\ Slots = 1 .. NSlots
    BY NSlotsAssumption DEF FlashInv, LogTypeOK, Slots
  <2>1. CASE op.step \in {"backupHead", "backupData", "backupFlag", "erase"}
    <3>1. \A i \in Slots : main[i] = Erased <=> i >= NSlots + 1
      BY <2>1 DEF FlashInv, UsedInOrder
    <3> QED
      BY <3>1
  <2>2. CASE op.step \in {"idle", "start", "head"}
    <3>1. \A i \in Slots : main[i] = Erased <=> i >= next
      BY <2>2 DEF FlashInv, UsedInOrder, NextIsErased
    <3> QED
      BY <3>1
  <2>3. CASE op.step \in {"data", "flag", "clean"}
    <3>1. op.value \in Values /\ next <= NSlots
      BY <2>3 DEF FlashInv, LogTypeOK, SlotUnderWay
    <3>2. main[next] # Erased
      BY <2>3, <3>1, NotErased DEF FlashInv, SlotUnderWay
    <3>3. \A i \in Slots : main[i] = Erased <=> i >= next + 1
      BY <2>3, <3>2 DEF FlashInv, UsedInOrder
    <3>4. next + 1 \in 1 .. NSlots + 1
      BY <3>1
    <3> QED
      BY <3>3, <3>4
  <2> QED
    BY <2>1, <2>2, <2>3 DEF FlashInv, LogTypeOK, Steps
<1> QED
  BY <1>1 DEF Left, FlashInv, LogTypeOK

\* A loss in the write of the head or of the data of the record.
LEMMA LeftInWrite ==
  ASSUME FlashInv, op.step \in {"head", "data"}, NEW t,
         t \in Torn(main[next], IF op.step = "head" THEN "Head" ELSE "Data")
  PROVE  Left(<<[main EXCEPT ![next] = t], backup>>)
<1>1. op.value \in Values /\ next <= NSlots /\ next \in 1 .. NSlots + 1 /\ NSlots \in Nat /\ Slots = 1 .. NSlots
  BY NSlotsAssumption DEF FlashInv, LogTypeOK, SlotUnderWay, Slots
<1>2. next \in Slots /\ main[next] \in Record
  BY <1>1 DEF FlashInv, LogTypeOK
<1>3. /\ op.step = "head" => main[next] = Erased
      /\ op.step = "data" => main[next].flag = "AF"
  BY <1>1 DEF FlashInv, NextIsErased, SlotUnderWay, Written
<1>4. AndFlag("FF", "AF") = "AF"
  BY DEF AndFlag
<1>5. /\ t \in Record
      /\ op.step = "head" => t.data = Bits /\ (t = Erased \/ t.flag = "AF")
      /\ op.step = "data" => t.flag = "AF"
  <2>1. CASE op.step = "head"
    <3>1. t \in Torn(main[next], "Head")
      BY <2>1
    <3> QED
      BY <1>1, <1>2, <1>3, <1>4, <2>1, <3>1, TornType, NotErased
  <2>2. CASE op.step = "data"
    <3>1. t \in Torn(main[next], "Data")
      BY <2>2
    <3> QED
      BY <1>1, <1>2, <1>3, <2>2, <3>1, TornType
  <2> QED
    BY <2>1, <2>2
<1> DEFINE after == [main EXCEPT ![next] = t]
<1>6. after \in [Slots -> Record] /\ after[next] = t /\ \A i \in Slots \ {next} : after[i] = main[i]
  BY <1>1, <1>5, CellWritten DEF FlashInv
<1> HIDE DEF after
<1>7. \A i \in Slots : (i < next => after[i] # Erased) /\ (i > next => after[i] = Erased)
  BY <1>1, <1>6 DEF FlashInv, UsedInOrder
<1>8. \E k \in 1 .. NSlots + 1 : \A i \in Slots : after[i] = Erased <=> i >= k
  <2>1. CASE t = Erased
    <3>1. \A i \in Slots : after[i] = Erased <=> i >= next
      BY <1>1, <1>6, <1>7, <2>1
    <3> QED
      BY <1>1, <3>1
  <2>2. CASE t # Erased
    <3>1. \A i \in Slots : after[i] = Erased <=> i >= next + 1
      BY <1>1, <1>6, <1>7, <2>2
    <3>2. next + 1 \in 1 .. NSlots + 1
      BY <1>1
    <3> QED
      BY <3>1, <3>2
  <2> QED
    BY <2>1, <2>2
<1>9. main[next].flag # "A5" /\ t.flag # "A5" /\ (op.step = "head" => t.data \notin Values)
  BY <1>1, <1>3, <1>5, NotErased
<1>10. \A i \in Slots : /\ after[i].flag = "A5" <=> main[i].flag = "A5"
                        /\ after[i].flag = "A5" => after[i] = main[i]
                        /\ after[i].data \in Values => after[i] = main[i] \/ (i = next /\ op.step = "data")
  BY <1>6, <1>9
<1>11. backup \in Record
  BY DEF FlashInv, LogTypeOK
<1> QED
  BY <1>6, <1>8, <1>10, <1>11 DEF Left, after

\* Whatever the store was doing.
LEMMA LeftByLoss ==
  ASSUME FlashInv, NEW cells \in CellsAfterLoss
  PROVE  Left(cells)
<1> backup \in Record /\ (op.step # "idle" => op.value \in Values)
  BY DEF FlashInv, LogTypeOK
<1>1. CASE op.step = "backupHead"
  <2>1. cells[1] = main /\ cells[2] \in Torn(backup, "Head")
    BY <1>1 DEF CellsAfterLoss
  <2>2. /\ cells[2] \in Record /\ cells[2].data = backup.data
        /\ cells[2].flag = backup.flag \/ cells[2].flag = AndFlag(backup.flag, "AF")
    BY <1>1, <2>1, TornType
  <2>3. backup.flag \in Flags /\ (AndFlag(backup.flag, "AF") = "A5" <=> backup.flag = "A5")
    BY DEF Record, Flags, AndFlag
  <2> QED
    BY <2>1, <2>2, <2>3, LeftBetween
<1>2. CASE op.step = "backupData"
  <2>1. cells[1] = main /\ cells[2] \in Torn(backup, "Data")
    BY <1>2 DEF CellsAfterLoss
  <2>2. cells[2] \in Record /\ cells[2].flag = backup.flag
    BY <1>2, <2>1, TornType
  <2>3. ~overlaid => backup.flag = "AF"
    BY <1>2 DEF FlashInv, BackupOK, Written
  <2> QED
    BY <2>1, <2>2, <2>3, LeftBetween
<1>3. CASE op.step = "head"
  <2>1. PICK t \in Torn(main[next], "Head") : cells = <<[main EXCEPT ![next] = t], backup>>
    BY <1>3 DEF CellsAfterLoss
  <2> QED
    BY <1>3, <2>1, LeftInWrite
<1>4. CASE op.step = "data"
  <2>1. PICK t \in Torn(main[next], "Data") : cells = <<[main EXCEPT ![next] = t], backup>>
    BY <1>4 DEF CellsAfterLoss
  <2> QED
    BY <1>4, <2>1, LeftInWrite
<1>5. CASE op.step \notin {"backupHead", "backupData", "head", "data"}
  <2>1. cells = <<main, backup>>
    BY <1>5 DEF CellsAfterLoss
  <2> QED
    BY <2>1, LeftBetween
<1> QED
  BY <1>1, <1>2, <1>3, <1>4, <1>5

\* The log after a loss and the start that follows.
LEMMA PowerLossInv ==
  ASSUME FlashInv, PowerLoss
  PROVE  FlashInv'
<1>1. PICK cells \in CellsAfterLoss :
        /\ main' = cells[1] /\ backup' = cells[2] /\ next' = NextSlot(cells[1], misc)
        /\ stranded' = (stranded \/ (op.step \in {"data", "flag"} /\ cells[1][next].data \in Values))
  BY DEF PowerLoss
<1>2. Left(cells)
  BY <1>1, LeftByLoss
<1>3. PICK k \in 1 .. NSlots + 1 : \A i \in Slots : main'[i] = Erased <=> i >= k
  BY <1>1, <1>2 DEF Left
<1>4. next' = k
  BY <1>1, <1>3, NextSlotIs
<1>5. op'.step = "idle" /\ op'.value = None /\ UNCHANGED <<misc, overlaid>> /\ next' \in 1 .. NSlots + 1
  BY <1>4 DEF PowerLoss, Idle
<1>6. LogTypeOK'
  BY <1>1, <1>2, <1>5, BoundsAssumption DEF Left, FlashInv, LogTypeOK, PowerLoss, Idle, Steps
<1>7. (FlaggedIsWhole /\ UsedInOrder /\ NextIsErased /\ SlotUnderWay)'
  BY <1>1, <1>2, <1>3, <1>4, <1>5, NSlotsAssumption
     DEF Left, FlashInv, FlaggedIsWhole, UsedInOrder, NextIsErased, SlotUnderWay, Slots
<1>8. (BackupOK /\ BackupOfMisc)'
  BY <1>1, <1>2, <1>5 DEF Left, FlashInv, BackupOK, BackupOfMisc
<1>9. NotStranded'
  <2> SUFFICES ASSUME ~stranded', NEW i \in Slots, main'[i].data \in Values, main'[i].flag # "A5"
               PROVE  FALSE
    BY DEF NotStranded
  <2>1. ~stranded /\ ~(op.step \in {"data", "flag"} /\ main'[next].data \in Values)
    BY <1>1
  <2>2. main'[i] = main[i]
    BY <1>1, <1>2, <2>1 DEF Left
  <2>3. i = next /\ op.step = "flag"
    BY <2>1, <2>2 DEF FlashInv, NotStranded
  <2> QED
    BY <2>1, <2>3
<1> QED
  BY <1>6, <1>7, <1>8, <1>9 DEF FlashInv

-----------------------------------------------------------------------------
(* The invariant *)

\* A start finds what a store wrote.
LEMMA InvFound ==
  ASSUME FlashInv
  PROVE  FoundWasStored
<1>1. Found(main, misc) \in Values \union {None}
  BY FoundCases DEF FlashInv, FlaggedIsWhole, ValidIn
<1>2. ~overlaid /\ ValidIn(backup, FALSE) => backup.data \in Values
  BY DEF FlashInv, BackupOK, ValidIn
<1> QED
  BY <1>1, <1>2 DEF FoundWasStored, Retrieved

\* The sector is empty at first.
LEMMA LogInitInv ==
  ASSUME LogInit
  PROVE  FlashInv
<1>1. op.step = "idle" /\ op.value = None /\ \A i \in Slots : main[i] = Erased /\ i >= 1
  BY NSlotsAssumption DEF LogInit, Idle, Slots
<1>2. Erased \in Record /\ Erased.flag = "FF" /\ Erased.data = Bits /\ Bits \notin Values
  BY ValuesAssumption DEF Erased, Record, Flags
<1>3. LogTypeOK
  <2>1. op \in [step : Steps, value : Values \union {None}]
    BY DEF LogInit, Idle, Steps
  <2>2. main \in [Slots -> Record]
    BY <1>2 DEF LogInit
  <2>3. next \in 1 .. NSlots + 1 /\ stores \in 0 .. MaxStores /\ losses \in 0 .. MaxLosses
    BY NSlotsAssumption, BoundsAssumption DEF LogInit
  <2> QED
    BY <1>1, <1>2, <2>1, <2>2, <2>3 DEF LogInit, LogTypeOK
<1>4. FlaggedIsWhole /\ UsedInOrder /\ NextIsErased /\ SlotUnderWay
  BY <1>1, <1>2, NSlotsAssumption DEF LogInit, FlaggedIsWhole, UsedInOrder, NextIsErased, SlotUnderWay, Slots
<1>5. BackupOK /\ BackupOfMisc /\ NotStranded
  BY <1>1, <1>2 DEF LogInit, BackupOK, BackupOfMisc, NotStranded
<1> QED
  BY <1>3, <1>4, <1>5 DEF FlashInv

\* No step of a store, and no power loss, breaks the invariant.
LEMMA StepInv ==
  ASSUME FlashInv, [LogNext]_logVars
  PROVE  FlashInv'
<1>1. ASSUME NEW v \in Values, Store(v) PROVE FlashInv'
  BY <1>1, StoreInv
<1>2. CASE StoreStep
  <2>1. Frame
    BY <1>2 DEF StoreStep, Frame
  <2>2. CASE StartFull
    BY <2>1, <2>2, StartFullInv
  <2>3. CASE StartSame \/ StartWrite
    BY <2>1, <2>3, StartInv
  <2>4. CASE WriteBackup
    BY <2>1, <2>4, WriteBackupInv
  <2>5. CASE EraseMain
    BY <2>1, <2>5, EraseInv
  <2>6. CASE WriteMain
    BY <2>1, <2>6, WriteMainInv
  <2>7. CASE Clean
    BY <2>1, <2>7, CleanInv
  <2> QED
    BY <1>2, <2>2, <2>3, <2>4, <2>5, <2>6, <2>7 DEF StoreStep
<1>3. CASE PowerLoss
  BY <1>3, PowerLossInv
<1>4. CASE UNCHANGED logVars
  BY <1>4 DEF logVars, FlashInv, LogTypeOK, FlaggedIsWhole, UsedInOrder, NextIsErased, SlotUnderWay,
              BackupOK, BackupOfMisc, NotStranded
<1> QED
  BY <1>1, <1>2, <1>3, <1>4 DEF LogNext

\* Power losses leave the log of records in order: a start finds a value that
\* mesh_par_store was given, and no record goes over the remains of another.
THEOREM SoundLog == LogSpec => []LogIsSound
<1>1. LogInit => FlashInv
  BY LogInitInv
<1>2. FlashInv /\ [LogNext]_logVars => FlashInv'
  BY StepInv
<1>3. FlashInv => LogIsSound
  BY InvFound DEF FlashInv, LogIsSound
<1> QED
  BY <1>1, <1>2, <1>3, PTL DEF LogSpec

-----------------------------------------------------------------------------
(* Refinement of DurableRegister *)

\* In the states the log can be in, a record is valid when it has its flag.
LEMMA ValidIsFlagged ==
  ASSUME NEW sector, NEW isMisc, NEW i, sector[i].flag = "A5" => sector[i].crc = Crc(sector[i].data)
  PROVE  ValidIn(sector[i], isMisc) <=> sector[i].flag = "A5"
BY DEF ValidIn

\* What a start would find depends on the records that have their flag.
LEMMA SameRetrieved ==
  ASSUME FlashInv, FlashInv', misc' = misc,
         \A i \in Slots : /\ main'[i].flag = "A5" <=> main[i].flag = "A5"
                          /\ main[i].flag = "A5" => main'[i].data = main[i].data,
         backup'.flag = "A5" <=> backup.flag = "A5",
         backup.flag = "A5" => backup'.data = backup.data
  PROVE  Retrieved' = Retrieved
<1>1. \A i \in Slots : /\ ValidIn(main[i], misc) <=> main[i].flag = "A5"
                       /\ ValidIn(main'[i], misc) <=> main'[i].flag = "A5"
  BY ValidIsFlagged DEF FlashInv, FlaggedIsWhole
<1>2. Found(main', misc) = Found(main, misc)
  BY <1>1, FoundSame
<1>3. ValidIn(backup', FALSE) <=> ValidIn(backup, FALSE)
  BY DEF ValidIn
<1>4. ValidIn(backup, FALSE) => backup'.data = backup.data
  BY DEF ValidIn
<1> QED
  BY <1>2, <1>3, <1>4 DEF Retrieved

\* The record in the last slot that was written decides, when it has its flag.
LEMMA LastDecides ==
  ASSUME FlashInv, NEW k \in Slots, main[k].flag = "A5", \A i \in Slots : i > k => main[i] = Erased
  PROVE  Retrieved = main[k].data /\ main[k].data \in Values
<1>1. \A i \in Slots : ValidIn(main[i], misc) <=> main[i].flag = "A5"
  BY ValidIsFlagged DEF FlashInv, FlaggedIsWhole
<1>2. Erased.flag # "A5"
  BY DEF Erased
<1>3. \A j \in Slots : ValidIn(main[j], misc) => j <= k
  BY <1>1, <1>2, NSlotsAssumption DEF Slots
<1>4. Found(main, misc) = main[k].data
  BY <1>1, <1>3, FoundIs
<1>5. main[k].data \in Values /\ main[k].data # None
  BY ValuesAssumption, NoneAssumption DEF FlashInv, FlaggedIsWhole
<1> QED
  BY <1>4, <1>5 DEF Retrieved

\* A store that is called begins; one that is at a step without effect stutters.
LEMMA StoreRefines ==
  ASSUME FlashInv, FlashInv', \/ \E v \in Values : Store(v)
                              \/ (StartFull \/ StartWrite) /\ Frame
  PROVE  [Register!Next]_(Register!vars)
<1>1. Retrieved' = Retrieved
  BY SameRetrieved DEF Store, StartFull, StartWrite, Frame
<1>2. CASE \E v \in Values : Store(v)
  BY <1>1, <1>2 DEF Store, Idle, Register!Next, Register!Begin
<1>3. CASE (StartFull \/ StartWrite) /\ Frame
  BY <1>1, <1>3, GoIs DEF StartFull, StartWrite, Frame, FlashInv, LogTypeOK, Steps, Register!vars
<1> QED
  BY <1>2, <1>3

\* A store whose value is taken for stored has found it.
LEMMA SameRefines ==
  ASSUME FlashInv, FlashInv', StartSame, Frame
  PROVE  Register!Next
<1>1. /\ op.step = "start" /\ ~misc /\ next > 1 /\ next <= NSlots /\ main[next - 1].data = op.value
      /\ op' = Idle /\ UNCHANGED <<misc, main, backup, losses, overlaid, stranded>>
  BY DEF StartSame, AlreadyStored, Frame, FlashInv, LogTypeOK
<1>2. op.value \in Values /\ op.value # None /\ next - 1 \in Slots
  BY <1>1, NSlotsAssumption DEF FlashInv, LogTypeOK, Slots
<1>3. Retrieved' = Retrieved
  BY <1>1, SameRetrieved
<1>4. ASSUME ~stranded PROVE Retrieved = op.value
  <2>1. main[next - 1].flag = "A5"
    BY <1>1, <1>2, <1>4 DEF FlashInv, NotStranded
  <2>2. \A i \in Slots : i > next - 1 => main[i] = Erased
    BY <1>1, <1>2, NSlotsAssumption DEF FlashInv, UsedInOrder, NextIsErased, LogTypeOK, Slots
  <2> QED
    BY <1>1, <1>2, <2>1, <2>2, LastDecides
<1> QED
  BY <1>1, <1>2, <1>3, <1>4 DEF Idle, Register!Next, Register!Return

\* A backup that is complete commits the store when the sector holds no record.
LEMMA WriteBackupRefines ==
  ASSUME FlashInv, FlashInv', WriteBackup, Frame
  PROVE  [Register!Next]_(Register!vars)
<1>1. /\ op.step \in {"backupHead", "backupData", "backupFlag"} /\ misc
      /\ op'.value = op.value /\ op.value \in Values /\ op.value # None
      /\ UNCHANGED <<misc, main, next, losses, stranded>>
      /\ overlaid' = (overlaid \/ (op.step = "backupHead" /\ backup # Erased))
  BY GoIs, ValuesAssumption, NoneAssumption DEF WriteBackup, Frame, FlashInv, BackupOfMisc, Steps
<1>2. CASE overlaid'
  BY <1>1, <1>2 DEF Register!Next
<1>3. CASE ~overlaid' /\ op.step # "backupFlag"
  <2>1. backup.flag # "A5" /\ backup'.flag # "A5"
    <3>1. CASE op.step = "backupHead"
      <4>1. backup = Erased /\ op'.step = "backupData"
        BY <1>1, <1>3, <3>1, GoIs DEF WriteBackup, FlashInv, Steps
      <4>2. backup'.flag = "AF"
        BY <1>3, <4>1 DEF FlashInv, BackupOK, Written
      <4>3. backup.flag = "FF"
        BY <4>1 DEF Erased
      <4> QED
        BY <4>2, <4>3
    <3>2. CASE op.step = "backupData"
      <4>1. op'.step = "backupFlag"
        BY <3>2, GoIs DEF WriteBackup, FlashInv, Steps
      <4>2. ~overlaid
        BY <1>1, <1>3
      <4>3. backup.flag = "AF"
        BY <3>2, <4>2 DEF FlashInv, BackupOK, Written
      <4>4. backup'.flag = "AF"
        BY <1>3, <4>1 DEF FlashInv, BackupOK, Written
      <4> QED
        BY <4>3, <4>4
    <3> QED
      BY <1>1, <1>3, <3>1, <3>2
  <2>2. Retrieved' = Retrieved
    BY <1>1, <2>1, SameRetrieved
  <2>3. UNCHANGED overlaid
    BY <1>1, <1>3 DEF FlashInv, LogTypeOK
  <2> QED
    BY <1>1, <2>2, <2>3 DEF Register!vars
<1>4. CASE ~overlaid' /\ op.step = "backupFlag"
  <2>1. overlaid' = overlaid /\ op'.step = "erase"
    BY <1>1, <1>4, GoIs DEF WriteBackup, FlashInv, LogTypeOK, Steps
  <2>2. backup'.flag = "A5" /\ backup'.data = op.value
    BY <1>1, <1>4, <2>1 DEF FlashInv, BackupOK, Written
  <2>3. backup.flag # "A5"
    BY <1>4, <2>1 DEF FlashInv, BackupOK, Written
  <2>4. CASE Found(main, misc) = None
    <3>1. Retrieved' = op.value
      BY <1>1, <2>2, <2>4 DEF Retrieved, ValidIn
    <3> QED
      BY <1>1, <3>1 DEF Register!Next, Register!Commit
  <2>5. CASE Found(main, misc) # None
    <3>1. Retrieved' = Retrieved
      BY <1>1, <2>5 DEF Retrieved
    <3> QED
      BY <1>1, <2>1, <3>1 DEF Register!vars
  <2> QED
    BY <2>4, <2>5
<1> QED
  BY <1>2, <1>3, <1>4

\* The erasure commits the store when there is a backup.
LEMMA EraseRefines ==
  ASSUME FlashInv, FlashInv', EraseMain, Frame
  PROVE  [Register!Next]_(Register!vars)
<1>1. /\ op.step = "erase" /\ op'.value = op.value /\ op.value \in Values /\ op.value # None
      /\ UNCHANGED <<misc, backup, losses, overlaid, stranded>>
      /\ main' = [i \in Slots |-> Erased]
  BY GoIs, ValuesAssumption, NoneAssumption DEF EraseMain, Frame, FlashInv, LogTypeOK, Steps
<1>2. Found(main', misc) = None
  BY <1>1, FoundCases DEF ValidIn, Erased
<1>3. CASE ~misc
  <2>1. Retrieved' = None
    BY <1>1, <1>2, <1>3 DEF Retrieved
  <2> QED
    BY <1>1, <1>3, <2>1 DEF Register!Next, Register!Erase
<1>4. CASE misc /\ ~overlaid
  <2>1. backup.flag = "A5" /\ backup.data = op.value
    BY <1>1, <1>4 DEF FlashInv, BackupOK, Written
  <2>2. Retrieved' = op.value
    BY <1>1, <1>2, <1>4, <2>1 DEF Retrieved, ValidIn
  <2> QED
    BY <1>1, <2>2 DEF Register!Next, Register!Commit
<1>5. CASE overlaid
  BY <1>1, <1>5 DEF Register!Next
<1> QED
  BY <1>3, <1>4, <1>5

\* The flag of the record commits the store.
LEMMA WriteMainRefines ==
  ASSUME FlashInv, FlashInv', WriteMain, Frame
  PROVE  [Register!Next]_(Register!vars)
<1>1. /\ op.step \in {"head", "data", "flag"} /\ op'.value = op.value
      /\ op.value \in Values /\ op.value # None
      /\ UNCHANGED <<misc, backup, next, losses, overlaid, stranded>>
  BY GoIs, ValuesAssumption, NoneAssumption DEF WriteMain, Frame, FlashInv, LogTypeOK, Steps
<1>2. next \in Slots /\ \A i \in Slots \ {next} : main'[i] = main[i]
  <2>1. next \in Slots
    BY <1>1, NSlotsAssumption DEF FlashInv, LogTypeOK, SlotUnderWay, NextIsErased, WriteMain, Slots
  <2> QED
    BY <2>1 DEF WriteMain, FlashInv, LogTypeOK
<1>3. /\ op.step = "head" => op'.step = "data"
      /\ op.step = "data" => op'.step = "flag"
      /\ op.step = "flag" => op'.step = "clean"
  BY GoIs DEF WriteMain, FlashInv, Steps
<1>4. CASE op.step \in {"head", "data"}
  <2>1. main[next].flag # "A5"
    <3>1. op.step = "head" => main[next] = Erased
      BY <1>2, NSlotsAssumption DEF FlashInv, NextIsErased, Slots
    <3>2. op.step = "data" => main[next].flag = "AF"
      BY DEF FlashInv, SlotUnderWay, Written
    <3> QED
      BY <1>4, <3>1, <3>2 DEF Erased
  <2>2. main'[next].flag # "A5"
    BY <1>1, <1>3, <1>4 DEF FlashInv, SlotUnderWay, Written
  <2>3. Retrieved' = Retrieved
    BY <1>1, <1>2, <2>1, <2>2, SameRetrieved
  <2> QED
    BY <1>1, <2>3 DEF Register!vars
<1>5. CASE op.step = "flag"
  <2>1. main'[next].flag = "A5" /\ main'[next].data = op.value
    BY <1>1, <1>3, <1>5 DEF FlashInv, SlotUnderWay, Written
  <2>2. \A i \in Slots : i > next => main'[i] = Erased
    BY <1>1, <1>3, <1>5 DEF FlashInv, UsedInOrder
  <2>3. \A i \in Slots : ValidIn(main'[i], misc) <=> main'[i].flag = "A5"
    BY <1>1, ValidIsFlagged DEF FlashInv, FlaggedIsWhole
  <2>4. \A j \in Slots : ValidIn(main'[j], misc) => j <= next
    BY <1>2, <2>2, <2>3, NSlotsAssumption DEF Erased, Slots
  <2>5. Found(main', misc) = op.value
    BY <1>2, <2>1, <2>3, <2>4, FoundIs
  <2>6. Retrieved' = op.value
    BY <1>1, <2>5 DEF Retrieved
  <2> QED
    BY <1>1, <2>6 DEF Register!Next, Register!Commit
<1> QED
  BY <1>1, <1>4, <1>5

\* A store returns when what a start would find is its value.
LEMMA CleanRefines ==
  ASSUME FlashInv, FlashInv', Clean, Frame
  PROVE  Register!Next
<1>1. /\ op.step = "clean" /\ op'.value = None /\ op.value \in Values /\ op.value # None
      /\ UNCHANGED <<misc, main, losses, overlaid, stranded>> /\ next <= NSlots /\ next \in Slots
  BY ValuesAssumption, NoneAssumption, NSlotsAssumption
     DEF Clean, Idle, Frame, FlashInv, LogTypeOK, SlotUnderWay, Slots
<1>2. main[next].flag = "A5" /\ main[next].data = op.value
  BY <1>1 DEF FlashInv, SlotUnderWay, Written
<1>3. \A i \in Slots : i > next => main[i] = Erased
  BY <1>1 DEF FlashInv, UsedInOrder
<1>4. Retrieved = op.value
  BY <1>1, <1>2, <1>3, LastDecides
<1>5. Retrieved' = Retrieved
  <2>1. Found(main, misc) # None
    <3>1. ValidIn(main[next], misc) /\ \A i \in Slots : ValidIn(main[i], misc) => i <= next
      <4>1. \A i \in Slots : ValidIn(main[i], misc) <=> main[i].flag = "A5"
        BY ValidIsFlagged DEF FlashInv, FlaggedIsWhole
      <4>2. \A i \in Slots : i > next => main[i].flag # "A5"
        BY <1>3 DEF Erased
      <4> QED
        BY <1>1, <1>2, <4>1, <4>2, NSlotsAssumption DEF Slots
    <3> QED
      BY <1>1, <1>2, <3>1, FoundIs
  <2> QED
    BY <1>1, <2>1 DEF Retrieved
<1> QED
  BY <1>1, <1>4, <1>5 DEF Register!Next, Register!Return

\* A power loss changes nothing that the next start finds.
LEMMA PowerLossRefines ==
  ASSUME FlashInv, FlashInv', PowerLoss
  PROVE  Register!Next
<1>1. PICK cells \in CellsAfterLoss : main' = cells[1] /\ backup' = cells[2]
  BY DEF PowerLoss
<1>2. Left(cells)
  BY LeftByLoss
<1>3. op'.value = None /\ losses' = losses + 1 /\ UNCHANGED <<misc, overlaid>>
  BY DEF PowerLoss, Idle
<1>4. ASSUME ~overlaid PROVE Retrieved' = Retrieved
  BY <1>1, <1>2, <1>3, <1>4, SameRetrieved DEF Left
<1> QED
  BY <1>3, <1>4 DEF Register!Next, Register!PowerLoss

\* A store of parameters takes effect at one moment, has taken effect when it
\* returns, and a power loss leaves what it had done: the log of records in
\* flash implements DurableRegister.
THEOREM ImplementsRegister == LogSpec => IsDurableRegister
<1>1. LogInit => FlashInv /\ Register!Init
  <2>1. LogInit => FlashInv
    BY LogInitInv
  <2>2. ASSUME LogInit PROVE Retrieved = None
    <3>1. \A i \in Slots : main[i] = Erased
      BY <2>2 DEF LogInit
    <3>2. Found(main, misc) = None /\ ~ValidIn(backup, FALSE)
      BY <2>2, <3>1, FoundCases DEF LogInit, ValidIn, Erased
    <3> QED
      BY <3>2 DEF Retrieved
  <2>3. LogInit => op.value = None /\ misc \in BOOLEAN /\ losses = 0 /\ ~overlaid /\ ~stranded
    BY DEF LogInit, Idle
  <2> QED
    BY <2>1, <2>2, <2>3 DEF Register!Init
<1>2. FlashInv /\ [LogNext]_logVars => FlashInv'
  BY StepInv
<1>3. FlashInv /\ FlashInv' /\ [LogNext]_logVars => [Register!Next]_(Register!vars)
  <2> SUFFICES ASSUME FlashInv, FlashInv', [LogNext]_logVars
               PROVE  [Register!Next]_(Register!vars)
    OBVIOUS
  <2>1. CASE \E v \in Values : Store(v)
    BY <2>1, StoreRefines
  <2>2. CASE StoreStep
    <3>1. Frame
      BY <2>2 DEF StoreStep, Frame
    <3> QED
      BY <2>2, <3>1, StoreRefines, SameRefines, WriteBackupRefines, EraseRefines, WriteMainRefines,
         CleanRefines DEF StoreStep
  <2>3. CASE PowerLoss
    BY <2>3, PowerLossRefines
  <2>4. CASE UNCHANGED logVars
    BY <2>4 DEF logVars, Register!vars, Retrieved, Found, ValidIn
  <2> QED
    BY <2>1, <2>2, <2>3, <2>4 DEF LogNext
<1> QED
  BY <1>1, <1>2, <1>3, PTL DEF LogSpec, IsDurableRegister, Register!Spec

-----------------------------------------------------------------------------
(* FactoryReset: the inductive invariant *)

\* The sector with v at byte n, cleared before and erased after it.
SectorAt(n, v) == [i \in 0 .. NBytes - 1 |-> IF i < n THEN 0 ELSE IF i = n THEN v ELSE FF]

\* The last k sessions ended between the limits of the first k of the table.
Fits(k) ==
  /\ Len(past) >= k
  /\ \A i \in 1 .. k : InRange(past[Len(past) - k + i], i)

\* ... not in the middle of a write, and after one that lasted.
Chain(k) ==
  /\ Len(past) >= k + 1
  /\ past[Len(past) - k].done
  /\ \A i \in 1 .. k : /\ InRange(past[Len(past) - k + i], i)
                       /\ ~past[Len(past) - k + i].torn

\* A node that has counted k sessions, and one whose count was spoilt.
Counted(k) == Fits(k) /\ \A j \in 0 .. Sessions : Chain(j) => j = k
Spoilt == \A j \in 0 .. Sessions : ~Chain(j)

\* What the flash operations of a call leave to be done for a factory reset.
ResetOps == {EraseCount, Reboot} \union {EraseData(s) : s \in Sectors}
IsReset(q) ==
  /\ q \in Seq(ResetOps) /\ q # <<>>
  /\ \A i \in 1 .. Len(q) :
       /\ i = Len(q) => q[i] = Reboot
       /\ i = Len(q) - 1 => q[i] = EraseCount
       /\ i < Len(q) - 1 => \E s \in Sectors : q[i] = EraseData(s)
Remaining(q) == {s \in Sectors : \E i \in 1 .. Len(q) - 2 : q[i] = EraseData(s)}

\* The main loop is not writing a count, nor has kick_out erased it.
Free == ops = <<>> \/ (IsReset(ops) /\ Len(ops) >= 2)

\* A count c is being written, from c - 1, ...
Writing(c) ==
  \E n \in 0 .. CleanFrom :
    /\ idx = n
    /\ \/ /\ c > 1 /\ n < CleanFrom /\ bytes = SectorAt(n, c - 1)
          /\ ops = <<Write(0), NextByte, Write(c)>>
       \/ c > 1 /\ n < CleanFrom /\ bytes = SectorAt(n + 1, FF) /\ ops = <<NextByte, Write(c)>>
       \/ bytes = SectorAt(n, FF) /\ ops = <<Write(c)>>

\* ... is the present one, ...
Holds(c) == idx < CleanFrom /\ bytes = SectorAt(idx, c)

\* ... or has been cleared.
Cleared == idx < CleanFrom /\ bytes = SectorAt(idx + 1, FF)

\* The k counted sessions and the present one.
CountedSession(k) ==
  \/ st = 3 /\ time = 0 /\ (Writing(2 * k + 1) \/ (Holds(2 * k + 1) /\ Free))
  \/ /\ st = 2 /\ Holds(2 * k + 1) /\ Free
     /\ limit = Serials[2 * k + 1] /\ time <= limit
  \/ /\ st = 1 /\ limit \in {Unread, Serials[2 * k + 2]}
     /\ (Writing(2 * k + 2) /\ limit = Unread) \/ (Holds(2 * k + 2) /\ Free)
     /\ Serials[2 * k + 1] <= time /\ time <= Serials[2 * k + 2]
  \/ st = 0 /\ Holds(2 * k + 2) /\ ops = <<Write(0)>> /\ time = Serials[2 * k + 2]
  \/ st = 0 /\ Cleared /\ Free /\ time >= Serials[2 * k + 2]

\* The session that clears a count that is not valid, and has none.
SpoiltSession ==
  \/ /\ st = 3 /\ ops = <<Write(0), Write(1)>>
     /\ \E c \in 1 .. Trigger : c % 2 = 1 /\ Holds(c)
  \/ st \in 0 .. 3 /\ Cleared /\ (Free \/ ops \in {<<Write(1)>>, <<Write(0)>>})

\* The count was erased by kick_out.
KickedSession == st \in 0 .. 3 /\ ops = <<Reboot>> /\ bytes = SectorAt(0, FF) /\ past = <<>>

\* A start finds the count of the last sessions.
Start ==
  /\ st = 4 /\ time = 0
  /\ \E n \in 0 .. CleanFrom, c \in (1 .. Trigger) \union {FF} :
       /\ bytes = SectorAt(n, c) /\ (n = CleanFrom => c = FF)
       /\ \A k \in 1 .. Sessions : c = 2 * k => Fits(k)
       /\ \A k \in 0 .. Sessions : Chain(k) => c = IF k = 0 THEN FF ELSE 2 * k
       /\ ops = <<>> \/ (IsReset(ops) /\ (Len(ops) >= 2 => c = Trigger))

Session ==
  \/ Start
  \/ \E k \in 0 .. Sessions - 1 : Counted(k) /\ CountedSession(k)
  \/ Spoilt /\ SpoiltSession
  \/ KickedSession

\* What is erased, and by whom.
DataOK ==
  /\ IsReset(ops) => full \subseteq Remaining(ops) /\ (st # 4 => kicked)
  /\ full \notin {{}, Sectors} /\ ~kicked => st = 4 /\ \E n \in 0 .. CleanFrom : bytes = SectorAt(n, Trigger)

\* The shape of the rest of the state.
Ends == [time : Nat, done : BOOLEAN, torn : BOOLEAN]
Shape ==
  /\ limit \in {Unread} \union 0 .. MaxTime
  /\ time \in 0 .. MaxTime
  /\ full \subseteq Sectors
  /\ kicked \in BOOLEAN
  /\ past \in Seq(Ends) /\ Len(past) <= Sessions + 1
  /\ idx \in 0 .. NBytes - 1

ResetInv == Shape /\ Session /\ DataOK

-----------------------------------------------------------------------------
(* Constants and the sector *)

\* What is assumed of the table, the sector and the data.
LEMMA Consts ==
  /\ Sessions \in Nat /\ Sessions >= 1 /\ Trigger = 2 * Sessions /\ Trigger \in 1 .. 99 /\ Trigger \in Nat
  /\ MaxTime \in Nat /\ \A i \in 1 .. Trigger : Serials[i] \in 0 .. MaxTime - 1
  /\ \A k \in 0 .. Sessions - 1 :
       /\ 2 * k + 1 \in 1 .. Trigger /\ 2 * k + 2 \in 1 .. Trigger
       /\ Serials[2 * k + 1] \in 0 .. MaxTime - 1 /\ Serials[2 * k + 2] \in 0 .. MaxTime - 1
       /\ Serials[2 * k + 1] <= Serials[2 * k + 2]
  /\ NBytes \in Nat /\ CleanFrom \in Nat /\ CleanFrom >= 1 /\ CleanFrom <= NBytes - 2
<1>1. Serials \in Seq(0 .. MaxTime - 1) /\ MaxTime \in Nat /\ Trigger % 2 = 0 /\ Trigger \in 1 .. 99
  BY FactoryResetAssumption
<1>2. \A i \in 1 .. Trigger : Serials[i] \in 0 .. MaxTime - 1
  BY <1>1, ElementOfSeq DEF Trigger
<1>3. Sessions \in Nat /\ Trigger = 2 * Sessions /\ Sessions >= 1
  BY <1>1 DEF Sessions
<1>4. ASSUME NEW k \in 0 .. Sessions - 1
      PROVE  /\ 2 * k + 1 \in 1 .. Trigger /\ 2 * k + 2 \in 1 .. Trigger
             /\ Serials[2 * k + 1] <= Serials[2 * k + 2]
  <2>1. k + 1 \in 1 .. Sessions /\ 2 * (k + 1) - 1 = 2 * k + 1 /\ 2 * (k + 1) = 2 * k + 2
    BY <1>3
  <2>2. Serials[2 * (k + 1) - 1] <= Serials[2 * (k + 1)]
    BY <2>1, FactoryResetAssumption
  <2> QED
    BY <1>3, <2>1, <2>2
<1>5. NBytes \in Nat /\ CleanFrom \in 1 .. NBytes - 2
  BY FactoryResetAssumption
<1> QED
  BY <1>1, <1>2, <1>3, <1>4, <1>5

\* A sector is read byte by byte.
LEMMA SectorIs ==
  ASSUME NEW n \in Int, NEW v
  PROVE  /\ DOMAIN SectorAt(n, v) = 0 .. NBytes - 1
         /\ \A i \in 0 .. NBytes - 1 :
              SectorAt(n, v)[i] = IF i < n THEN 0 ELSE IF i = n THEN v ELSE FF
BY DEF SectorAt

\* Its first byte that is not cleared is the one that reset_cnt_get_idx finds.
LEMMA FirstIs ==
  ASSUME NEW n \in 0 .. CleanFrom, NEW v, v # 0, bytes = SectorAt(n, v)
  PROVE  FirstByte = n /\ bytes[n] = v
<1> DEFINE P(i) == bytes[i] # 0 /\ \A j \in 0 .. i - 1 : bytes[j] = 0
<1>1. n \in 0 .. NBytes - 1 /\ n \in Nat /\ NBytes \in Nat
  BY Consts
<1>2. bytes[n] = v /\ \A j \in 0 .. n - 1 : bytes[j] = 0
  BY <1>1, SectorIs
<1>3. ASSUME NEW i \in 0 .. NBytes - 1, P(i) PROVE i = n
  <2>1. CASE i < n
    BY <1>1, <1>2, <1>3, <2>1
  <2>2. CASE i > n
    <3>1. bytes[n] = 0
      BY <1>1, <1>3, <2>2
    <3> QED
      BY <1>2, <3>1
  <2> QED
    BY <1>1, <2>1, <2>2
<1>4. n \in 0 .. NBytes - 1 /\ P(n)
  BY <1>1, <1>2
<1>5. FirstByte = CHOOSE i \in 0 .. NBytes - 1 : P(i)
  BY DEF FirstByte
<1> HIDE DEF P
<1>6. FirstByte = n
  BY <1>3, <1>4, <1>5
<1> QED
  BY <1>2, <1>6

\* Two descriptions of a sector agree.
LEMMA OneSector ==
  ASSUME NEW n \in 0 .. CleanFrom, NEW v, v # 0, NEW m \in 0 .. CleanFrom, NEW w, w # 0,
         SectorAt(n, v) = SectorAt(m, w)
  PROVE  n = m /\ v = w
<1>1. /\ n \in Nat /\ n \in 0 .. NBytes - 1 /\ m \in Nat /\ m \in 0 .. NBytes - 1
  BY Consts
<1>2. SectorAt(n, v)[n] = v /\ SectorAt(m, w)[m] = w
  BY <1>1, SectorIs
<1>3. ~(n < m)
  <2> SUFFICES ASSUME n < m PROVE FALSE
    OBVIOUS
  <2>1. SectorAt(m, w)[n] = 0
    BY <1>1, SectorIs
  <2> QED
    BY <1>2, <2>1
<1>4. ~(m < n)
  <2> SUFFICES ASSUME m < n PROVE FALSE
    OBVIOUS
  <2>1. SectorAt(n, v)[m] = 0
    BY <1>1, SectorIs
  <2> QED
    BY <1>2, <2>1
<1>5. n = m
  BY <1>1, <1>3, <1>4
<1> QED
  BY <1>2, <1>5

\* The writes: a count on an erased byte, 0 over a count, anything over 0.
LEMMA WriteByte ==
  ASSUME NEW n \in 0 .. CleanFrom, NEW v
  PROVE  /\ [SectorAt(n, FF) EXCEPT ![n] = v] = SectorAt(n, v)
         /\ [SectorAt(n, v) EXCEPT ![n] = 0] = SectorAt(n + 1, FF)
         /\ [SectorAt(n + 1, FF) EXCEPT ![n] = 0] = SectorAt(n + 1, FF)
         /\ [i \in DOMAIN SectorAt(n, v) |-> FF] = SectorAt(0, FF)
         /\ SectorAt(n, v)[n] = v /\ SectorAt(n + 1, FF)[n] = 0
<1>1. n \in Int /\ n \in Nat /\ n \in 0 .. NBytes - 1 /\ NBytes \in Nat
  BY Consts
<1>2. [SectorAt(n, FF) EXCEPT ![n] = v] = SectorAt(n, v)
  <2>1. \A i \in 0 .. NBytes - 1 : [SectorAt(n, FF) EXCEPT ![n] = v][i] = SectorAt(n, v)[i]
    BY <1>1, SectorIs
  <2> QED
    BY <2>1 DEF SectorAt
<1>3. [SectorAt(n, v) EXCEPT ![n] = 0] = SectorAt(n + 1, FF)
  <2>1. \A i \in 0 .. NBytes - 1 : [SectorAt(n, v) EXCEPT ![n] = 0][i] = SectorAt(n + 1, FF)[i]
    BY <1>1, SectorIs
  <2> QED
    BY <2>1 DEF SectorAt
<1>4. [SectorAt(n + 1, FF) EXCEPT ![n] = 0] = SectorAt(n + 1, FF)
  BY <1>1 DEF SectorAt
<1>5. [i \in DOMAIN SectorAt(n, v) |-> FF] = SectorAt(0, FF)
  BY <1>1 DEF SectorAt
<1>6. SectorAt(n, v)[n] = v /\ SectorAt(n + 1, FF)[n] = 0
  BY <1>1 DEF SectorAt
<1> QED
  BY <1>2, <1>3, <1>4, <1>5, <1>6

-----------------------------------------------------------------------------
(* The sessions *)

\* A session is added to the history, which forgets the oldest.
Grown(p, e) == SubSeq(Append(p, e), IF Len(p) <= Sessions THEN 1 ELSE 2, Len(p) + 1)

\* The history that results, read from its end.
LEMMA PastGrows ==
  ASSUME past \in Seq(Ends), Len(past) <= Sessions + 1, NEW e \in Ends,
         past' = Grown(past, e)
  PROVE  /\ past' \in Seq(Ends) /\ Len(past') \in 1 .. Sessions + 1 /\ Len(past) \in Nat
         /\ Len(past') = Len(past) + 1 \/ Len(past') = Sessions + 1
         /\ Len(past') <= Len(past) + 1
         /\ past'[Len(past')] = e
         /\ \A i \in 1 .. Len(past') - 1 : past'[Len(past') - i] = past[Len(past) + 1 - i]
<1> DEFINE a == Append(past, e)
           m == IF Len(past) <= Sessions THEN 1 ELSE 2
           n == Len(past) + 1
<1>1. /\ Len(past) \in Nat /\ Sessions \in Nat /\ Sessions >= 1 /\ a \in Seq(Ends) /\ Len(a) = n
      /\ a[n] = e /\ \A i \in 1 .. Len(past) : a[i] = past[i]
  BY AppendProperties, LenProperties, Consts
<1>2. m \in {1, 2} /\ n \in Nat /\ m <= n /\ (m = 2 => Len(past) = Sessions + 1)
      /\ (m = 1 => Len(past) <= Sessions)
  BY <1>1
<1>3. \A i \in m .. n : a[i] \in Ends
  BY <1>1, <1>2, ElementOfSeq
<1>4. past' = SubSeq(a, m, n)
  BY DEF Grown
<1> HIDE DEF a, m, n
<1>5. /\ past' \in Seq(Ends) /\ Len(past') = n - m + 1
      /\ \A i \in 1 .. n - m + 1 : past'[i] = a[m + i - 1]
  <2>1. m \in Int /\ n \in Int
    BY <1>2
  <2>2. /\ SubSeq(a, m, n) \in Seq(Ends)
        /\ Len(SubSeq(a, m, n)) = IF m <= n THEN n - m + 1 ELSE 0
        /\ \A i \in 1 .. n - m + 1 : SubSeq(a, m, n)[i] = a[m + i - 1]
    BY <1>3, <2>1, SubSeqProperties
  <2> QED
    BY <1>2, <1>4, <2>2
<1>6. n = Len(past) + 1
  BY DEF n
<1>7. past'[Len(past')] = e
  <2>1. Len(past') \in 1 .. n - m + 1 /\ m + Len(past') - 1 = n
    BY <1>2, <1>5
  <2>2. past'[Len(past')] = a[m + Len(past') - 1]
    BY <1>5, <2>1
  <2> QED
    BY <1>1, <2>1, <2>2
<1>8. ASSUME NEW i \in 1 .. Len(past') - 1
      PROVE  past'[Len(past') - i] = past[Len(past) + 1 - i]
  <2>1. /\ Len(past') - i \in 1 .. n - m + 1 /\ m + (Len(past') - i) - 1 = n - i
        /\ n - i \in 1 .. Len(past)
    BY <1>1, <1>2, <1>5, <1>6
  <2>2. past'[Len(past') - i] = a[n - i]
    BY <1>5, <2>1
  <2> QED
    BY <1>1, <1>6, <2>1, <2>2
<1> QED
  BY <1>1, <1>2, <1>5, <1>6, <1>7, <1>8

\* One session more that ended between its limits.
LEMMA FitsGrows ==
  ASSUME past \in Seq(Ends), Len(past) <= Sessions + 1, NEW e \in Ends,
         past' = Grown(past, e),
         NEW k \in 0 .. Sessions - 1, Fits(k), InRange(e, k + 1)
  PROVE  Fits(k + 1)'
<1>1. /\ Len(past') \in Nat /\ Len(past) \in Nat /\ Sessions \in Nat /\ Len(past') <= Sessions + 1
      /\ Len(past') = Len(past) + 1 \/ Len(past') = Sessions + 1
      /\ past'[Len(past')] = e
      /\ \A i \in 1 .. Len(past') - 1 : past'[Len(past') - i] = past[Len(past) + 1 - i]
  BY PastGrows, Consts
<1>2. Len(past) >= k /\ \A i \in 1 .. k : InRange(past[Len(past) - k + i], i)
  BY DEF Fits
<1>3. Len(past') >= k + 1
  BY <1>1, <1>2
<1>4. ASSUME NEW i \in 1 .. k + 1
      PROVE  InRange(past'[Len(past') - (k + 1) + i], i)
  <2>1. CASE i = k + 1
    <3>1. Len(past') - (k + 1) + i = Len(past')
      BY <1>1, <2>1
    <3> QED
      BY <1>1, <2>1, <3>1
  <2>2. CASE i # k + 1
    <3>1. i \in 1 .. k /\ (k + 1) - i \in 1 .. Len(past') - 1
      BY <1>1, <1>3, <2>2
    <3>2. past'[Len(past') - ((k + 1) - i)] = past[Len(past) + 1 - ((k + 1) - i)]
      BY <1>1, <3>1
    <3>3. /\ Len(past') - ((k + 1) - i) = Len(past') - (k + 1) + i
          /\ Len(past) + 1 - ((k + 1) - i) = Len(past) - k + i
      BY <1>1, <3>1
    <3> QED
      BY <1>2, <3>1, <3>2, <3>3
  <2> QED
    BY <2>1, <2>2
<1> QED
  BY <1>3, <1>4 DEF Fits

\* A chain of sessions ends with the one just added.
LEMMA ChainGrows ==
  ASSUME past \in Seq(Ends), Len(past) <= Sessions + 1, NEW e \in Ends,
         past' = Grown(past, e),
         NEW k \in 0 .. Sessions, Chain(k)'
  PROVE  IF k = 0 THEN e.done ELSE Chain(k - 1) /\ InRange(e, k) /\ ~e.torn
<1>1. /\ Len(past') \in Nat /\ Len(past) \in Nat /\ Sessions \in Nat /\ Len(past') <= Len(past) + 1
      /\ past'[Len(past')] = e
      /\ \A i \in 1 .. Len(past') - 1 : past'[Len(past') - i] = past[Len(past) + 1 - i]
  BY PastGrows, Consts
<1>2. /\ Len(past') >= k + 1 /\ past'[Len(past') - k].done
      /\ \A i \in 1 .. k : /\ InRange(past'[Len(past') - k + i], i)
                           /\ ~past'[Len(past') - k + i].torn
  BY DEF Chain
<1>3. CASE k = 0
  BY <1>1, <1>2, <1>3
<1>4. CASE k # 0
  <2>1. k \in 1 .. Len(past') - 1 /\ k \in 1 .. k /\ Len(past') - k + k = Len(past')
    <3>1. k \in Nat /\ k >= 1
      BY <1>1, <1>4
    <3>2. Len(past') - k + k = Len(past')
      BY <1>1, <3>1
    <3> QED
      BY <1>1, <1>2, <3>1, <3>2
  <2>2. InRange(e, k) /\ ~e.torn
    BY <1>1, <1>2, <2>1
  <2>3. Len(past) >= (k - 1) + 1 /\ Len(past) + 1 - k = Len(past) - (k - 1)
    BY <1>1, <1>2, <1>4
  <2>4. past[Len(past) - (k - 1)].done
    BY <1>1, <1>2, <2>1, <2>3
  <2>5. ASSUME NEW i \in 1 .. k - 1
        PROVE  /\ InRange(past[Len(past) - (k - 1) + i], i)
               /\ ~past[Len(past) - (k - 1) + i].torn
    <3>1. i \in 1 .. k /\ k - i \in 1 .. Len(past') - 1
      BY <1>1, <1>2, <1>4
    <3>2. past'[Len(past') - (k - i)] = past[Len(past) + 1 - (k - i)]
      BY <1>1, <3>1
    <3>3. /\ Len(past') - (k - i) = Len(past') - k + i
          /\ Len(past) + 1 - (k - i) = Len(past) - (k - 1) + i
      BY <1>1, <3>1
    <3> QED
      BY <1>2, <3>1, <3>2, <3>3
  <2> QED
    BY <1>4, <2>2, <2>3, <2>4, <2>5 DEF Chain
<1> QED
  BY <1>3, <1>4

-----------------------------------------------------------------------------
(* What a factory reset has to do *)

\* What is left ends with the reboot, the count is erased before it, data before that.
LEMMA ResetIs ==
  ASSUME NEW q, IsReset(q)
  PROVE  /\ Len(q) \in Nat /\ Len(q) >= 1 /\ q # <<>> /\ q[Len(q)] = Reboot /\ Head(q) = q[1]
         /\ Tail(q) \in Seq(ResetOps) /\ Len(Tail(q)) = Len(q) - 1
         /\ \A i \in 1 .. Len(q) - 1 : Tail(q)[i] = q[i + 1]
         /\ Len(q) = 1 => q = <<Reboot>>
<1>1. q \in Seq(ResetOps) /\ q # <<>>
  BY DEF IsReset
<1>2. Len(q) \in Nat /\ Len(q) >= 1
  BY <1>1, EmptySeq
<1>3. q[Len(q)] = Reboot
  BY <1>2 DEF IsReset
<1>4. /\ Tail(q) \in Seq(ResetOps) /\ Len(Tail(q)) = Len(q) - 1
      /\ \A i \in 1 .. Len(q) - 1 : Tail(q)[i] = q[i + 1]
  BY <1>1, <1>2, HeadTailProperties
<1>5. Len(q) = 1 => q = <<Reboot>>
  BY <1>1, <1>3
<1> QED
  BY <1>1, <1>2, <1>3, <1>4, <1>5

\* The count is next, or data.
LEMMA TwoOrMore ==
  ASSUME NEW q, IsReset(q), Len(q) >= 2
  PROVE  Len(q) = 2 \/ Len(q) > 2
<1>1. Len(q) \in Nat
  BY ResetIs
<1>2. \A n \in Nat : n >= 2 => n = 2 \/ n > 2
  OBVIOUS
<1> QED
  BY <1>1, <1>2

\* One operation of it is done.
LEMMA ResetTail ==
  ASSUME NEW q, IsReset(q), Len(q) >= 2
  PROVE  /\ IsReset(Tail(q)) /\ Len(Tail(q)) = Len(q) - 1
         /\ Len(q) = 2 => Head(q) = EraseCount /\ Tail(q) = <<Reboot>> /\ Remaining(q) = {}
         /\ Len(q) > 2 => \E s \in Sectors : /\ Head(q) = EraseData(s)
                                             /\ Remaining(q) \subseteq Remaining(Tail(q)) \union {s}
<1> DEFINE r == Tail(q)
<1>1. /\ Len(q) \in Nat /\ q[Len(q)] = Reboot /\ Head(q) = q[1]
      /\ r \in Seq(ResetOps) /\ Len(r) = Len(q) - 1 /\ \A i \in 1 .. Len(q) - 1 : r[i] = q[i + 1]
  BY ResetIs
<1>2. \A i \in 1 .. Len(q) :
        /\ i = Len(q) => q[i] = Reboot
        /\ i = Len(q) - 1 => q[i] = EraseCount
        /\ i < Len(q) - 1 => \E s \in Sectors : q[i] = EraseData(s)
  BY DEF IsReset
<1>3. r # <<>>
  BY <1>1
<1> HIDE DEF r
<1>4. ASSUME NEW i \in 1 .. Len(r)
      PROVE  /\ i = Len(r) => r[i] = Reboot
             /\ i = Len(r) - 1 => r[i] = EraseCount
             /\ i < Len(r) - 1 => \E s \in Sectors : r[i] = EraseData(s)
  <2>1. r[i] = q[i + 1] /\ i + 1 \in 1 .. Len(q)
    BY <1>1
  <2>2. /\ i = Len(r) => i + 1 = Len(q)
        /\ i = Len(r) - 1 => i + 1 = Len(q) - 1
        /\ i < Len(r) - 1 => i + 1 < Len(q) - 1
    BY <1>1
  <2> QED
    BY <1>2, <2>1, <2>2
<1>5. IsReset(r)
  BY <1>1, <1>3, <1>4 DEF IsReset
<1>6. CASE Len(q) = 2
  <2>1. Head(q) = EraseCount
    BY <1>1, <1>2, <1>6
  <2>2. r = <<Reboot>>
    BY <1>1, <1>5, <1>6, ResetIs
  <2>3. Remaining(q) = {}
    BY <1>6 DEF Remaining
  <2> QED
    BY <1>1, <1>5, <1>6, <2>1, <2>2, <2>3 DEF r
<1>7. CASE Len(q) > 2
  <2>1. PICK s \in Sectors : Head(q) = EraseData(s)
    BY <1>1, <1>2, <1>7
  <2>2. ASSUME NEW d \in Sectors, NEW i \in 1 .. Len(q) - 2, q[i] = EraseData(d), d # s
        PROVE  d \in Remaining(r)
    <3>1. i # 1
      BY <1>1, <2>1, <2>2 DEF EraseData
    <3>2. i - 1 \in 1 .. Len(r) - 2 /\ i - 1 \in 1 .. Len(q) - 1 /\ (i - 1) + 1 = i
      BY <1>1, <3>1
    <3>3. r[i - 1] = EraseData(d)
      BY <1>1, <2>2, <3>2
    <3> QED
      BY <3>2, <3>3 DEF Remaining
  <2>3. Remaining(q) \subseteq Remaining(r) \union {s}
    BY <2>2 DEF Remaining
  <2> QED
    BY <1>1, <1>5, <1>7, <2>1, <2>3 DEF r
<1> QED
  BY <1>1, <1>6, <1>7

\* factory_reset has all of it to do.
LEMMA ResetBegins ==
  /\ IsReset(FactoryResetOps) /\ Len(FactoryResetOps) >= 3
  /\ Sectors \subseteq Remaining(FactoryResetOps) /\ Sectors # {}
<1> DEFINE a == [i \in DOMAIN Data |-> EraseData(Data[i])]
           b == <<EraseCount, Reboot>>
           q == FactoryResetOps
<1>1. Data \in Seq(Sectors) /\ Data # <<>>
  BY FactoryResetAssumption DEF Sectors
<1>2. /\ Len(Data) \in Nat /\ Len(Data) >= 1 /\ DOMAIN Data = 1 .. Len(Data)
      /\ \A i \in 1 .. Len(Data) : Data[i] \in Sectors
  BY <1>1, LenProperties, EmptySeq, ElementOfSeq
<1>3. a \in Seq(ResetOps) /\ Len(a) = Len(Data) /\ \A i \in 1 .. Len(Data) : a[i] = EraseData(Data[i])
  <2>1. \A i \in 1 .. Len(Data) : EraseData(Data[i]) \in ResetOps
    BY <1>2 DEF ResetOps
  <2>2. a = [i \in 1 .. Len(Data) |-> EraseData(Data[i])]
    BY <1>2
  <2> QED
    BY <1>2, <2>1, <2>2
<1>4. b \in Seq(ResetOps) /\ Len(b) = 2 /\ b[1] = EraseCount /\ b[2] = Reboot
  BY DEF ResetOps
<1>5. q = a \o b
  BY DEF FactoryResetOps
<1> HIDE DEF a, b, q
<1>6. /\ q \in Seq(ResetOps) /\ Len(q) = Len(Data) + 2
      /\ \A i \in 1 .. Len(Data) : q[i] = EraseData(Data[i])
      /\ q[Len(Data) + 1] = EraseCount /\ q[Len(Data) + 2] = Reboot
  <2>0. a \in Seq(ResetOps) /\ b \in Seq(ResetOps)
    BY <1>3, <1>4
  <2>1. /\ a \o b \in Seq(ResetOps) /\ Len(a \o b) = Len(a) + Len(b)
        /\ \A i \in 1 .. Len(a) + Len(b) : (a \o b)[i] = IF i <= Len(a) THEN a[i] ELSE b[i - Len(a)]
    BY <2>0, ConcatProperties
  <2> QED
    BY <1>2, <1>3, <1>4, <1>5, <2>1
<1>7. IsReset(q)
  <2>1. q # <<>>
    BY <1>2, <1>6
  <2>2. ASSUME NEW i \in 1 .. Len(q)
        PROVE  /\ i = Len(q) => q[i] = Reboot
               /\ i = Len(q) - 1 => q[i] = EraseCount
               /\ i < Len(q) - 1 => \E s \in Sectors : q[i] = EraseData(s)
    BY <1>2, <1>6
  <2> QED
    BY <1>6, <2>1, <2>2 DEF IsReset
<1>8. ASSUME NEW s \in Sectors PROVE s \in Remaining(q)
  <2>1. PICK i \in DOMAIN Data : Data[i] = s
    BY DEF Sectors, Range
  <2>2. i \in 1 .. Len(q) - 2 /\ q[i] = EraseData(s)
    BY <1>2, <1>6, <2>1
  <2> QED
    BY <2>2 DEF Remaining
<1>9. Sectors # {}
  BY <1>2
<1> QED
  BY <1>2, <1>6, <1>7, <1>8, <1>9 DEF q

\* A call that writes a count has no reset to do.
LEMMA NotReset ==
  ASSUME NEW c
  PROVE  /\ ~IsReset(<<>>) /\ ~IsReset(<<Write(c)>>) /\ ~IsReset(<<NextByte, Write(c)>>)
         /\ ~IsReset(<<Write(0), NextByte, Write(c)>>) /\ ~IsReset(<<Write(0), Write(c)>>)
<1>1. Write(c) # Reboot
  BY DEF Write, Reboot
<1> DEFINE q1 == <<Write(c)>>
           q2 == <<NextByte, Write(c)>>
           q3 == <<Write(0), NextByte, Write(c)>>
           q4 == <<Write(0), Write(c)>>
<1>2. /\ Len(q1) = 1 /\ q1[1] = Write(c) /\ Len(q2) = 2 /\ q2[2] = Write(c)
      /\ Len(q3) = 3 /\ q3[3] = Write(c) /\ Len(q4) = 2 /\ q4[2] = Write(c)
  OBVIOUS
<1>3. ~IsReset(<<>>)
  BY DEF IsReset
<1> HIDE DEF q1, q2, q3, q4
<1>4. ~IsReset(q1) /\ ~IsReset(q2) /\ ~IsReset(q3) /\ ~IsReset(q4)
  BY <1>1, <1>2, ResetIs
<1> QED
  BY <1>3, <1>4 DEF q1, q2, q3, q4

-----------------------------------------------------------------------------
(* Flash operations *)

\* One write: the sector is erased before it where the code does so.
LEMMA OneWrite ==
  ASSUME NEW v, FlashOp, Head(ops) = Write(v)
  PROVE  /\ ops' = Tail(ops) /\ idx' = Cleaned[2]
         /\ bytes' = [Cleaned[1] EXCEPT ![Cleaned[2]] = IF @ = FF THEN v ELSE 0]
         /\ UNCHANGED <<st, limit, time, full, kicked, past>>
BY DEF FlashOp, Write

\* On an erased byte it leaves the value, ...
LEMMA WritesCount ==
  ASSUME NEW v, FlashOp, Head(ops) = Write(v), idx \in 0 .. CleanFrom, bytes = SectorAt(idx, FF)
  PROVE  /\ ops' = Tail(ops) /\ Holds(v)' /\ idx' \in Nat
         /\ UNCHANGED <<st, limit, time, full, kicked, past>>
<1>1. /\ ops' = Tail(ops) /\ idx' = Cleaned[2]
      /\ bytes' = [Cleaned[1] EXCEPT ![Cleaned[2]] = IF @ = FF THEN v ELSE 0]
      /\ UNCHANGED <<st, limit, time, full, kicked, past>>
  BY OneWrite
<1>2. CleanFrom \in Nat /\ CleanFrom >= 1 /\ idx \in Nat
  BY Consts
<1>3. CASE idx < CleanFrom
  <2>1. Cleaned[1] = SectorAt(idx, FF) /\ Cleaned[2] = idx
    BY <1>3 DEF Cleaned
  <2>2. SectorAt(idx, FF)[idx] = FF /\ [SectorAt(idx, FF) EXCEPT ![idx] = v] = SectorAt(idx, v)
    BY <1>2, WriteByte
  <2>3. idx' = idx /\ bytes' = SectorAt(idx, v)
    BY <1>1, <2>1, <2>2
  <2> QED
    BY <1>1, <1>2, <1>3, <2>3 DEF Holds
<1>4. CASE ~(idx < CleanFrom)
  <2>1. Cleaned[1] = SectorAt(0, FF) /\ Cleaned[2] = 0
    BY <1>4, WriteByte DEF Cleaned
  <2>2. 0 \in 0 .. CleanFrom
    BY <1>2
  <2>3. SectorAt(0, FF)[0] = FF /\ [SectorAt(0, FF) EXCEPT ![0] = v] = SectorAt(0, v)
    BY <2>2, WriteByte
  <2>4. idx' = 0 /\ bytes' = SectorAt(0, v)
    BY <1>1, <2>1, <2>3
  <2> QED
    BY <1>1, <1>2, <2>4 DEF Holds
<1> QED
  BY <1>3, <1>4

\* ... a count is cleared, ...
LEMMA ClearsCount ==
  ASSUME NEW c, FlashOp, Head(ops) = Write(0), idx \in 0 .. CleanFrom, Holds(c)
  PROVE  /\ ops' = Tail(ops) /\ Cleared' /\ idx' = idx
         /\ UNCHANGED <<st, limit, time, full, kicked, past>>
<1>1. /\ ops' = Tail(ops) /\ idx' = Cleaned[2]
      /\ bytes' = [Cleaned[1] EXCEPT ![Cleaned[2]] = IF @ = FF THEN 0 ELSE 0]
      /\ UNCHANGED <<st, limit, time, full, kicked, past>>
  BY OneWrite
<1>2. Cleaned[1] = SectorAt(idx, c) /\ Cleaned[2] = idx /\ idx < CleanFrom
  BY DEF Cleaned, Holds
<1>3. [SectorAt(idx, c) EXCEPT ![idx] = 0] = SectorAt(idx + 1, FF)
  BY WriteByte
<1>4. bytes' = SectorAt(idx + 1, FF) /\ idx' = idx
  BY <1>1, <1>2, <1>3
<1> QED
  BY <1>1, <1>2, <1>4 DEF Cleared

\* ... and a cleared byte stays so.
LEMMA WritesOver ==
  ASSUME NEW v, FlashOp, Head(ops) = Write(v), idx \in 0 .. CleanFrom, Cleared
  PROVE  /\ ops' = Tail(ops) /\ Cleared' /\ idx' = idx
         /\ UNCHANGED <<st, limit, time, full, kicked, past>>
<1>1. /\ ops' = Tail(ops) /\ idx' = Cleaned[2]
      /\ bytes' = [Cleaned[1] EXCEPT ![Cleaned[2]] = IF @ = FF THEN v ELSE 0]
      /\ UNCHANGED <<st, limit, time, full, kicked, past>>
  BY OneWrite
<1>2. Cleaned[1] = SectorAt(idx + 1, FF) /\ Cleaned[2] = idx /\ idx < CleanFrom
  BY DEF Cleaned, Cleared
<1>3. SectorAt(idx + 1, FF)[idx] = 0 /\ [SectorAt(idx + 1, FF) EXCEPT ![idx] = 0] = SectorAt(idx + 1, FF)
  BY WriteByte
<1>4. bytes' = SectorAt(idx + 1, FF) /\ idx' = idx
  BY <1>1, <1>2, <1>3 DEF FF
<1> QED
  BY <1>1, <1>2, <1>4 DEF Cleared

\* A count that is being written goes through its steps and is then the present one.
LEMMA WritingStep ==
  ASSUME NEW c \in 1 .. Trigger, Writing(c), FlashOp
  PROVE  /\ Writing(c)' \/ (Holds(c)' /\ ops' = <<>> /\ idx' \in Nat)
         /\ UNCHANGED <<st, limit, time, full, kicked, past>>
<1>1. PICK n \in 0 .. CleanFrom :
        /\ idx = n
        /\ \/ /\ c > 1 /\ n < CleanFrom /\ bytes = SectorAt(n, c - 1)
              /\ ops = <<Write(0), NextByte, Write(c)>>
           \/ c > 1 /\ n < CleanFrom /\ bytes = SectorAt(n + 1, FF) /\ ops = <<NextByte, Write(c)>>
           \/ bytes = SectorAt(n, FF) /\ ops = <<Write(c)>>
  BY DEF Writing
<1>2. n \in Nat /\ CleanFrom \in Nat
  BY Consts
<1>3. CASE c > 1 /\ n < CleanFrom /\ bytes = SectorAt(n, c - 1) /\ ops = <<Write(0), NextByte, Write(c)>>
  <2>1. Head(ops) = Write(0) /\ Tail(ops) = <<NextByte, Write(c)>>
    BY <1>3
  <2>2. Holds(c - 1)
    BY <1>1, <1>3 DEF Holds
  <2>3. /\ ops' = <<NextByte, Write(c)>> /\ idx' = n /\ bytes' = SectorAt(n + 1, FF)
        /\ UNCHANGED <<st, limit, time, full, kicked, past>>
    BY <1>1, <2>1, <2>2, ClearsCount DEF Cleared
  <2> QED
    BY <1>1, <1>3, <2>3 DEF Writing
<1>4. CASE c > 1 /\ n < CleanFrom /\ bytes = SectorAt(n + 1, FF) /\ ops = <<NextByte, Write(c)>>
  <2>1. Head(ops) = NextByte /\ Tail(ops) = <<Write(c)>>
    BY <1>4
  <2>2. /\ ops' = <<Write(c)>> /\ idx' = n + 1 /\ bytes' = bytes
        /\ UNCHANGED <<st, limit, time, full, kicked, past>>
    BY <1>1, <2>1 DEF FlashOp, NextByte
  <2>3. n + 1 \in 0 .. CleanFrom
    BY <1>2, <1>4
  <2> QED
    BY <1>4, <2>2, <2>3 DEF Writing
<1>5. CASE bytes = SectorAt(n, FF) /\ ops = <<Write(c)>>
  <2>1. Head(ops) = Write(c) /\ Tail(ops) = <<>>
    BY <1>5
  <2> QED
    BY <1>1, <1>5, <2>1, WritesCount
<1> QED
  BY <1>1, <1>3, <1>4, <1>5

\* A factory reset goes on: data is erased, and last the count.
LEMMA ResetStep ==
  ASSUME IsReset(ops), Len(ops) >= 2, full \subseteq Remaining(ops), FlashOp
  PROVE  /\ IsReset(ops') /\ Len(ops') \in Nat /\ Len(ops') = Len(ops) - 1
         /\ full' \subseteq Remaining(ops') /\ full' \subseteq full
         /\ UNCHANGED <<idx, st, limit, time, kicked>>
         /\ Len(ops) > 2 => bytes' = bytes /\ past' = past
         /\ Len(ops) = 2 => /\ bytes' = [i \in DOMAIN bytes |-> FF] /\ past' = <<>> /\ ops' = <<Reboot>>
                            /\ full' = {}
<1>1. /\ Len(ops) \in Nat /\ IsReset(Tail(ops)) /\ Len(Tail(ops)) = Len(ops) - 1
      /\ Len(ops) = 2 => Head(ops) = EraseCount /\ Tail(ops) = <<Reboot>> /\ Remaining(ops) = {}
      /\ Len(ops) > 2 => \E s \in Sectors : /\ Head(ops) = EraseData(s)
                                            /\ Remaining(ops) \subseteq Remaining(Tail(ops)) \union {s}
  BY ResetTail, ResetIs
<1>2. ops' = Tail(ops)
  BY DEF FlashOp
<1>3. CASE Len(ops) = 2
  <2>1. Head(ops).op = "count"
    BY <1>1, <1>3 DEF EraseCount
  <2>2. /\ bytes' = [i \in DOMAIN bytes |-> FF] /\ past' = <<>>
        /\ UNCHANGED <<idx, st, limit, time, full, kicked>>
    BY <2>1 DEF FlashOp
  <2> QED
    BY <1>1, <1>2, <1>3, <2>2
<1>4. CASE Len(ops) > 2
  <2>1. PICK s \in Sectors : /\ Head(ops) = EraseData(s)
                             /\ Remaining(ops) \subseteq Remaining(Tail(ops)) \union {s}
    BY <1>1, <1>4
  <2>2. Head(ops).op = "data" /\ Head(ops).value = s
    BY <2>1 DEF EraseData
  <2>3. full' = full \ {s} /\ UNCHANGED <<bytes, idx, st, limit, time, kicked, past>>
    BY <2>2 DEF FlashOp
  <2> QED
    BY <1>1, <1>2, <1>4, <2>1, <2>3
<1>5. Len(ops) = 2 \/ Len(ops) > 2
  BY TwoOrMore
<1> QED
  BY <1>3, <1>4, <1>5

-----------------------------------------------------------------------------
(* The steps of a session *)

\* Without a power cycle the history is what it was.
LEMMA SameHistory ==
  ASSUME past' = past
  PROVE  /\ \A k : Fits(k) => Fits(k)'
         /\ \A k : Chain(k)' => Chain(k)
         /\ \A k : Counted(k) => Counted(k)'
         /\ Spoilt => Spoilt'
<1>1. \A k : (Fits(k) <=> Fits(k)') /\ (Chain(k) <=> Chain(k)')
  BY DEF Fits, Chain
<1> QED
  BY <1>1 DEF Counted, Spoilt

\* The data while no reset is under way, ...
LEMMA SameData ==
  ASSUME DataOK, st # 4, ~IsReset(ops'), UNCHANGED <<full, kicked>>
  PROVE  DataOK'
BY DEF DataOK

\* ... and while kick_out erases it.
LEMMA KickedData ==
  ASSUME kicked', IsReset(ops') => full' \subseteq Remaining(ops')
  PROVE  DataOK'
BY DEF DataOK

\* Calls that write a count.
LEMMA WritingIs ==
  ASSUME NEW c, Writing(c)
  PROVE  /\ ~IsReset(ops) /\ ops # <<>> /\ idx \in 0 .. CleanFrom
         /\ ops[Len(ops)] = Write(c)
<1>1. PICK n \in 0 .. CleanFrom :
        /\ idx = n
        /\ ops \in {<<Write(0), NextByte, Write(c)>>, <<NextByte, Write(c)>>, <<Write(c)>>}
  BY DEF Writing
<1>2. ~IsReset(ops)
  BY <1>1, NotReset
<1>3. CASE ops = <<Write(0), NextByte, Write(c)>>
  BY <1>1, <1>2, <1>3
<1>4. CASE ops = <<NextByte, Write(c)>>
  BY <1>1, <1>2, <1>4
<1>5. CASE ops = <<Write(c)>>
  BY <1>1, <1>2, <1>5
<1> QED
  BY <1>1, <1>3, <1>4, <1>5

\* ... and the same of the next state.
LEMMA WritingNext ==
  ASSUME NEW c, Writing(c)'
  PROVE  ~IsReset(ops') /\ idx' \in 0 .. CleanFrom
BY NotReset DEF Writing

\* An operation of kick_out, whose last but one erases the count.
LEMMA FreeStep ==
  ASSUME Free, DataOK, st \in 0 .. 3, FlashOp, NEW n \in 0 .. CleanFrom, NEW v, bytes = SectorAt(n, v)
  PROVE  /\ DataOK' /\ full' \subseteq full /\ kicked' = kicked /\ UNCHANGED <<idx, st, limit, time>>
         /\ (bytes' = bytes /\ past' = past /\ Free') \/ KickedSession'
<1>1. IsReset(ops) /\ Len(ops) >= 2 /\ full \subseteq Remaining(ops) /\ kicked
  BY DEF Free, DataOK, FlashOp
<1>2. /\ IsReset(ops') /\ Len(ops') \in Nat /\ Len(ops') = Len(ops) - 1
      /\ full' \subseteq Remaining(ops') /\ full' \subseteq full
      /\ UNCHANGED <<idx, st, limit, time, kicked>>
      /\ Len(ops) > 2 => bytes' = bytes /\ past' = past
      /\ Len(ops) = 2 => /\ bytes' = [i \in DOMAIN bytes |-> FF] /\ past' = <<>> /\ ops' = <<Reboot>>
                         /\ full' = {}
  BY <1>1, ResetStep
<1>3. DataOK'
  BY <1>1, <1>2, KickedData
<1>4. Len(ops) \in Nat
  BY <1>1, ResetIs
<1>5. CASE Len(ops) > 2
  <2>1. Len(ops') >= 2
    BY <1>2, <1>4, <1>5
  <2> QED
    BY <1>2, <1>3, <1>5, <2>1 DEF Free
<1>6. CASE Len(ops) = 2
  <2>1. bytes' = SectorAt(0, FF)
    <3>1. [i \in DOMAIN SectorAt(n, v) |-> FF] = SectorAt(0, FF)
      BY WriteByte
    <3> QED
      BY <1>2, <1>6, <3>1
  <2> QED
    BY <1>2, <1>3, <1>6, <2>1 DEF KickedSession
<1>7. Len(ops) = 2 \/ Len(ops) > 2
  BY <1>1, TwoOrMore
<1> QED
  BY <1>5, <1>6, <1>7

\* A flash operation in a session that counts.
LEMMA CountedFlashOp ==
  ASSUME Shape, DataOK, NEW k \in 0 .. Sessions - 1, Counted(k), CountedSession(k), FlashOp
  PROVE  /\ DataOK' /\ full' \subseteq full /\ kicked' = kicked /\ idx' \in 0 .. NBytes - 1
         /\ limit' = limit /\ time' = time /\ (past' = past \/ past' = <<>>)
         /\ (Counted(k)' /\ CountedSession(k)') \/ KickedSession'
<1>1. /\ 2 * k + 1 \in 1 .. Trigger /\ 2 * k + 2 \in 1 .. Trigger
      /\ CleanFrom \in Nat /\ NBytes \in Nat /\ CleanFrom <= NBytes - 2
  BY Consts
<1>2. ops # <<>> /\ idx \in Nat /\ idx \in 0 .. NBytes - 1
  BY <1>1 DEF FlashOp, Shape
<1>3. ASSUME NEW c \in 1 .. Trigger, Writing(c), st # 4
      PROVE  /\ DataOK' /\ UNCHANGED <<full, kicked, st, limit, time, past>> /\ idx' \in 0 .. NBytes - 1
             /\ Writing(c)' \/ (Holds(c)' /\ Free')
  <2>1. /\ Writing(c)' \/ (Holds(c)' /\ ops' = <<>> /\ idx' \in Nat)
        /\ UNCHANGED <<st, limit, time, full, kicked, past>>
    BY <1>3, WritingStep
  <2>2. ~IsReset(ops') /\ idx' \in 0 .. NBytes - 1
    <3>1. CASE Writing(c)'
      BY <1>1, <3>1, WritingNext
    <3>2. CASE Holds(c)' /\ ops' = <<>> /\ idx' \in Nat
      <4>1. ~IsReset(<<>>)
        BY DEF IsReset
      <4> QED
        BY <1>1, <3>2, <4>1 DEF Holds
    <3> QED
      BY <2>1, <3>1, <3>2
  <2> QED
    BY <1>3, <2>1, <2>2, SameData DEF Free
<1>4. ASSUME NEW c, Holds(c), Free, st \in 0 .. 3
      PROVE  /\ DataOK' /\ full' \subseteq full /\ kicked' = kicked /\ UNCHANGED <<idx, st, limit, time>>
             /\ (past' = past /\ Holds(c)' /\ Free') \/ KickedSession'
  <2>1. idx \in 0 .. CleanFrom /\ bytes = SectorAt(idx, c)
    BY <1>1, <1>2, <1>4 DEF Holds
  <2>2. /\ DataOK' /\ full' \subseteq full /\ kicked' = kicked /\ UNCHANGED <<idx, st, limit, time>>
        /\ (bytes' = bytes /\ past' = past /\ Free') \/ KickedSession'
    BY <1>4, <2>1, FreeStep
  <2> QED
    BY <1>4, <2>2 DEF Holds
<1>5. ASSUME past' = past PROVE Counted(k)'
  BY <1>5, SameHistory
<1>6. KickedSession' => past' = <<>>
  BY DEF KickedSession
<1>7. CASE st = 3 /\ time = 0 /\ (Writing(2 * k + 1) \/ (Holds(2 * k + 1) /\ Free))
  <2>1. CASE Writing(2 * k + 1)
    BY <1>1, <1>3, <1>5, <1>7, <2>1 DEF CountedSession
  <2>2. CASE Holds(2 * k + 1) /\ Free
    BY <1>2, <1>4, <1>5, <1>6, <1>7, <2>2 DEF CountedSession
  <2> QED
    BY <1>7, <2>1, <2>2
<1>8. CASE st = 2 /\ Holds(2 * k + 1) /\ Free /\ limit = Serials[2 * k + 1] /\ time <= limit
  BY <1>2, <1>4, <1>5, <1>6, <1>8 DEF CountedSession
<1>9. CASE /\ st = 1 /\ limit \in {Unread, Serials[2 * k + 2]}
           /\ (Writing(2 * k + 2) /\ limit = Unread) \/ (Holds(2 * k + 2) /\ Free)
           /\ Serials[2 * k + 1] <= time /\ time <= Serials[2 * k + 2]
  <2>1. CASE Writing(2 * k + 2) /\ limit = Unread
    BY <1>1, <1>3, <1>5, <1>9, <2>1 DEF CountedSession
  <2>2. CASE Holds(2 * k + 2) /\ Free
    BY <1>2, <1>4, <1>5, <1>6, <1>9, <2>2 DEF CountedSession
  <2> QED
    BY <1>9, <2>1, <2>2
<1>10. CASE st = 0 /\ Holds(2 * k + 2) /\ ops = <<Write(0)>> /\ time = Serials[2 * k + 2]
  <2>1. Head(ops) = Write(0) /\ Tail(ops) = <<>> /\ idx \in 0 .. CleanFrom
    BY <1>1, <1>2, <1>10 DEF Holds
  <2>2. ops' = <<>> /\ Cleared' /\ idx' = idx /\ UNCHANGED <<st, limit, time, full, kicked, past>>
    BY <1>10, <2>1, ClearsCount
  <2>3. DataOK'
    <3>1. ~IsReset(<<>>)
      BY DEF IsReset
    <3> QED
      BY <1>10, <2>2, <3>1, SameData
  <2>4. time >= Serials[2 * k + 2]
    BY <1>1, <1>10 DEF Shape
  <2> QED
    BY <1>2, <1>5, <1>10, <2>2, <2>3, <2>4 DEF CountedSession, Free
<1>11. CASE st = 0 /\ Cleared /\ Free /\ time >= Serials[2 * k + 2]
  <2>1. idx + 1 \in 0 .. CleanFrom /\ bytes = SectorAt(idx + 1, FF)
    BY <1>1, <1>2, <1>11 DEF Cleared
  <2>2. /\ DataOK' /\ full' \subseteq full /\ kicked' = kicked /\ UNCHANGED <<idx, st, limit, time>>
        /\ (bytes' = bytes /\ past' = past /\ Free') \/ KickedSession'
    BY <1>11, <2>1, FreeStep
  <2>3. bytes' = bytes => Cleared'
    BY <1>11, <2>2 DEF Cleared
  <2> QED
    BY <1>2, <1>5, <1>6, <1>11, <2>2, <2>3 DEF CountedSession
<1> QED
  BY <1>7, <1>8, <1>9, <1>10, <1>11 DEF CountedSession

\* A flash operation in a session whose count was spoilt.
LEMMA SpoiltFlashOp ==
  ASSUME Shape, DataOK, Spoilt, SpoiltSession, FlashOp
  PROVE  /\ DataOK' /\ full' \subseteq full /\ kicked' = kicked /\ idx' \in 0 .. NBytes - 1
         /\ limit' = limit /\ time' = time /\ (past' = past \/ past' = <<>>)
         /\ (Spoilt' /\ SpoiltSession') \/ KickedSession'
<1>1. CleanFrom \in Nat /\ NBytes \in Nat /\ CleanFrom <= NBytes - 2
  BY Consts
<1>2. ops # <<>> /\ idx \in Nat /\ idx \in 0 .. NBytes - 1 /\ ~IsReset(<<>>)
  BY <1>1 DEF FlashOp, Shape, IsReset
<1>3. ASSUME past' = past PROVE Spoilt'
  BY <1>3, SameHistory
<1>4. ASSUME NEW c \in 1 .. Trigger, st = 3, ops = <<Write(0), Write(1)>>, Holds(c)
      PROVE  /\ DataOK' /\ full' = full /\ kicked' = kicked /\ idx' = idx /\ UNCHANGED <<limit, time, past>>
             /\ SpoiltSession'
  <2>1. Head(ops) = Write(0) /\ Tail(ops) = <<Write(1)>> /\ idx \in 0 .. CleanFrom
    BY <1>1, <1>2, <1>4 DEF Holds
  <2>2. ops' = <<Write(1)>> /\ Cleared' /\ idx' = idx /\ UNCHANGED <<st, limit, time, full, kicked, past>>
    BY <1>4, <2>1, ClearsCount
  <2>3. ~IsReset(ops')
    BY <2>2, NotReset
  <2>4. DataOK'
    BY <1>4, <2>2, <2>3, SameData
  <2> QED
    BY <1>4, <2>2, <2>4 DEF SpoiltSession
<1>5. CASE st \in 0 .. 3 /\ Cleared /\ ops \in {<<Write(1)>>, <<Write(0)>>}
  <2>1. \E v \in {0, 1} : ops = <<Write(v)>>
    BY <1>5
  <2>2. PICK v \in {0, 1} : Head(ops) = Write(v) /\ Tail(ops) = <<>>
    BY <2>1
  <2>3. idx \in 0 .. CleanFrom /\ st # 4
    BY <1>1, <1>2, <1>5 DEF Cleared
  <2>4. ops' = <<>> /\ Cleared' /\ idx' = idx /\ UNCHANGED <<st, limit, time, full, kicked, past>>
    BY <1>5, <2>2, <2>3, WritesOver
  <2>5. DataOK'
    BY <1>2, <2>3, <2>4, SameData
  <2> QED
    BY <1>2, <1>3, <1>5, <2>4, <2>5 DEF SpoiltSession, Free
<1>6. CASE st \in 0 .. 3 /\ Cleared /\ Free
  <2>1. idx + 1 \in 0 .. CleanFrom /\ bytes = SectorAt(idx + 1, FF) /\ st # 4
    BY <1>1, <1>2, <1>6 DEF Cleared
  <2>2. /\ DataOK' /\ full' \subseteq full /\ kicked' = kicked /\ UNCHANGED <<idx, st, limit, time>>
        /\ (bytes' = bytes /\ past' = past /\ Free') \/ KickedSession'
    BY <1>6, <2>1, FreeStep
  <2>3. bytes' = bytes => Cleared'
    BY <1>6, <2>2 DEF Cleared
  <2> QED
    BY <1>2, <1>3, <1>6, <2>2, <2>3 DEF SpoiltSession, KickedSession
<1> QED
  BY <1>2, <1>3, <1>4, <1>5, <1>6 DEF SpoiltSession

\* An empty history tells of nothing, and the erased sector of no count.
LEMMA Nothing ==
  ASSUME past' = <<>>
  PROVE  /\ \A k \in 0 .. Sessions : ~Chain(k)'
         /\ \A k \in 1 .. Sessions : FF # 2 * k
<1>1. Sessions \in Nat /\ 2 * Sessions <= 99
  BY Consts
<1> QED
  BY <1>1 DEF Chain, FF

\* The reboot after kick_out.
LEMMA KickedFlashOp ==
  ASSUME Shape, DataOK, KickedSession, FlashOp
  PROVE  DataOK' /\ Start' /\ full' = full /\ kicked' = FALSE /\ idx' = 0 /\ limit' = 0 /\ time' = 0
         /\ past' = past
<1>1. ops = <<Reboot>> /\ bytes = SectorAt(0, FF) /\ past = <<>>
  BY DEF KickedSession
<1>2. Head(ops) = Reboot /\ Tail(ops) = <<>> /\ Len(ops) = 1 /\ IsReset(ops)
  <2>1. <<Reboot>> \in Seq(ResetOps)
    BY DEF ResetOps
  <2> QED
    BY <1>1, <2>1 DEF IsReset
<1>3. ops' = <<>> /\ st' = 4 /\ time' = 0 /\ limit' = 0 /\ idx' = 0 /\ kicked' = FALSE
      /\ UNCHANGED <<bytes, full, past>>
  BY <1>2 DEF FlashOp, Reboot
<1>4. full = {}
  BY <1>2 DEF DataOK, Remaining
<1>5. DataOK'
  BY <1>3, <1>4 DEF DataOK, IsReset
<1>6. /\ \A k \in 0 .. Sessions : ~Chain(k)'
      /\ \A k \in 1 .. Sessions : FF # 2 * k
  BY <1>1, <1>3, Nothing
<1>7. 0 \in 0 .. CleanFrom /\ 0 # CleanFrom
  BY Consts
<1>8. Start'
  BY <1>1, <1>3, <1>6, <1>7 DEF Start
<1> QED
  BY <1>3, <1>5, <1>8

\* What a start will find.
LEMMA StartNext ==
  ASSUME NEW n \in 0 .. CleanFrom, NEW c \in (1 .. Trigger) \union {FF}, bytes' = SectorAt(n, c),
         n = CleanFrom => c = FF, st' = 4, time' = 0,
         \A k \in 1 .. Sessions : c = 2 * k => Fits(k)',
         \A k \in 0 .. Sessions : Chain(k)' => c = IF k = 0 THEN FF ELSE 2 * k,
         ops' = <<>> \/ (IsReset(ops') /\ (Len(ops') >= 2 => c = Trigger))
  PROVE  Start'
BY DEF Start

\* The operations of a reset that a start begins.
LEMMA StartFlashOp ==
  ASSUME Shape, DataOK, Start, FlashOp
  PROVE  DataOK' /\ Start' /\ full' \subseteq full /\ (kicked' = kicked \/ kicked' = FALSE) /\ (idx' = idx \/ idx' = 0)
         /\ (limit' = limit \/ limit' = 0) /\ time' = 0 /\ (past' = past \/ past' = <<>>)
<1>1. PICK n \in 0 .. CleanFrom, c \in (1 .. Trigger) \union {FF} :
        /\ bytes = SectorAt(n, c) /\ (n = CleanFrom => c = FF)
        /\ \A k \in 1 .. Sessions : c = 2 * k => Fits(k)
        /\ \A k \in 0 .. Sessions : Chain(k) => c = IF k = 0 THEN FF ELSE 2 * k
        /\ ops = <<>> \/ (IsReset(ops) /\ (Len(ops) >= 2 => c = Trigger))
  BY DEF Start
<1>2. ops # <<>> /\ IsReset(ops) /\ st = 4 /\ time = 0 /\ full \subseteq Remaining(ops)
  BY <1>1 DEF FlashOp, Start, DataOK
<1>3. Len(ops) \in Nat /\ Len(ops) >= 1 /\ (Len(ops) = 1 => ops = <<Reboot>>)
  BY <1>2, ResetIs
<1>4. CASE Len(ops) = 1
  <2>0. ops = <<Reboot>>
    BY <1>3, <1>4
  <2>1. Head(ops) = Reboot /\ Tail(ops) = <<>>
    BY <2>0
  <2>2. ops' = <<>> /\ st' = 4 /\ time' = 0 /\ limit' = 0 /\ idx' = 0 /\ kicked' = FALSE
        /\ UNCHANGED <<bytes, full, past>>
    BY <2>1 DEF FlashOp, Reboot
  <2>3. full = {}
    BY <1>2, <1>4 DEF Remaining
  <2>4. DataOK'
    BY <2>2, <2>3 DEF DataOK, IsReset
  <2>5. (\A k : Fits(k) => Fits(k)') /\ \A k : Chain(k)' => Chain(k)
    BY <2>2, SameHistory
  <2>6. Start'
    BY <1>1, <2>2, <2>5 DEF Start
  <2> QED
    BY <2>2, <2>4, <2>6
<1>5. CASE Len(ops) >= 2
  <2>1. /\ IsReset(ops') /\ Len(ops') \in Nat /\ Len(ops') = Len(ops) - 1
        /\ full' \subseteq Remaining(ops') /\ full' \subseteq full
        /\ UNCHANGED <<idx, st, limit, time, kicked>>
        /\ Len(ops) > 2 => bytes' = bytes /\ past' = past
        /\ Len(ops) = 2 => /\ bytes' = [i \in DOMAIN bytes |-> FF] /\ past' = <<>> /\ ops' = <<Reboot>>
                           /\ full' = {}
    BY <1>2, <1>5, ResetStep
  <2>2. CASE Len(ops) > 2
    <3>1. (\A k : Fits(k) => Fits(k)') /\ \A k : Chain(k)' => Chain(k)
      BY <2>1, <2>2, SameHistory
    <3>2. /\ \A k \in 1 .. Sessions : c = 2 * k => Fits(k)'
          /\ \A k \in 0 .. Sessions : Chain(k)' => c = IF k = 0 THEN FF ELSE 2 * k
      BY <1>1, <3>1
    <3>3. c = Trigger /\ bytes' = SectorAt(n, c) /\ IsReset(ops') /\ st' = 4 /\ time' = 0
      BY <1>1, <1>2, <1>5, <2>1, <2>2
    <3>4. Start'
      BY <1>1, <3>2, <3>3, StartNext
    <3>5. DataOK'
      BY <1>1, <1>2, <1>5, <2>1, <2>2 DEF DataOK
    <3> QED
      BY <1>2, <2>1, <2>2, <3>4, <3>5
  <2>3. CASE Len(ops) = 2
    <3>1. [i \in DOMAIN SectorAt(n, c) |-> FF] = SectorAt(0, FF)
      BY WriteByte
    <3>2. bytes' = SectorAt(0, FF) /\ past' = <<>> /\ ops' = <<Reboot>> /\ full' = {} /\ Len(ops') = 1
      BY <1>1, <2>1, <2>3, <3>1
    <3>3. /\ \A k \in 0 .. Sessions : ~Chain(k)'
          /\ \A k \in 1 .. Sessions : FF # 2 * k
      BY <3>2, Nothing
    <3>4. 0 \in 0 .. CleanFrom /\ 0 # CleanFrom
      BY Consts
    <3>5. st' = 4 /\ time' = 0
      BY <1>2, <2>1
    <3>a. IsReset(ops')
      BY <2>1
    <3>b. ~(Len(ops') >= 2)
      BY <3>2
    <3>c. bytes' = SectorAt(0, FF)
      BY <3>2
    <3>6. Start'
      BY <3>3, <3>4, <3>5, <3>a, <3>b, <3>c, StartNext
    <3>7. DataOK'
      BY <1>2, <2>1, <3>2 DEF DataOK
    <3> QED
      BY <1>2, <2>1, <3>2, <3>6, <3>7
  <2> QED
    BY <1>2, <1>5, <2>2, <2>3, TwoOrMore
<1>6. \A m \in Nat : m >= 1 => m = 1 \/ m >= 2
  OBVIOUS
<1> QED
  BY <1>3, <1>4, <1>5, <1>6

\* The flash operations keep the invariant.
LEMMA FlashOpInv ==
  ASSUME ResetInv, FlashOp
  PROVE  ResetInv'
<1>1. Shape /\ Session /\ DataOK
  BY DEF ResetInv
<1>2. ASSUME full' \subseteq full, kicked' = kicked \/ kicked' = FALSE, idx' \in 0 .. NBytes - 1,
             limit' = limit \/ limit' = 0, time' = time \/ time' = 0, past' = past \/ past' = <<>>
      PROVE  Shape'
  <2>1. 0 \in 0 .. MaxTime /\ <<>> \in Seq(Ends) /\ Len(<<>>) <= Sessions + 1
    BY Consts
  <2> QED
    BY <1>1, <1>2, <2>1 DEF Shape
<1>3. 0 \in 0 .. NBytes - 1 /\ idx \in 0 .. NBytes - 1
  BY <1>1, Consts DEF Shape
<1>4. CASE Start
  <2>1. DataOK' /\ Start' /\ full' \subseteq full /\ (kicked' = kicked \/ kicked' = FALSE) /\ (idx' = idx \/ idx' = 0)
        /\ (limit' = limit \/ limit' = 0) /\ time' = 0 /\ (past' = past \/ past' = <<>>)
    BY <1>1, <1>4, StartFlashOp
  <2> QED
    BY <1>2, <1>3, <2>1 DEF ResetInv, Session
<1>5. ASSUME NEW k \in 0 .. Sessions - 1, Counted(k), CountedSession(k)
      PROVE  ResetInv'
  <2>1. /\ DataOK' /\ full' \subseteq full /\ kicked' = kicked /\ idx' \in 0 .. NBytes - 1
        /\ limit' = limit /\ time' = time /\ (past' = past \/ past' = <<>>)
        /\ (Counted(k)' /\ CountedSession(k)') \/ KickedSession'
    BY <1>1, <1>5, CountedFlashOp
  <2>2. kicked' = kicked \/ kicked' = FALSE
    BY <2>1, Zenon
  <2>3. full' \subseteq full /\ idx' \in 0 .. NBytes - 1
    BY <2>1
  <2>4. (limit' = limit \/ limit' = 0) /\ (time' = time \/ time' = 0) /\ (past' = past \/ past' = <<>>)
    BY <2>1
  <2>5. Shape'
    BY <1>2, <2>2, <2>3, <2>4, Zenon
  <2>6. Session'
    BY <2>1 DEF Session
  <2>7. DataOK'
    BY <2>1
  <2> QED
    BY <2>5, <2>6, <2>7 DEF ResetInv
<1>6. CASE Spoilt /\ SpoiltSession
  <2>1. /\ DataOK' /\ full' \subseteq full /\ kicked' = kicked /\ idx' \in 0 .. NBytes - 1
        /\ limit' = limit /\ time' = time /\ (past' = past \/ past' = <<>>)
        /\ (Spoilt' /\ SpoiltSession') \/ KickedSession'
    BY <1>1, <1>6, SpoiltFlashOp
  <2>2. kicked' = kicked \/ kicked' = FALSE
    BY <2>1, Zenon
  <2>3. full' \subseteq full /\ idx' \in 0 .. NBytes - 1
    BY <2>1
  <2>4. (limit' = limit \/ limit' = 0) /\ (time' = time \/ time' = 0) /\ (past' = past \/ past' = <<>>)
    BY <2>1
  <2>5. Shape'
    BY <1>2, <2>2, <2>3, <2>4, Zenon
  <2>6. Session'
    BY <2>1 DEF Session
  <2>7. DataOK'
    BY <2>1
  <2> QED
    BY <2>5, <2>6, <2>7 DEF ResetInv
<1>7. CASE KickedSession
  <2>1. DataOK' /\ Start' /\ full' = full /\ kicked' = FALSE /\ idx' = 0 /\ limit' = 0 /\ time' = 0
        /\ past' = past
    BY <1>1, <1>7, KickedFlashOp
  <2> QED
    BY <1>2, <1>3, <2>1 DEF ResetInv, Session
<1> QED
  BY <1>1, <1>4, <1>5, <1>6, <1>7 DEF Session

-----------------------------------------------------------------------------
(* The calls of the main loop *)

\* The session that counts, when the main loop has nothing to write.
IdleSession(k) ==
  \/ st = 3 /\ time = 0 /\ Holds(2 * k + 1)
  \/ st = 2 /\ Holds(2 * k + 1) /\ limit = Serials[2 * k + 1] /\ time <= limit
  \/ /\ st = 1 /\ Holds(2 * k + 2) /\ limit \in {Unread, Serials[2 * k + 2]}
     /\ Serials[2 * k + 1] <= time /\ time <= Serials[2 * k + 2]
  \/ st = 0 /\ Cleared /\ time >= Serials[2 * k + 2]

\* Whatever call comes, it finds a session that counts or one that does not.
LEMMA IdleIs ==
  ASSUME Session, ops = <<>>, st # 4
  PROVE  \/ \E k \in 0 .. Sessions - 1 : Counted(k) /\ IdleSession(k)
         \/ Spoilt /\ st \in 0 .. 3 /\ Cleared
<1>1. CASE Start
  BY <1>1 DEF Start
<1>2. ASSUME NEW k \in 0 .. Sessions - 1, Counted(k), CountedSession(k)
      PROVE  IdleSession(k)
  <2>1. ~Writing(2 * k + 1) /\ ~Writing(2 * k + 2)
    BY WritingIs
  <2>2. ops # <<Write(0)>>
    OBVIOUS
  <2> QED
    BY <1>2, <2>1, <2>2 DEF CountedSession, IdleSession
<1>3. CASE Spoilt /\ SpoiltSession
  <2>1. ops # <<Write(0), Write(1)>>
    OBVIOUS
  <2> QED
    BY <1>3, <2>1 DEF SpoiltSession
<1>4. CASE KickedSession
  BY <1>4 DEF KickedSession
<1> QED
  BY <1>1, <1>2, <1>3, <1>4 DEF Session

\* It stays such a session while the loop has nothing to write but kick_out.
LEMMA IdleNext ==
  /\ \A k \in 0 .. Sessions - 1 : (Counted(k)' /\ IdleSession(k)' /\ Free') => Session'
  /\ (Spoilt' /\ st' \in 0 .. 3 /\ Cleared' /\ Free') => Session'
<1>1. ASSUME NEW k \in 0 .. Sessions - 1, Counted(k)', IdleSession(k)', Free'
      PROVE  Session'
  <2>1. CountedSession(k)'
    BY <1>1 DEF IdleSession, CountedSession
  <2> QED
    BY <1>1, <2>1 DEF Session
<1>2. ASSUME Spoilt', st' \in 0 .. 3, Cleared', Free'
      PROVE  Session'
  BY <1>2 DEF Session, SpoiltSession
<1> QED
  BY <1>1, <1>2

\* The count read at the present byte.
LEMMA CountIs ==
  ASSUME idx \in 0 .. NBytes - 1
  PROVE  /\ \A c : Holds(c) => Count = c
         /\ Cleared => Count = 0
         /\ \A c : Holds(c) => idx \in 0 .. CleanFrom
<1>1. idx \in Nat /\ NBytes \in Nat /\ CleanFrom \in Nat
  BY Consts
<1>2. ASSUME NEW c, Holds(c) PROVE Count = c /\ idx \in 0 .. CleanFrom
  BY <1>1, <1>2, SectorIs DEF Holds, Count
<1>3. ASSUME Cleared PROVE Count = 0
  BY <1>1, <1>3, SectorIs DEF Cleared, Count
<1> QED
  BY <1>2, <1>3

\* The limits are read.
LEMMA ReadLimitInv ==
  ASSUME ResetInv, ReadLimit
  PROVE  ResetInv'
<1>1. Shape /\ Session /\ DataOK
  BY DEF ResetInv
<1>2. /\ st = 3 \/ (st = 1 /\ limit = Unread)
      /\ ops = <<>> /\ st' = (IF st = 3 THEN 2 ELSE 1)
      /\ limit' \in IF Count = 0 THEN 0 .. MaxTime ELSE {Serials[Count]}
      /\ UNCHANGED <<bytes, idx, ops, time, full, kicked, past>>
  BY DEF ReadLimit
<1>3. DataOK'
  <2>1. ~IsReset(ops')
    BY <1>2 DEF IsReset
  <2> QED
    BY <1>1, <1>2, <2>1, SameData
<1>4. idx \in 0 .. NBytes - 1 /\ ops' = <<>> /\ Free'
  BY <1>1, <1>2 DEF Shape, Free
<1>5. /\ \A k : Counted(k) => Counted(k)'
      /\ Spoilt => Spoilt'
      /\ \A c : Holds(c) => Holds(c)'
      /\ Cleared => Cleared'
  <2>1. (\A k : Counted(k) => Counted(k)') /\ (Spoilt => Spoilt')
    BY <1>2, SameHistory
  <2> QED
    BY <1>2, <2>1 DEF Holds, Cleared
<1>6. ASSUME NEW k \in 0 .. Sessions - 1, Counted(k), IdleSession(k)
      PROVE  Session' /\ limit' \in 0 .. MaxTime
  <2>1. /\ Serials[2 * k + 1] \in 0 .. MaxTime - 1 /\ Serials[2 * k + 2] \in 0 .. MaxTime - 1
        /\ 2 * k + 1 # 0 /\ 2 * k + 2 # 0 /\ MaxTime \in Nat
    BY Consts
  <2>2. CASE st = 3
    <3>1. Holds(2 * k + 1) /\ time = 0
      BY <1>6, <2>2 DEF IdleSession
    <3>2. limit' = Serials[2 * k + 1] /\ time' <= limit'
      BY <1>2, <1>4, <2>1, <3>1, CountIs
    <3>3. Holds(2 * k + 1)' /\ st' = 2
      BY <1>2, <1>5, <2>2, <3>1
    <3>4. IdleSession(k)'
      BY <3>2, <3>3 DEF IdleSession
    <3> QED
      BY <1>4, <1>5, <1>6, <2>1, <3>2, <3>4, IdleNext
  <2>3. CASE st = 1 /\ limit = Unread
    <3>1. Holds(2 * k + 2) /\ Serials[2 * k + 1] <= time /\ time <= Serials[2 * k + 2]
      BY <1>6, <2>3 DEF IdleSession
    <3>2. limit' = Serials[2 * k + 2]
      BY <1>2, <1>4, <2>1, <3>1, CountIs
    <3>3. Holds(2 * k + 2)' /\ st' = 1 /\ time' = time
      BY <1>2, <1>5, <2>3, <3>1
    <3>4. IdleSession(k)'
      BY <3>1, <3>2, <3>3 DEF IdleSession
    <3> QED
      BY <1>4, <1>5, <1>6, <2>1, <3>2, <3>4, IdleNext
  <2> QED
    BY <1>2, <2>2, <2>3
<1>7. ASSUME Spoilt, st \in 0 .. 3, Cleared
      PROVE  Session' /\ limit' \in 0 .. MaxTime
  <2>1. limit' \in 0 .. MaxTime
    BY <1>2, <1>4, <1>7, CountIs
  <2>2. st' \in 0 .. 3
    BY <1>2
  <2> QED
    BY <1>4, <1>5, <1>7, <2>1, <2>2, IdleNext
<1>8. Session' /\ limit' \in 0 .. MaxTime
  BY <1>1, <1>2, <1>6, <1>7, IdleIs
<1>9. Shape'
  BY <1>1, <1>2, <1>8 DEF Shape
<1> QED
  BY <1>3, <1>8, <1>9 DEF ResetInv

\* The session reaches its first limit and counts again.
LEMMA FirstLimitInv ==
  ASSUME ResetInv, FirstLimit
  PROVE  ResetInv'
<1>1. Shape /\ Session /\ DataOK
  BY DEF ResetInv
<1>2. /\ st = 2 /\ ops = <<>> /\ time >= limit /\ st' = 1 /\ ops' = IncreaseOps(Count)
      /\ limit' = Unread /\ UNCHANGED <<bytes, idx, time, full, kicked, past>>
  BY DEF FirstLimit
<1>3. idx \in 0 .. NBytes - 1 /\ time \in 0 .. MaxTime /\ MaxTime \in Nat
  BY <1>1, Consts DEF Shape
<1>4. (\A k : Counted(k) => Counted(k)') /\ (Spoilt => Spoilt')
  BY <1>2, SameHistory
<1>5. ASSUME NEW k \in 0 .. Sessions - 1, Counted(k), IdleSession(k)
      PROVE  Session' /\ ~IsReset(ops')
  <2>1. /\ Serials[2 * k + 1] \in 0 .. MaxTime - 1 /\ Serials[2 * k + 2] \in 0 .. MaxTime - 1
        /\ Serials[2 * k + 1] <= Serials[2 * k + 2]
        /\ 2 * k + 1 # 0 /\ 2 * k + 1 # FF /\ 2 * k + 2 > 1 /\ (2 * k + 1) + 1 = 2 * k + 2
        /\ (2 * k + 2) - 1 = 2 * k + 1
    BY Consts DEF FF
  <2>2. Holds(2 * k + 1) /\ limit = Serials[2 * k + 1] /\ time <= limit
    BY <1>2, <1>5 DEF IdleSession
  <2>3. Count = 2 * k + 1 /\ idx \in 0 .. CleanFrom
    BY <1>3, <2>2, CountIs
  <2>4. ops' = <<Write(0), NextByte, Write(2 * k + 2)>>
    BY <1>2, <2>1, <2>3 DEF IncreaseOps
  <2>5. idx' \in 0 .. CleanFrom /\ idx' < CleanFrom /\ bytes' = SectorAt(idx', (2 * k + 2) - 1)
    BY <1>2, <2>1, <2>2, <2>3 DEF Holds
  <2>6. Writing(2 * k + 2)'
    BY <2>1, <2>4, <2>5 DEF Writing
  <2>7. Serials[2 * k + 1] <= time' /\ time' <= Serials[2 * k + 2]
    BY <1>2, <1>3, <2>1, <2>2
  <2>8. CountedSession(k)'
    BY <1>2, <2>6, <2>7 DEF CountedSession
  <2> QED
    BY <1>4, <1>5, <2>4, <2>8, NotReset DEF Session
<1>6. ASSUME Spoilt, st \in 0 .. 3, Cleared
      PROVE  Session' /\ ~IsReset(ops')
  <2>1. Count = 0 /\ Cleared'
    BY <1>2, <1>3, <1>6, CountIs DEF Cleared
  <2>2. ops' = <<Write(1)>>
    BY <1>2, <2>1 DEF IncreaseOps, FF
  <2>3. ~IsReset(ops')
    BY <2>2, NotReset
  <2>4. SpoiltSession'
    BY <1>2, <2>1, <2>2 DEF SpoiltSession
  <2> QED
    BY <1>4, <1>6, <2>3, <2>4 DEF Session
<1>7. Session' /\ ~IsReset(ops')
  BY <1>1, <1>2, <1>5, <1>6, IdleIs
<1>8. DataOK'
  BY <1>1, <1>2, <1>7, SameData
<1>9. Shape'
  BY <1>1, <1>2 DEF Shape
<1> QED
  BY <1>7, <1>8, <1>9 DEF ResetInv

\* The session reaches its second limit and clears the count.
LEMMA SecondLimitInv ==
  ASSUME ResetInv, SecondLimit
  PROVE  ResetInv'
<1>1. Shape /\ Session /\ DataOK
  BY DEF ResetInv
<1>2. /\ st = 1 /\ limit # Unread /\ ops = <<>> /\ time >= limit /\ st' = 0 /\ ops' = <<Write(0)>>
      /\ UNCHANGED <<bytes, idx, limit, time, full, kicked, past>>
  BY DEF SecondLimit
<1>3. time \in 0 .. MaxTime /\ MaxTime \in Nat
  BY <1>1, Consts DEF Shape
<1>4. (\A k : Counted(k) => Counted(k)') /\ (Spoilt => Spoilt')
  BY <1>2, SameHistory
<1>5. ASSUME NEW k \in 0 .. Sessions - 1, Counted(k), IdleSession(k)
      PROVE  Session'
  <2>1. Serials[2 * k + 2] \in 0 .. MaxTime - 1
    BY Consts
  <2>2. Holds(2 * k + 2) /\ limit = Serials[2 * k + 2] /\ time <= limit
    BY <1>2, <1>5 DEF IdleSession
  <2>3. Holds(2 * k + 2)' /\ time' = Serials[2 * k + 2]
    BY <1>2, <1>3, <2>1, <2>2 DEF Holds
  <2>4. CountedSession(k)'
    BY <1>2, <2>3 DEF CountedSession
  <2> QED
    BY <1>4, <1>5, <2>4 DEF Session
<1>6. ASSUME Spoilt, st \in 0 .. 3, Cleared
      PROVE  Session'
  BY <1>2, <1>4, <1>6 DEF Session, SpoiltSession, Cleared
<1>7. Session'
  BY <1>1, <1>2, <1>5, <1>6, IdleIs
<1>a. ~IsReset(ops')
  BY <1>2, NotReset
<1>8. DataOK'
  BY <1>1, <1>2, <1>a, SameData
<1>9. Shape'
  BY <1>1, <1>2 DEF Shape
<1> QED
  BY <1>7, <1>8, <1>9 DEF ResetInv

\* Time passes.
LEMMA TickInv ==
  ASSUME ResetInv, Tick
  PROVE  ResetInv'
<1>1. Shape /\ Session /\ DataOK
  BY DEF ResetInv
<1>2. /\ st \in {0, 1, 2} /\ ops = <<>> /\ (st # 0 => limit # Unread /\ time < limit)
      /\ time < MaxTime /\ time' = time + 1
      /\ UNCHANGED <<bytes, idx, st, ops, limit, full, kicked, past>>
  BY DEF Tick, Settled
<1>3. time \in 0 .. MaxTime /\ MaxTime \in Nat /\ Free'
  BY <1>1, <1>2, Consts DEF Shape, Free
<1>4. (\A k : Counted(k) => Counted(k)') /\ (Spoilt => Spoilt')
  BY <1>2, SameHistory
<1>5. ASSUME NEW k \in 0 .. Sessions - 1, Counted(k), IdleSession(k)
      PROVE  Session'
  <2>1. Serials[2 * k + 1] \in 0 .. MaxTime - 1 /\ Serials[2 * k + 2] \in 0 .. MaxTime - 1
    BY Consts
  <2>2. CASE st = 2
    <3>1. Holds(2 * k + 1) /\ limit = Serials[2 * k + 1] /\ time < limit
      BY <1>2, <1>5, <2>2 DEF IdleSession
    <3>2. time' <= limit'
      BY <1>2, <1>3, <2>1, <3>1
    <3>3. IdleSession(k)'
      BY <1>2, <2>2, <3>1, <3>2 DEF IdleSession, Holds
    <3> QED
      BY <1>3, <1>4, <1>5, <3>3, IdleNext
  <2>3. CASE st = 1
    <3>1. Holds(2 * k + 2) /\ limit = Serials[2 * k + 2] /\ time < limit /\ Serials[2 * k + 1] <= time
      BY <1>2, <1>5, <2>3 DEF IdleSession
    <3>2. Serials[2 * k + 1] <= time' /\ time' <= Serials[2 * k + 2]
      BY <1>2, <1>3, <2>1, <3>1
    <3>3. IdleSession(k)'
      BY <1>2, <2>3, <3>1, <3>2 DEF IdleSession, Holds
    <3> QED
      BY <1>3, <1>4, <1>5, <3>3, IdleNext
  <2>4. CASE st = 0
    <3>1. Cleared /\ time >= Serials[2 * k + 2]
      BY <1>5, <2>4 DEF IdleSession
    <3>2. time' >= Serials[2 * k + 2]
      BY <1>2, <1>3, <2>1, <3>1
    <3>3. IdleSession(k)'
      BY <1>2, <2>4, <3>1, <3>2 DEF IdleSession, Cleared
    <3> QED
      BY <1>3, <1>4, <1>5, <3>3, IdleNext
  <2> QED
    BY <1>2, <2>2, <2>3, <2>4
<1>6. ASSUME Spoilt, st \in 0 .. 3, Cleared
      PROVE  Session'
  <2>1. Cleared' /\ st' \in 0 .. 3
    BY <1>2, <1>6 DEF Cleared
  <2> QED
    BY <1>3, <1>4, <1>6, <2>1, IdleNext
<1>7. Session'
  BY <1>1, <1>2, <1>5, <1>6, IdleIs
<1>8. DataOK'
  <2>1. ~IsReset(ops') /\ st # 4
    BY <1>2 DEF IsReset
  <2> QED
    BY <1>1, <1>2, <2>1, SameData
<1>9. Shape'
  <2>1. time' \in 0 .. MaxTime
    BY <1>2, <1>3
  <2> QED
    BY <1>1, <1>2, <2>1 DEF Shape
<1> QED
  BY <1>7, <1>8, <1>9 DEF ResetInv

\* kick_out begins to erase the data, whatever the count.
LEMMA KickOutInv ==
  ASSUME ResetInv, KickOut
  PROVE  ResetInv'
<1>1. Shape /\ Session /\ DataOK
  BY DEF ResetInv
<1>2. /\ st # 4 /\ ops = <<>> /\ ops' = FactoryResetOps /\ kicked' = TRUE
      /\ UNCHANGED <<bytes, idx, st, limit, time, full, past>>
  BY DEF KickOut
<1>3. IsReset(ops') /\ Len(ops') >= 2 /\ Sectors \subseteq Remaining(ops')
  <2>1. IsReset(ops') /\ Len(ops') >= 3 /\ Sectors \subseteq Remaining(ops')
    BY <1>2, ResetBegins
  <2>2. Len(ops') \in Nat
    BY <2>1, ResetIs
  <2> QED
    BY <2>1, <2>2
<1>4. (\A k : Counted(k) => Counted(k)') /\ (Spoilt => Spoilt')
  BY <1>2, SameHistory
<1>5. Free' /\ \A k : IdleSession(k) => IdleSession(k)'
  BY <1>2, <1>3 DEF Free, IdleSession, Holds, Cleared
<1>6. Cleared => Cleared'
  BY <1>2 DEF Cleared
<1>7. Session'
  BY <1>1, <1>2, <1>4, <1>5, <1>6, IdleIs, IdleNext
<1>8. DataOK'
  <2>1. kicked'
    BY <1>2
  <2>2. full' \subseteq Remaining(ops')
    BY <1>1, <1>2, <1>3 DEF Shape
  <2> QED
    BY <2>1, <2>2, KickedData
<1>9. Shape'
  BY <1>1, <1>2 DEF Shape
<1> QED
  BY <1>7, <1>8, <1>9 DEF ResetInv

\* The node has its data again.
LEMMA ConfigureInv ==
  ASSUME ResetInv, Configure
  PROVE  ResetInv'
<1>1. Shape /\ Session /\ DataOK
  BY DEF ResetInv
<1>2. /\ st # 4 /\ ops = <<>> /\ full' = Sectors /\ kicked' = FALSE
      /\ UNCHANGED <<bytes, idx, st, ops, limit, time, past>>
  BY DEF Configure
<1>3. (\A k : Counted(k) => Counted(k)') /\ (Spoilt => Spoilt')
  BY <1>2, SameHistory
<1>4. Free' /\ \A k : IdleSession(k) => IdleSession(k)'
  BY <1>2 DEF Free, IdleSession, Holds, Cleared
<1>5. Cleared => Cleared'
  BY <1>2 DEF Cleared
<1>6. Session'
  BY <1>1, <1>2, <1>3, <1>4, <1>5, IdleIs, IdleNext
<1>7. DataOK'
  BY <1>2 DEF DataOK, IsReset
<1>8. Shape'
  BY <1>1, <1>2 DEF Shape
<1> QED
  BY <1>6, <1>7, <1>8 DEF ResetInv

\* The start reads the count: it resets the node, counts the session, or drops the count.
LEMMA HandleInv ==
  ASSUME ResetInv, Handle
  PROVE  ResetInv'
<1>1. Shape /\ Session /\ DataOK
  BY DEF ResetInv
<1>2. st = 4 /\ ops = <<>>
  BY DEF Handle
<1>3. Start
  BY <1>1, <1>2 DEF Session, CountedSession, SpoiltSession, KickedSession
<1>4. PICK n \in 0 .. CleanFrom, c \in (1 .. Trigger) \union {FF} :
        /\ bytes = SectorAt(n, c) /\ (n = CleanFrom => c = FF)
        /\ \A k \in 1 .. Sessions : c = 2 * k => Fits(k)
        /\ \A k \in 0 .. Sessions : Chain(k) => c = IF k = 0 THEN FF ELSE 2 * k
  BY <1>3 DEF Start
<1>5. c # 0 /\ c \in Nat /\ n \in Nat /\ n \in 0 .. NBytes - 1 /\ Trigger = 2 * Sessions /\ Sessions \in Nat
      /\ Trigger < FF /\ CleanFrom \in Nat /\ n <= CleanFrom
  BY Consts DEF FF
<1>6. FirstByte = n /\ bytes[FirstByte] = c
  BY <1>4, <1>5, FirstIs
<1>7. /\ idx' = n /\ UNCHANGED <<bytes, limit, time, full, kicked, past>>
      /\ \/ c = Trigger /\ st' = 4 /\ ops' = FactoryResetOps
         \/ /\ c # Trigger /\ st' = 3
            /\ ops' = IF IsInvalid(c) THEN <<Write(0)>> \o IncreaseOps(0) ELSE IncreaseOps(c)
  BY <1>6 DEF Handle
<1>8. Shape'
  BY <1>1, <1>5, <1>7 DEF Shape
<1>9. time = 0
  BY <1>3 DEF Start
<1>10. (\A k : Fits(k) => Fits(k)') /\ \A k : Chain(k)' => Chain(k)
  BY <1>7, SameHistory
<1>11. CASE c = Trigger
  <2>1. st' = 4 /\ ops' = FactoryResetOps /\ bytes' = SectorAt(n, c) /\ time' = 0
    BY <1>4, <1>7, <1>9, <1>11
  <2>2. IsReset(ops') /\ Sectors \subseteq Remaining(ops')
    BY <2>1, ResetBegins
  <2>3. /\ \A k \in 1 .. Sessions : c = 2 * k => Fits(k)'
        /\ \A k \in 0 .. Sessions : Chain(k)' => c = IF k = 0 THEN FF ELSE 2 * k
    BY <1>4, <1>10
  <2>4. Start'
    BY <1>4, <1>11, <2>1, <2>2, <2>3, StartNext
  <2>5. DataOK'
    <3>1. full' \subseteq Remaining(ops')
      BY <1>1, <1>7, <2>2 DEF Shape
    <3> QED
      BY <1>11, <2>1, <3>1 DEF DataOK
  <2> QED
    BY <1>8, <2>4, <2>5 DEF ResetInv, Session
<1>12. CASE c # Trigger
  <2>1. st' = 3 /\ ops' = IF IsInvalid(c) THEN <<Write(0)>> \o IncreaseOps(0) ELSE IncreaseOps(c)
    BY <1>7, <1>12
  <2>2. ASSUME ~IsReset(ops') PROVE DataOK'
    <3>1. ~(\E m \in 0 .. CleanFrom : bytes = SectorAt(m, Trigger))
      <4>1. ASSUME NEW m \in 0 .. CleanFrom, bytes = SectorAt(m, Trigger) PROVE FALSE
        <5>1. Trigger # 0
          BY Consts
        <5>2. SectorAt(n, c) = SectorAt(m, Trigger)
          BY <1>4, <4>1
        <5>3. c = Trigger
          BY <1>5, <5>1, <5>2, OneSector
        <5> QED
          BY <1>12, <5>3
      <4> QED
        BY <4>1
    <3>2. full \in {{}, Sectors} \/ kicked
      BY <1>1, <3>1 DEF DataOK
    <3>3. full' = full /\ kicked' = kicked
      BY <1>7
    <3> QED
      BY <2>2, <3>2, <3>3 DEF DataOK
  <2>3. CASE IsInvalid(c)
    <3>1. c # FF /\ c % 2 = 1 /\ c \in 1 .. Trigger
      BY <1>5, <2>3 DEF IsInvalid
    <3>2. IncreaseOps(0) = <<Write(1)>>
      BY DEF IncreaseOps, FF
    <3>3. <<Write(0)>> \o <<Write(1)>> = <<Write(0), Write(1)>>
      <4> DEFINE S == {Write(0), Write(1)}
                 s == <<Write(0)>> \o <<Write(1)>>
                 t == <<Write(0), Write(1)>>
      <4>1. <<Write(0)>> \in Seq(S) /\ <<Write(1)>> \in Seq(S) /\ t \in Seq(S)
        OBVIOUS
      <4>2. /\ Len(t) = 2 /\ t[1] = Write(0) /\ t[2] = Write(1)
            /\ Len(<<Write(0)>>) = 1 /\ <<Write(0)>>[1] = Write(0)
            /\ Len(<<Write(1)>>) = 1 /\ <<Write(1)>>[1] = Write(1)
        OBVIOUS
      <4>3. s \in Seq(S) /\ Len(s) = 2 /\ s[1] = Write(0) /\ s[2] = Write(1)
        BY <4>1, <4>2, ConcatProperties
      <4> HIDE DEF S, s, t
      <4>4. \A i \in 1 .. Len(s) : s[i] = t[i]
        BY <4>2, <4>3
      <4>5. s = t
        BY <4>1, <4>2, <4>3, <4>4, SeqEqual
      <4> QED
        BY <4>5 DEF s, t
    <3>4. ops' = <<Write(0), Write(1)>>
      BY <2>1, <2>3, <3>2, <3>3
    <3>5. n < CleanFrom
      BY <1>4, <1>5, <3>1
    <3>6. Holds(c)'
      BY <1>4, <1>7, <3>5 DEF Holds
    <3>7. Spoilt'
      <4>1. ASSUME NEW k \in 0 .. Sessions, Chain(k)' PROVE FALSE
        <5>1. c = IF k = 0 THEN FF ELSE 2 * k
          BY <1>4, <1>10, <4>1
        <5>2. c = 2 * k /\ k \in Nat
          BY <1>5, <3>1, <5>1
        <5> QED
          BY <3>1, <5>2
      <4> QED
        BY <4>1 DEF Spoilt
    <3>8. SpoiltSession'
      BY <2>1, <3>1, <3>4, <3>6 DEF SpoiltSession
    <3>9. ~IsReset(ops')
      BY <3>4, NotReset
    <3>10. DataOK'
      BY <2>2, <3>9
    <3> QED
      BY <1>8, <3>7, <3>8, <3>10 DEF ResetInv, Session
  <2>4. CASE ~IsInvalid(c)
    <3>1. ops' = IncreaseOps(c)
      BY <2>1, <2>4
    <3>2. ASSUME NEW k \in 0 .. Sessions - 1, c = (IF k = 0 THEN FF ELSE 2 * k)
          PROVE  ResetInv'
      <4>1. k \in Nat /\ k <= Sessions /\ k \in 0 .. Sessions
        BY <1>5
      <4>2. Counted(k)'
        <5>1. Fits(k)'
          <6>1. CASE k = 0
            BY <1>1, <1>7, <6>1, LenProperties DEF Fits, Shape
          <6>2. CASE k # 0
            BY <1>4, <1>10, <3>2, <4>1, <6>2
          <6> QED
            BY <6>1, <6>2
        <5>2. ASSUME NEW j \in 0 .. Sessions, Chain(j)' PROVE j = k
          <6>1. c = IF j = 0 THEN FF ELSE 2 * j
            BY <1>4, <1>10, <5>2
          <6>2. 2 * j < FF /\ 2 * k < FF /\ j \in Nat
            <7>1. 2 * j <= 2 * Sessions /\ 2 * k <= 2 * Sessions /\ j \in Nat
              BY <1>5, <4>1
            <7>2. 2 * Sessions <= 99
              BY Consts
            <7> QED
              BY <1>5, <4>1, <7>1, <7>2 DEF FF
          <6> QED
            BY <3>2, <4>1, <6>1, <6>2
        <5> QED
          BY <5>1, <5>2 DEF Counted
      <4>3. Writing(2 * k + 1)' /\ ~IsReset(ops')
        <5>1. CASE k = 0
          <6>1. ops' = <<Write(1)>> /\ 2 * k + 1 = 1
            BY <3>1, <3>2, <5>1 DEF IncreaseOps
          <6>2. bytes' = SectorAt(n, FF)
            BY <1>4, <1>7, <3>2, <5>1
          <6>3. Writing(1)'
            BY <1>7, <6>1, <6>2 DEF Writing
          <6> QED
            BY <6>1, <6>3, NotReset
        <5>2. CASE k # 0
          <6>1. c = 2 * k /\ c # FF /\ c # 0 /\ (2 * k + 1) - 1 = c /\ c + 1 = 2 * k + 1 /\ 2 * k + 1 > 1
            BY <1>5, <3>2, <4>1, <5>2
          <6>2. ops' = <<Write(0), NextByte, Write(2 * k + 1)>>
            BY <3>1, <6>1 DEF IncreaseOps
          <6>3. n < CleanFrom /\ bytes' = SectorAt(n, (2 * k + 1) - 1)
            BY <1>4, <1>5, <1>7, <6>1
          <6>4. Writing(2 * k + 1)'
            BY <1>7, <6>1, <6>2, <6>3 DEF Writing
          <6> QED
            BY <6>2, <6>4, NotReset
        <5> QED
          BY <5>1, <5>2
      <4>4. CountedSession(k)'
        BY <1>7, <1>9, <2>1, <4>3 DEF CountedSession
      <4>5. DataOK'
        BY <2>2, <4>3
      <4> QED
        BY <1>8, <4>2, <4>4, <4>5 DEF ResetInv, Session
    <3>3. CASE c = FF
      <4>1. 0 \in 0 .. Sessions - 1
        BY Consts
      <4> QED
        BY <3>2, <3>3, <4>1
    <3>4. CASE c # FF
      <4>1. c \in 1 .. Trigger /\ c % 2 # 1
        BY <1>5, <2>4, <3>4 DEF IsInvalid
      <4>2. c = 2 * (c \div 2) /\ c \div 2 \in 0 .. Sessions - 1 /\ c \div 2 # 0
        BY <1>5, <1>12, <4>1
      <4> QED
        BY <3>2, <4>2
    <3> QED
      BY <3>3, <3>4
  <2> QED
    BY <2>3, <2>4
<1> QED
  BY <1>11, <1>12

-----------------------------------------------------------------------------
(* The power *)

\* A session that touched the count is added to the history as it ended.
LEMMA Ended ==
  ASSUME Shape, PowerCycle, ~NoTrace
  PROVE  \E e \in Ends : /\ past' = Grown(past, e) /\ e.time = time
                         /\ e.done <=> (Settled /\ st = 0)
                         /\ e.torn <=> ~Settled
<1> DEFINE e == [time |-> time, done |-> Settled /\ st = 0, torn |-> ~Settled]
<1>1. time \in Nat
  BY Consts DEF Shape
<1>2. (Settled /\ st = 0) \in BOOLEAN /\ (~Settled) \in BOOLEAN
  OBVIOUS
<1>3. e \in Ends
  BY <1>1, <1>2 DEF Ends
<1>4. past' = Grown(past, e)
  BY DEF PowerCycle, Grown
<1>5. e.time = time /\ (e.done <=> (Settled /\ st = 0)) /\ (e.torn <=> ~Settled)
  BY <1>2, Zenon
<1> QED
  BY <1>3, <1>4, <1>5

\* What it adds to the sessions that fit, and what a chain needs.
LEMMA Added ==
  ASSUME Shape, PowerCycle, ~NoTrace
  PROVE  /\ \A k \in 0 .. Sessions - 1 :
              /\ Fits(k) /\ time >= Serials[2 * k + 1]
              /\ time < Serials[2 * k + 2] \/ (~Settled /\ time = Serials[2 * k + 2])
              => Fits(k + 1)'
         /\ Chain(0)' => Settled /\ st = 0
         /\ \A k \in 0 .. Sessions - 1 :
              Chain(k + 1)' => /\ Settled /\ Chain(k)
                               /\ time >= Serials[2 * k + 1] /\ time < Serials[2 * k + 2]
<1>1. PICK e \in Ends : /\ past' = Grown(past, e) /\ e.time = time
                        /\ e.done <=> (Settled /\ st = 0)
                        /\ e.torn <=> ~Settled
  BY Ended
<1>2. past \in Seq(Ends) /\ Len(past) <= Sessions + 1 /\ Sessions \in Nat
  BY Consts DEF Shape
<1>3. ASSUME NEW k \in 0 .. Sessions - 1
      PROVE  InRange(e, k + 1) <=> /\ time >= Serials[2 * k + 1]
                                   /\ time < Serials[2 * k + 2] \/ (~Settled /\ time = Serials[2 * k + 2])
  <2>1. 2 * (k + 1) - 1 = 2 * k + 1 /\ 2 * (k + 1) = 2 * k + 2
    BY <1>2
  <2>2. InRange(e, k + 1) <=> /\ e.time >= Serials[2 * k + 1]
                              /\ e.time < Serials[2 * k + 2] \/ (e.torn /\ e.time = Serials[2 * k + 2])
    BY <2>1 DEF InRange
  <2> QED
    BY <1>1, <2>2, Zenon
<1>4. ASSUME NEW k \in 0 .. Sessions - 1, Fits(k), time >= Serials[2 * k + 1],
             time < Serials[2 * k + 2] \/ (~Settled /\ time = Serials[2 * k + 2])
      PROVE  Fits(k + 1)'
  <2>1. InRange(e, k + 1)
    BY <1>3, <1>4
  <2> QED
    BY <1>1, <1>2, <1>4, <2>1, FitsGrows
<1>5. ASSUME Chain(0)' PROVE Settled /\ st = 0
  <2>1. 0 \in 0 .. Sessions
    BY <1>2
  <2>2. IF 0 = 0 THEN e.done ELSE Chain(0 - 1) /\ InRange(e, 0) /\ ~e.torn
    BY <1>1, <1>2, <1>5, <2>1, ChainGrows
  <2>3. e.done
    BY <2>2
  <2> QED
    BY <1>1, <2>3, Zenon
<1>6. ASSUME NEW k \in 0 .. Sessions - 1, Chain(k + 1)'
      PROVE  /\ Settled /\ Chain(k)
             /\ time >= Serials[2 * k + 1] /\ time < Serials[2 * k + 2]
  <2>1. k + 1 \in 0 .. Sessions /\ k + 1 # 0 /\ (k + 1) - 1 = k
    BY <1>2
  <2>2. IF k + 1 = 0 THEN e.done ELSE Chain((k + 1) - 1) /\ InRange(e, k + 1) /\ ~e.torn
    BY <1>1, <1>2, <1>6, <2>1, ChainGrows
  <2>3. Chain(k) /\ InRange(e, k + 1) /\ ~e.torn
    BY <2>1, <2>2
  <2>4. Settled
    BY <1>1, <2>3, Zenon
  <2>5. /\ time >= Serials[2 * k + 1]
        /\ time < Serials[2 * k + 2] \/ (~Settled /\ time = Serials[2 * k + 2])
    BY <1>3, <2>3
  <2> QED
    BY <2>3, <2>4, <2>5
<1> QED
  BY <1>4, <1>5, <1>6

\* What the next start finds.
LEMMA PowerStart ==
  ASSUME ResetInv, PowerCycle, NEW n \in 0 .. CleanFrom, NEW c \in (1 .. Trigger) \union {FF},
         bytes = SectorAt(n, c), n = CleanFrom => c = FF,
         \A k \in 1 .. Sessions : c = 2 * k => Fits(k)',
         \A k \in 0 .. Sessions : Chain(k)' => c = IF k = 0 THEN FF ELSE 2 * k
  PROVE  Start'
<1>1. st' = 4 /\ time' = 0 /\ ops' = <<>> /\ bytes' = SectorAt(n, c)
  BY DEF PowerCycle
<1> QED
  BY <1>1, StartNext

\* ... when the session was in the middle of a call, or before it, that leaves no count: no chain
\* ends with it.
LEMMA NoCount ==
  ASSUME ResetInv, PowerCycle, ~NoTrace, NEW n \in 0 .. CleanFrom, NEW c \in (1 .. Trigger) \union {FF},
         bytes = SectorAt(n, c), n = CleanFrom => c = FF,
         c = FF \/ (c % 2 = 1 /\ ~(Settled /\ st = 0)),
         \A k \in 0 .. Sessions - 1 :
            ~(/\ Settled /\ Chain(k)
              /\ time >= Serials[2 * k + 1] /\ time < Serials[2 * k + 2])
  PROVE  Start'
<1>1. Sessions \in Nat /\ 2 * Sessions <= 99
  BY Consts
<1>2. \A k \in 1 .. Sessions : c # 2 * k
  BY <1>1 DEF FF
<1>3. ASSUME NEW k \in 0 .. Sessions, Chain(k)' PROVE c = IF k = 0 THEN FF ELSE 2 * k
  <2>1. CASE k = 0
    <3>1. Settled /\ st = 0
      BY <1>3, <2>1, Added DEF ResetInv
    <3> QED
      BY <2>1, <3>1
  <2>2. CASE k # 0
    <3>1. k - 1 \in 0 .. Sessions - 1 /\ (k - 1) + 1 = k
      BY <1>1, <2>2
    <3>2. Chain((k - 1) + 1)'
      BY <1>3, <3>1
    <3> QED
      BY <3>1, <3>2, Added DEF ResetInv
  <2> QED
    BY <2>1, <2>2
<1> QED
  BY <1>2, <1>3, PowerStart

\* ... when it left the count 2 k + 2 of the session after k.
LEMMA OneMore ==
  ASSUME ResetInv, PowerCycle, ~NoTrace, NEW n \in 0 .. CleanFrom, n < CleanFrom,
         NEW k \in 0 .. Sessions - 1, Counted(k), bytes = SectorAt(n, 2 * k + 2),
         time >= Serials[2 * k + 1],
         time < Serials[2 * k + 2] \/ (~Settled /\ time = Serials[2 * k + 2]),
         ~(Settled /\ st = 0)
  PROVE  Start'
<1>1. Sessions \in Nat /\ 2 * k + 2 \in 1 .. Trigger /\ CleanFrom \in Nat /\ k \in Nat
  BY Consts
<1>2. Shape
  BY DEF ResetInv
<1>3. Fits(k + 1)'
  BY <1>2, Added DEF Counted
<1>4. \A j \in 1 .. Sessions : 2 * k + 2 = 2 * j => j = k + 1
  BY <1>1
<1>5. \A j \in 1 .. Sessions : 2 * k + 2 = 2 * j => Fits(j)'
  BY <1>3, <1>4
<1>6. ASSUME NEW j \in 0 .. Sessions, Chain(j)' PROVE 2 * k + 2 = IF j = 0 THEN FF ELSE 2 * j
  <2>1. j # 0
    BY <1>2, <1>6, Added
  <2>2. j - 1 \in 0 .. Sessions - 1 /\ (j - 1) + 1 = j /\ j - 1 \in 0 .. Sessions
    BY <1>1, <2>1
  <2>3. Chain((j - 1) + 1)'
    BY <1>6, <2>2
  <2>4. Chain(j - 1)
    BY <1>2, <2>2, <2>3, Added
  <2>5. j - 1 = k
    BY <2>2, <2>4 DEF Counted
  <2> QED
    BY <1>1, <2>1, <2>2, <2>5
<1>7. n # CleanFrom
  BY <1>1
<1> QED
  BY <1>1, <1>5, <1>6, <1>7, PowerStart

\* The power goes and comes back.
LEMMA PowerCycleInv ==
  ASSUME ResetInv, PowerCycle
  PROVE  ResetInv'
<1>1. Shape /\ Session /\ DataOK
  BY DEF ResetInv
<1>2. /\ st' = 4 /\ ops' = <<>> /\ time' = 0 /\ limit' = 0 /\ idx' = 0
      /\ kicked' = (kicked /\ full # Sectors) /\ UNCHANGED <<bytes, full>>
      /\ NoTrace => past' = past
  BY DEF PowerCycle
<1>3. CleanFrom \in Nat /\ CleanFrom >= 1 /\ idx \in Nat /\ Sessions \in Nat /\ Trigger \in Nat
      /\ time \in Nat /\ FF \in Nat
  BY <1>1, Consts DEF Shape, FF
<1>4. Start'
  <2>1. CASE Start
    <3>1. PICK n \in 0 .. CleanFrom, c \in (1 .. Trigger) \union {FF} :
            /\ bytes = SectorAt(n, c) /\ (n = CleanFrom => c = FF)
            /\ \A k \in 1 .. Sessions : c = 2 * k => Fits(k)
            /\ \A k \in 0 .. Sessions : Chain(k) => c = IF k = 0 THEN FF ELSE 2 * k
      BY <2>1 DEF Start
    <3>2. past' = past
      BY <1>2, <2>1 DEF Start, NoTrace
    <3>3. (\A k : Fits(k) => Fits(k)') /\ \A k : Chain(k)' => Chain(k)
      BY <3>2, SameHistory
    <3> QED
      BY <3>1, <3>3, PowerStart
  <2>2. ASSUME NEW k \in 0 .. Sessions - 1, Counted(k), CountedSession(k)
        PROVE  Start'
    <3>1. /\ k \in Nat /\ k \in 0 .. Sessions
          /\ 2 * k + 1 \in 1 .. Trigger /\ 2 * k + 2 \in 1 .. Trigger /\ (2 * k + 1) % 2 = 1
          /\ Serials[2 * k + 1] \in Nat /\ Serials[2 * k + 2] \in Nat
      <4>1. Serials[2 * k + 1] \in 0 .. MaxTime - 1 /\ Serials[2 * k + 2] \in 0 .. MaxTime - 1
        BY Consts
      <4> QED
        BY <1>3, <4>1, Consts
    <3>2. ASSUME NEW c \in 1 .. Trigger, Writing(c), st \in {1, 3}
          PROVE  \/ Start'
                 \/ c > 1 /\ Holds(c - 1) /\ ops = <<Write(0), NextByte, Write(c)>>
      <4>1. PICK n \in 0 .. CleanFrom :
              /\ idx = n
              /\ \/ /\ c > 1 /\ n < CleanFrom /\ bytes = SectorAt(n, c - 1)
                    /\ ops = <<Write(0), NextByte, Write(c)>>
                 \/ c > 1 /\ n < CleanFrom /\ bytes = SectorAt(n + 1, FF) /\ ops = <<NextByte, Write(c)>>
                 \/ bytes = SectorAt(n, FF) /\ ops = <<Write(c)>>
        BY <3>2 DEF Writing
      <4>2. CASE c > 1 /\ n < CleanFrom /\ bytes = SectorAt(n, c - 1) /\ ops = <<Write(0), NextByte, Write(c)>>
        BY <4>1, <4>2 DEF Holds
      <4>3. ASSUME NEW m \in 0 .. CleanFrom, bytes = SectorAt(m, FF), ops # <<>>, Head(ops) # Write(0)
            PROVE  Start'
        <5>1. ~NoTrace /\ ~Settled
          BY <3>2, <4>3 DEF NoTrace, Settled
        <5> QED
          BY <4>3, <5>1, NoCount
      <4>4. CASE c > 1 /\ n < CleanFrom /\ bytes = SectorAt(n + 1, FF) /\ ops = <<NextByte, Write(c)>>
        <5>1. n + 1 \in 0 .. CleanFrom
          BY <1>3, <4>4
        <5>2. ops # <<>> /\ Head(ops) # Write(0)
          BY <4>4 DEF NextByte, Write
        <5> QED
          BY <4>3, <4>4, <5>1, <5>2
      <4>5. CASE bytes = SectorAt(n, FF) /\ ops = <<Write(c)>>
        <5>1. ops # <<>> /\ Head(ops) # Write(0)
          BY <1>3, <4>5 DEF Write
        <5> QED
          BY <4>3, <4>5, <5>1
      <4> QED
        BY <4>1, <4>2, <4>4, <4>5
    <3>3. ~(Free /\ ops # <<>> /\ Head(ops) = Write(0))
      BY ResetTail, TwoOrMore DEF Free, EraseCount, EraseData, Write
    <3>4. \A j \in 0 .. Sessions - 1 : Chain(j) => j = k
      BY <1>3, <2>2 DEF Counted
    <3>5. ASSUME NEW c, Holds(c) PROVE idx \in 0 .. CleanFrom /\ idx # CleanFrom /\ idx < CleanFrom /\ bytes = SectorAt(idx, c)
      BY <1>3, <3>5 DEF Holds
    <3>6. CASE st = 3 /\ time = 0 /\ (Writing(2 * k + 1) \/ (Holds(2 * k + 1) /\ Free))
      <4>1. CASE Writing(2 * k + 1)
        <5>1. SUFFICES ASSUME 2 * k + 1 > 1, Holds((2 * k + 1) - 1),
                              ops = <<Write(0), NextByte, Write(2 * k + 1)>>
                       PROVE  Start'
          BY <3>1, <3>2, <3>6, <4>1
        <5>2. (2 * k + 1) - 1 = 2 * k /\ k # 0 /\ k \in 1 .. Sessions /\ 2 * k \in 1 .. Trigger
          BY <3>1, <5>1, Consts
        <5>3. past' = past
          <6>1. ops # <<>> /\ Head(ops) = Write(0)
            BY <5>1
          <6> QED
            BY <1>2, <3>6, <6>1 DEF NoTrace
        <5>4. Counted(k)'
          BY <2>2, <5>3, SameHistory
        <5>5. Holds(2 * k)
          BY <5>1, <5>2
        <5>6. \A j \in 1 .. Sessions : 2 * k = 2 * j => Fits(j)'
          <6>1. \A j \in 1 .. Sessions : 2 * k = 2 * j => j = k
            BY <5>2
          <6> QED
            BY <5>4, <6>1 DEF Counted
        <5>7. \A j \in 0 .. Sessions : Chain(j)' => 2 * k = IF j = 0 THEN FF ELSE 2 * j
          BY <5>2, <5>4 DEF Counted
        <5> QED
          BY <3>5, <5>2, <5>5, <5>6, <5>7, PowerStart
      <4>2. CASE Holds(2 * k + 1) /\ Free
        <5>1. ~NoTrace /\ ~Settled
          BY <3>3, <3>6, <4>2 DEF NoTrace, Settled
        <5> QED
          BY <3>1, <3>5, <4>2, <5>1, NoCount
      <4> QED
        BY <3>6, <4>1, <4>2
    <3>7. CASE st = 2 /\ Holds(2 * k + 1) /\ Free /\ limit = Serials[2 * k + 1] /\ time <= limit
      <4>1. ~NoTrace /\ ~(Settled /\ st = 0) /\ ~(Settled /\ time >= Serials[2 * k + 1])
        BY <1>3, <3>1, <3>7 DEF NoTrace, Settled
      <4>2. \A j \in 0 .. Sessions - 1 : ~(/\ Settled /\ Chain(j)
                                           /\ time >= Serials[2 * j + 1] /\ time < Serials[2 * j + 2])
        BY <3>4, <4>1
      <4> QED
        BY <3>1, <3>5, <3>7, <4>1, <4>2, NoCount
    <3>8. CASE /\ st = 1 /\ limit \in {Unread, Serials[2 * k + 2]}
               /\ (Writing(2 * k + 2) /\ limit = Unread) \/ (Holds(2 * k + 2) /\ Free)
               /\ Serials[2 * k + 1] <= time /\ time <= Serials[2 * k + 2]
      <4>1. ~NoTrace /\ ~(Settled /\ st = 0)
        BY <3>8 DEF NoTrace
      <4>2. CASE Writing(2 * k + 2) /\ limit = Unread
        <5>1. SUFFICES ASSUME Holds((2 * k + 2) - 1),
                              ops = <<Write(0), NextByte, Write(2 * k + 2)>>
                       PROVE  Start'
          BY <3>1, <3>2, <3>8, <4>2
        <5>2. (2 * k + 2) - 1 = 2 * k + 1
          BY <3>1
        <5>3. Holds(2 * k + 1)
          BY <5>1, <5>2
        <5>4. ~Settled
          BY <5>1 DEF Settled
        <5> QED
          BY <3>1, <3>5, <4>1, <5>3, <5>4, NoCount
      <4>3. CASE Holds(2 * k + 2) /\ Free
        <5>1. time < Serials[2 * k + 2] \/ (~Settled /\ time = Serials[2 * k + 2])
          <6>1. CASE time = Serials[2 * k + 2]
            <7>1. ~(time < Serials[2 * k + 2])
              BY <3>1, <6>1
            <7> QED
              BY <3>8, <6>1, <7>1 DEF Settled
          <6>2. CASE time # Serials[2 * k + 2]
            BY <1>3, <3>1, <3>8, <6>2
          <6> QED
            BY <6>1, <6>2
        <5>2. time >= Serials[2 * k + 1]
          BY <1>3, <3>1, <3>8
        <5> QED
          BY <2>2, <3>5, <4>1, <4>3, <5>1, <5>2, OneMore
      <4> QED
        BY <3>8, <4>2, <4>3
    <3>9. CASE st = 0 /\ Holds(2 * k + 2) /\ ops = <<Write(0)>> /\ time = Serials[2 * k + 2]
      <4>1. ~NoTrace /\ ~Settled
        BY <3>9 DEF NoTrace, Settled
      <4>2. time >= Serials[2 * k + 1]
        BY <3>1, <3>9, Consts
      <4> QED
        BY <2>2, <3>5, <3>9, <4>1, <4>2, OneMore
    <3>10. CASE st = 0 /\ Cleared /\ Free /\ time >= Serials[2 * k + 2]
      <4>1. ~NoTrace /\ ~(time < Serials[2 * k + 2])
        BY <1>3, <3>1, <3>10 DEF NoTrace
      <4>2. \A j \in 0 .. Sessions - 1 : ~(/\ Settled /\ Chain(j)
                                           /\ time >= Serials[2 * j + 1] /\ time < Serials[2 * j + 2])
        BY <3>4, <4>1
      <4>3. idx + 1 \in 0 .. CleanFrom /\ bytes = SectorAt(idx + 1, FF)
        BY <1>3, <3>10 DEF Cleared
      <4> QED
        BY <4>1, <4>2, <4>3, NoCount
    <3> QED
      BY <2>2, <3>6, <3>7, <3>8, <3>9, <3>10 DEF CountedSession
  <2>3. CASE Spoilt /\ SpoiltSession
    <3>1. \A c \in 1 .. Trigger : c % 2 = 1 => \A j \in 1 .. Sessions : c # 2 * j
      BY <1>3
    <3>2. \A j \in 1 .. Sessions : FF # 2 * j
      BY <1>3, Consts DEF FF
    <3>3. ASSUME NoTrace, NEW n \in 0 .. CleanFrom, NEW c \in (1 .. Trigger) \union {FF},
                 bytes = SectorAt(n, c), n = CleanFrom => c = FF, c = FF \/ c % 2 = 1
          PROVE  Start'
      <4>1. Spoilt'
        BY <1>2, <2>3, <3>3, SameHistory
      <4>2. \A j \in 0 .. Sessions : ~Chain(j)'
        BY <4>1 DEF Spoilt
      <4> QED
        BY <3>1, <3>2, <3>3, <4>2, PowerStart
    <3>4. ASSUME st = 3, ops = <<Write(0), Write(1)>>, NEW c \in 1 .. Trigger, c % 2 = 1, Holds(c)
          PROVE  Start'
      <4>1. NoTrace
        <5>1. ops # <<>> /\ Head(ops) = Write(0)
          BY <3>4
        <5> QED
          BY <3>4, <5>1 DEF NoTrace
      <4>2. idx \in 0 .. CleanFrom /\ idx # CleanFrom /\ bytes = SectorAt(idx, c)
        BY <1>3, <3>4 DEF Holds
      <4> QED
        BY <3>3, <3>4, <4>1, <4>2
    <3>5. CASE Cleared
      <4>1. idx + 1 \in 0 .. CleanFrom /\ bytes = SectorAt(idx + 1, FF)
        BY <1>3, <3>5 DEF Cleared
      <4>2. \A j \in 0 .. Sessions - 1 : ~Chain(j)
        BY <1>3, <2>3 DEF Spoilt
      <4> QED
        BY <3>3, <4>1, <4>2, NoCount
    <3> QED
      BY <2>3, <3>4, <3>5 DEF SpoiltSession
  <2>4. CASE KickedSession
    <3>1. ops # <<>> /\ Head(ops) # Write(0) /\ st # 4
      BY <2>4 DEF KickedSession, Reboot, Write
    <3>2. 0 \in 0 .. CleanFrom /\ bytes = SectorAt(0, FF) /\ Len(past) = 0
      BY <1>3, <2>4 DEF KickedSession
    <3>3. \A j \in 0 .. Sessions - 1 : ~Chain(j)
      BY <1>3, <3>2 DEF Chain
    <3> QED
      BY <3>1, <3>2, <3>3, NoCount DEF NoTrace
  <2> QED
    BY <1>1, <2>1, <2>2, <2>3, <2>4 DEF Session
<1>5. DataOK'
  <2>1. ~IsReset(ops')
    BY <1>2 DEF IsReset
  <2>2. ASSUME full' \notin {{}, Sectors}, ~kicked'
        PROVE  \E n \in 0 .. CleanFrom : bytes' = SectorAt(n, Trigger)
    BY <1>1, <1>2, <2>2 DEF DataOK
  <2> QED
    BY <1>2, <2>1, <2>2 DEF DataOK
<1>6. Shape'
  <2>1. 0 \in 0 .. NBytes - 1 /\ 0 \in 0 .. MaxTime
    BY Consts
  <2>2. past' \in Seq(Ends) /\ Len(past') <= Sessions + 1
    <3>1. CASE NoTrace
      BY <1>1, <1>2, <3>1 DEF Shape
    <3>2. CASE ~NoTrace
      <4>1. PICK e \in Ends : past' = Grown(past, e)
        BY <1>1, <3>2, Ended
      <4>2. past' \in Seq(Ends) /\ Len(past') \in 1 .. Sessions + 1
        BY <1>1, <4>1, PastGrows DEF Shape
      <4> QED
        BY <1>3, <4>2
    <3> QED
      BY <3>1, <3>2
  <2>3. full' \subseteq Sectors
    BY <1>1, <1>2 DEF Shape
  <2>4. kicked' \in BOOLEAN
    BY <1>2
  <2> QED
    BY <1>2, <2>1, <2>2, <2>3, <2>4 DEF Shape
<1> QED
  BY <1>4, <1>5, <1>6 DEF ResetInv, Session

-----------------------------------------------------------------------------
(* The theorems *)

\* The initial states satisfy the invariant: an erased sector.
LEMMA InitInv ==
  ASSUME Init
  PROVE  ResetInv
<1>1. /\ bytes = [i \in 0 .. NBytes - 1 |-> FF] /\ idx = 0 /\ st = 4 /\ ops = <<>> /\ limit = 0 /\ time = 0
      /\ full = Sectors /\ kicked = FALSE /\ past = <<>>
  BY DEF Init
<1>2. /\ 0 \in 0 .. CleanFrom /\ 0 # CleanFrom /\ Sessions \in Nat /\ 2 * Sessions <= 99
      /\ 0 \in 0 .. MaxTime /\ 0 \in 0 .. NBytes - 1
  BY Consts
<1>3. bytes = SectorAt(0, FF)
  BY <1>1 DEF SectorAt
<1>4. (\A k \in 0 .. Sessions : ~Chain(k)) /\ \A k \in 1 .. Sessions : FF # 2 * k
  <2>1. \A k \in 1 .. Sessions : FF # 2 * k
    BY <1>2 DEF FF
  <2>2. \A k \in 0 .. Sessions : ~Chain(k)
    BY <1>1, <1>2 DEF Chain
  <2> QED
    BY <2>1, <2>2
<1>5. Start
  BY <1>1, <1>2, <1>3, <1>4 DEF Start
<1>6. Shape
  <2>1. past \in Seq(Ends) /\ Len(past) <= Sessions + 1
    BY <1>1, <1>2
  <2>2. kicked \in BOOLEAN /\ full \subseteq Sectors
    BY <1>1
  <2> QED
    BY <1>1, <1>2, <2>1, <2>2 DEF Shape
<1>7. DataOK
  BY <1>1 DEF DataOK, IsReset
<1> QED
  BY <1>5, <1>6, <1>7 DEF ResetInv, Session

\* Every step keeps it.
LEMMA NextInv ==
  ASSUME ResetInv, [Next]_vars
  PROVE  ResetInv'
<1>1. CASE Handle
  BY <1>1, HandleInv
<1>2. CASE ReadLimit
  BY <1>2, ReadLimitInv
<1>3. CASE FirstLimit
  BY <1>3, FirstLimitInv
<1>4. CASE SecondLimit
  BY <1>4, SecondLimitInv
<1>5. CASE FlashOp
  BY <1>5, FlashOpInv
<1>6. CASE Tick
  BY <1>6, TickInv
<1>7. CASE PowerCycle
  BY <1>7, PowerCycleInv
<1>8. CASE KickOut
  BY <1>8, KickOutInv
<1>9. CASE Configure
  BY <1>9, ConfigureInv
<1>10. CASE UNCHANGED vars
  BY <1>10 DEF vars, ResetInv, Shape, Session, DataOK, Start, Counted, CountedSession, Spoilt,
         SpoiltSession, KickedSession, Fits, Chain, Writing, Holds, Cleared, Free
<1> QED
  BY <1>1, <1>2, <1>3, <1>4, <1>5, <1>6, <1>7, <1>8, <1>9, <1>10 DEF Next, Running

\* The invariant of the count, the sessions and the data.
THEOREM ResetInvariant == Spec => []ResetInv
<1>1. Init => ResetInv
  BY InitInv
<1>2. ResetInv /\ [Next]_vars => ResetInv'
  BY NextInv
<1> QED
  BY <1>1, <1>2, PTL DEF Spec

\* A call that writes a count is not an erasure, and one that is belongs to a start or to kick_out.
LEMMA WhoErases ==
  ASSUME ResetInv, Resetting, ~kicked
  PROVE  Start
<1>1. Session /\ DataOK /\ ops # <<>> /\ ops[Len(ops)] = Reboot
  BY DEF ResetInv, Resetting
<1>2. ~(IsReset(ops) /\ st # 4)
  BY <1>1 DEF DataOK
<1>3. \A c : ~Writing(c)
  <2>1. \A c : Write(c) # Reboot
    BY DEF Write, Reboot
  <2> QED
    BY <1>1, <2>1, WritingIs
<1>4. \A c : ops # <<Write(c)>> /\ ops # <<Write(0), Write(c)>>
  <2>1. ASSUME NEW c, ops = <<Write(c)>> \/ ops = <<Write(0), Write(c)>> PROVE FALSE
    <3>1. ops[Len(ops)] = Write(c)
      BY <2>1
    <3> QED
      BY <1>1, <3>1 DEF Write, Reboot
  <2> QED
    BY <2>1
<1>5. Free => IsReset(ops)
  BY <1>1 DEF Free
<1>6. \A k \in 0 .. Sessions - 1 : ~CountedSession(k)
  BY <1>2, <1>3, <1>4, <1>5 DEF CountedSession
<1>7. ~SpoiltSession
  BY <1>2, <1>4, <1>5 DEF SpoiltSession
<1>8. ~KickedSession
  <2>1. ASSUME KickedSession PROVE FALSE
    <3>1. ops = <<Reboot>> /\ st # 4
      BY <2>1 DEF KickedSession
    <3>2. <<Reboot>> \in Seq(ResetOps)
      BY DEF ResetOps
    <3>3. IsReset(ops)
      BY <3>1, <3>2 DEF IsReset
    <3> QED
      BY <1>2, <3>1, <3>3
  <2> QED
    BY <2>1
<1> QED
  BY <1>1, <1>6, <1>7, <1>8 DEF Session

\* The data is erased without a message only after the whole sequence of sessions, whatever power
\* cycles came before (factory_reset_handle).
THEOREM OnlyTheSequence == Spec => []ResetOnlyBySequence
<1>1. ASSUME ResetInv, Resetting, ~kicked, full = Sectors
      PROVE  Sequence
  <2>1. Start
    BY <1>1, WhoErases
  <2>2. PICK n \in 0 .. CleanFrom, c \in (1 .. Trigger) \union {FF} :
          /\ \A k \in 1 .. Sessions : c = 2 * k => Fits(k)
          /\ ops = <<>> \/ (IsReset(ops) /\ (Len(ops) >= 2 => c = Trigger))
    BY <2>1 DEF Start
  <2>3. IsReset(ops) /\ (Len(ops) >= 2 => c = Trigger)
    BY <1>1, <2>2 DEF Resetting
  <2>4. full \subseteq Remaining(ops) /\ Sectors # {}
    BY <1>1, <2>3, ResetBegins DEF ResetInv, DataOK
  <2>5. Len(ops) \in Nat /\ Len(ops) >= 1
    BY <2>3, ResetIs
  <2>6. Len(ops) # 1
    <3>1. Len(ops) = 1 => Remaining(ops) = {}
      BY DEF Remaining
    <3> QED
      BY <1>1, <2>4, <3>1
  <2>7. Len(ops) >= 2
    <3>1. \A m \in Nat : m >= 1 /\ m # 1 => m >= 2
      OBVIOUS
    <3> QED
      BY <2>5, <2>6, <3>1
  <2>8. Sessions \in 1 .. Sessions /\ c = 2 * Sessions
    BY <2>3, <2>7, Consts
  <2> QED
    BY <2>2, <2>8 DEF Fits, Sequence
<1>2. ResetInv => ResetOnlyBySequence
  BY <1>1 DEF ResetOnlyBySequence
<1> QED
  BY <1>2, ResetInvariant, PTL

\* The sequence, done without a cut in the middle of a write after a session that lasted, resets the
\* node at the next start, which would else count one session more.
THEOREM SequenceIsEnough == Spec => []SequenceResets
<1>1. ASSUME ResetInv, st = 3, Len(past) = Sessions + 1, past[1].done,
             \A i \in 2 .. Sessions + 1 : ~past[i].torn, Sequence
      PROVE  FALSE
  <2>1. Sessions \in Nat /\ Sessions \in 0 .. Sessions
    BY Consts
  <2>2. Len(past) >= Sessions + 1 /\ Len(past) - Sessions = 1
    BY <1>1, <2>1
  <2>3. ASSUME NEW i \in 1 .. Sessions
        PROVE  InRange(past[Len(past) - Sessions + i], i) /\ ~past[Len(past) - Sessions + i].torn
    <3>1. Len(past) - Sessions + i \in 2 .. Sessions + 1
      BY <1>1, <2>1
    <3> QED
      BY <1>1, <3>1 DEF Sequence
  <2>4. Chain(Sessions)
    BY <1>1, <2>2, <2>3 DEF Chain
  <2>5. ~Spoilt /\ \A k \in 0 .. Sessions - 1 : ~Counted(k)
    BY <2>1, <2>4 DEF Spoilt, Counted
  <2>6. ~KickedSession
    <3>1. past # <<>>
      BY <1>1, <2>1
    <3> QED
      BY <3>1 DEF KickedSession
  <2> QED
    BY <1>1, <2>5, <2>6 DEF ResetInv, Session, Start
<1>2. ResetInv => SequenceResets
  BY <1>1 DEF SequenceResets
<1> QED
  BY <1>2, ResetInvariant, PTL

\* A node whose data is partly erased, and not by kick_out, will go on with the erasure at its start.
THEOREM PartialIsResumed == Spec => []PartialMeansResetting
<1>1. ASSUME ResetInv, full \notin {{}, Sectors}, ~kicked
      PROVE  Resumes
  <2>1. PICK n \in 0 .. CleanFrom : bytes = SectorAt(n, Trigger)
    BY <1>1 DEF ResetInv, DataOK
  <2>2. n \in 0 .. NBytes - 1 /\ n \in Nat
    BY Consts
  <2>3. n \in DOMAIN bytes /\ bytes[n] = Trigger /\ \A j \in 0 .. n - 1 : bytes[j] = 0
    BY <2>1, <2>2, SectorIs, Consts
  <2> QED
    BY <2>3 DEF Resumes
<1>2. ResetInv => PartialMeansResetting
  BY <1>1 DEF PartialMeansResetting
<1> QED
  BY <1>2, ResetInvariant, PTL

\* Each variable has its type: a byte of the sector is erased, cleared or a count of the table.
THEOREM TypeCorrect == Spec => []TypeOK
<1>1. ASSUME ResetInv PROVE TypeOK
  <2> DEFINE Byte == (0 .. Trigger) \union {FF}
             B == bytes \in [0 .. NBytes - 1 -> Byte]
  <2>1. Shape /\ Session
    BY <1>1 DEF ResetInv
  <2>2. ASSUME NEW n, NEW v \in Byte PROVE SectorAt(n, v) \in [0 .. NBytes - 1 -> Byte]
    <3>1. 0 \in Byte /\ FF \in Byte
      BY Consts
    <3> QED
      BY <2>2, <3>1 DEF SectorAt
  <2>3. FF \in Byte /\ \A c \in 1 .. Trigger : c \in Byte /\ c - 1 \in Byte
    BY Consts
  <2> HIDE DEF Byte
  <2>4. ASSUME NEW c \in 1 .. Trigger, Writing(c) PROVE B
    BY <2>2, <2>3, <2>4 DEF Writing
  <2>5. ASSUME NEW c \in 1 .. Trigger, Holds(c) PROVE B
    BY <2>2, <2>3, <2>5 DEF Holds
  <2>6. Cleared => B
    BY <2>2, <2>3 DEF Cleared
  <2>7. ASSUME NEW k \in 0 .. Sessions - 1, CountedSession(k) PROVE B /\ st \in 0 .. 4
    <3>1. 2 * k + 1 \in 1 .. Trigger /\ 2 * k + 2 \in 1 .. Trigger
      BY Consts
    <3> QED
      BY <2>4, <2>5, <2>6, <2>7, <3>1 DEF CountedSession
  <2>8. SpoiltSession => B /\ st \in 0 .. 4
    BY <2>5, <2>6 DEF SpoiltSession
  <2>9. Start => B /\ st \in 0 .. 4
    BY <2>2, <2>3 DEF Start
  <2>10. KickedSession => B
    BY <2>2, <2>3 DEF KickedSession
  <2>11. KickedSession => st \in 0 .. 4
    BY DEF KickedSession
  <2>12. B /\ st \in 0 .. 4
    BY <2>1, <2>7, <2>8, <2>9, <2>10, <2>11 DEF Session
  <2> QED
    BY <2>1, <2>12 DEF Shape, TypeOK, Byte
<1> QED
  BY <1>1, ResetInvariant, PTL

-----------------------------------------------------------------------------
(* FactoryReset: liveness.  The provers reason about WF, not about the      *)
(* ENABLED in it, so that the theorem assumes GuardsSuffice.                *)

\* Induction over the natural numbers, for what is the case of those where a function is 1.
LEMMA Induction ==
  ASSUME NEW F, F[0] = 1, \A n \in Nat : F[n] = 1 => F[n + 1] = 1
  PROVE  \A n \in Nat : F[n] = 1
<1> SUFFICES ASSUME NEW k \in Nat, F[k] # 1 PROVE FALSE
  OBVIOUS
<1> DEFINE S == {n \in Nat : F[n] # 1}
<1>1. PICK m \in S : \A j \in S : <<j, m>> \notin OpToRel(<, Nat)
  BY NatLessThanWellFounded, WFMin
<1>2. m \in Nat /\ m # 0
  BY <1>1
<1> HIDE DEF S
<1>3. m - 1 \in Nat /\ m - 1 < m /\ (m - 1) + 1 = m
  BY <1>2
<1>4. m - 1 \notin S
  BY <1>1, <1>2, <1>3 DEF OpToRel
<1> QED
  BY <1>1, <1>3, <1>4 DEF S

\* Says nothing of f, and lets a proof name it.
Named(f) == TRUE

\* A start that erases the data, or is about to: the count of the whole sequence is there.
Erases ==
  /\ st = 4 /\ full # {}
  /\ \E n \in 0 .. CleanFrom : bytes = SectorAt(n, Trigger)
  /\ ops = <<>> \/ IsReset(ops)

\* No call has more to do than an erasure.
AnyOp == ResetOps \union {NextByte} \union {Write(v) : v \in Int}
Short == ops \in Seq(AnyOp) /\ Len(ops) <= Len(FactoryResetOps)

\* A step keeps the count of what is left to do short.
LEMMA ShortAgain ==
  ASSUME Short, TypeOK, TypeOK', [Next]_vars
  PROVE  Short'
<1>1. Len(FactoryResetOps) \in Nat /\ Len(FactoryResetOps) >= 3 /\ FactoryResetOps \in Seq(AnyOp)
  <2>1. IsReset(FactoryResetOps) /\ Len(FactoryResetOps) >= 3
    BY ResetBegins
  <2>2. FactoryResetOps \in Seq(ResetOps) /\ Len(FactoryResetOps) \in Nat
    BY <2>1, ResetIs DEF IsReset
  <2>3. \A i \in 1 .. Len(FactoryResetOps) : FactoryResetOps[i] \in AnyOp
    BY <2>2, ElementOfSeq DEF AnyOp
  <2> QED
    BY <2>1, <2>2, <2>3, SeqDef
<1>2. /\ NextByte \in AnyOp /\ \A v \in Int : Write(v) \in AnyOp
  BY DEF AnyOp
<1>3. ASSUME NEW c \in (0 .. Trigger) \union {FF}
      PROVE  /\ IncreaseOps(c) \in Seq(AnyOp) /\ Len(IncreaseOps(c)) <= 3
             /\ <<Write(0)>> \o IncreaseOps(0) \in Seq(AnyOp)
             /\ Len(<<Write(0)>> \o IncreaseOps(0)) <= 3
  <2>1. Write(0) \in AnyOp /\ Write(1) \in AnyOp /\ Write(c + 1) \in AnyOp
    BY <1>2, Consts DEF FF
  <2>2. /\ <<Write(0)>> \o IncreaseOps(0) \in Seq(AnyOp)
        /\ Len(<<Write(0)>> \o IncreaseOps(0)) = 2
    <3>1. IncreaseOps(0) = <<Write(1)>>
      BY DEF IncreaseOps, FF
    <3>2. /\ <<Write(0)>> \in Seq(AnyOp) /\ Len(<<Write(0)>>) = 1
          /\ <<Write(1)>> \in Seq(AnyOp) /\ Len(<<Write(1)>>) = 1
      BY <2>1
    <3>3. \A p, q \in Seq(AnyOp) : p \o q \in Seq(AnyOp) /\ Len(p \o q) = Len(p) + Len(q)
      BY ConcatProperties
    <3> DEFINE a == <<Write(0)>>
               b == <<Write(1)>>
    <3> HIDE DEF a, b
    <3>4. a \in Seq(AnyOp) /\ b \in Seq(AnyOp) /\ Len(a) = 1 /\ Len(b) = 1
      BY <3>2 DEF a, b
    <3>5. a \o b \in Seq(AnyOp) /\ Len(a \o b) = Len(a) + Len(b)
      BY <3>3, <3>4, Zenon
    <3>6. <<Write(0)>> \o IncreaseOps(0) = a \o b
      BY <3>1 DEF a, b
    <3>7. Len(a) + Len(b) = 2
      BY <3>4
    <3> QED
      BY <3>5, <3>6, <3>7, Zenon
  <2> QED
    BY <1>2, <2>1, <2>2 DEF IncreaseOps
<1>4. CASE FlashOp
  <2>1. ops' = Tail(ops) /\ ops # <<>>
    BY <1>4 DEF FlashOp
  <2>2. Tail(ops) \in Seq(AnyOp) /\ Len(Tail(ops)) = Len(ops) - 1 /\ Len(ops) \in Nat
    BY <2>1, HeadTailProperties, LenProperties DEF Short
  <2> QED
    BY <1>1, <2>1, <2>2 DEF Short
<1>5. CASE Handle
  <2>1. bytes[FirstByte] \in (0 .. Trigger) \union {FF}
    BY <1>5 DEF Handle, TypeOK
  <2>2. \/ ops' = FactoryResetOps
        \/ ops' = <<Write(0)>> \o IncreaseOps(0)
        \/ ops' = IncreaseOps(bytes[FirstByte])
    BY <1>5 DEF Handle
  <2>3. ops' \in Seq(AnyOp) /\ (ops' = FactoryResetOps \/ Len(ops') <= 3)
    BY <1>1, <1>3, <2>1, <2>2
  <2>4. Len(ops') \in Nat
    BY <2>3, LenProperties
  <2> QED
    BY <1>1, <2>3, <2>4 DEF Short
<1>6. CASE FirstLimit
  <2>1. Count \in (0 .. Trigger) \union {FF} /\ ops' = IncreaseOps(Count)
    BY <1>6 DEF FirstLimit, TypeOK, Count
  <2> QED
    BY <1>1, <1>3, <2>1 DEF Short
<1>7. CASE SecondLimit
  <2>1. ops' = <<Write(0)>>
    BY <1>7 DEF SecondLimit
  <2> QED
    BY <1>1, <1>2, <2>1 DEF Short
<1>8. CASE PowerCycle
  <2>1. ops' = <<>>
    BY <1>8 DEF PowerCycle
  <2> QED
    BY <1>1, <2>1 DEF Short
<1>9. CASE KickOut
  <2>1. ops' = FactoryResetOps
    BY <1>9 DEF KickOut
  <2> QED
    BY <1>1, <2>1 DEF Short
<1>10. CASE ReadLimit \/ Tick \/ Configure \/ UNCHANGED vars
  <2>1. ops' = ops
    BY <1>10 DEF ReadLimit, Tick, Configure, vars
  <2> QED
    BY <2>1 DEF Short
<1> QED
  BY <1>4, <1>5, <1>6, <1>7, <1>8, <1>9, <1>10 DEF Next, Running

\* It is short in every state.
LEMMA ShortInvariant == Spec => []Short
<1>1. Init => Short
  <2>1. Init => ops = <<>> /\ <<>> \in Seq(AnyOp) /\ Len(<<>>) = 0
    BY DEF Init
  <2> QED
    BY <2>1, ResetBegins DEF Short
<1>2. Short /\ TypeOK /\ TypeOK' /\ [Next]_vars => Short'
  BY ShortAgain
<1> QED
  BY <1>1, <1>2, TypeCorrect, PTL DEF Spec

\* The operations still to be done, and one more for the handler that begins them.
Ahead == IF ops = <<>> THEN Len(FactoryResetOps) + 1 ELSE Len(ops)

\* There are at most as many as when the handler has not run.
LEMMA AheadIsNat ==
  ASSUME Short
  PROVE  Ahead \in Nat /\ Len(FactoryResetOps) + 2 \in Nat /\ Ahead < Len(FactoryResetOps) + 2
<1>1. Len(FactoryResetOps) \in Nat /\ Len(ops) \in Nat
  BY ResetBegins, ResetIs, LenProperties DEF Short
<1> QED
  BY <1>1 DEF Ahead, Short

\* An erasure that was not begun by a message is of this kind.
LEMMA SequenceErases ==
  ASSUME ResetInv, Resetting, ~kicked
  PROVE  Erases \/ full = {}
<1>1. Start
  BY WhoErases
<1>2. PICK n \in 0 .. CleanFrom, c \in (1 .. Trigger) \union {FF} :
        /\ bytes = SectorAt(n, c)
        /\ ops = <<>> \/ (IsReset(ops) /\ (Len(ops) >= 2 => c = Trigger))
  BY <1>1 DEF Start
<1>3. IsReset(ops) /\ (Len(ops) >= 2 => c = Trigger) /\ st = 4
  BY <1>1, <1>2 DEF Resetting, Start
<1>4. Len(ops) \in Nat /\ Len(ops) >= 1 /\ full \subseteq Remaining(ops)
  BY <1>3, ResetIs DEF ResetInv, DataOK
<1>5. CASE Len(ops) = 1
  BY <1>4, <1>5 DEF Remaining
<1>6. CASE Len(ops) >= 2
  BY <1>2, <1>3, <1>6 DEF Erases
<1>7. \A m \in Nat : m >= 1 => m = 1 \/ m >= 2
  OBVIOUS
<1> QED
  BY <1>4, <1>5, <1>6, <1>7

\* The next operation of an erasure.
LEMMA EraseNext ==
  ASSUME ResetInv, Erases, FlashOp
  PROVE  /\ Erases' \/ full' = {}
         /\ Ahead' = Ahead - 1 \/ full' = {}
<1>1. IsReset(ops) /\ ops # <<>> /\ full \subseteq Remaining(ops) /\ full # {} /\ st = 4
  BY DEF FlashOp, Erases, ResetInv, DataOK
<1>2. Len(ops) \in Nat /\ Len(ops) >= 1
  BY <1>1, ResetIs
<1>3. Len(ops) # 1 /\ Len(ops) # 2
  <2>1. ASSUME Len(ops) = 1 PROVE FALSE
    BY <1>1, <2>1 DEF Remaining
  <2>2. ASSUME Len(ops) = 2 PROVE FALSE
    BY <1>1, <2>2 DEF Remaining
  <2> QED
    BY <2>1, <2>2
<1>4. Len(ops) > 2 /\ Len(ops) >= 2
  <2>1. \A m \in Nat : m >= 1 /\ m # 1 /\ m # 2 => m > 2 /\ m >= 2
    OBVIOUS
  <2> QED
    BY <1>2, <1>3, <2>1
<1>5. /\ IsReset(ops') /\ Len(ops') = Len(ops) - 1
      /\ UNCHANGED <<idx, st, limit, time, kicked>> /\ bytes' = bytes
  BY <1>1, <1>4, ResetStep
<1>6. ops' # <<>>
  BY <1>5 DEF IsReset
<1>7. Ahead' = Ahead - 1
  BY <1>1, <1>5, <1>6 DEF Ahead
<1>8. Erases' \/ full' = {}
  BY <1>1, <1>5 DEF Erases
<1> QED
  BY <1>7, <1>8

\* The handler of a start that finds the count of the whole sequence.
LEMMA EraseBegins ==
  ASSUME ResetInv, Erases, Handle
  PROVE  Erases' /\ Ahead' = Ahead - 1
<1>1. PICK n \in 0 .. CleanFrom : bytes = SectorAt(n, Trigger)
  BY DEF Erases
<1>2. Trigger # 0
  BY Consts
<1>3. bytes[FirstByte] = Trigger
  BY <1>1, <1>2, FirstIs
<1>4. st' = 4 /\ ops' = FactoryResetOps /\ bytes' = bytes /\ full' = full /\ ops = <<>>
  BY <1>3 DEF Handle
<1>5. IsReset(FactoryResetOps) /\ Len(FactoryResetOps) \in Nat
  BY ResetBegins, ResetIs
<1>6. ops' # <<>>
  BY <1>4, <1>5 DEF IsReset
<1>7. Ahead' = Ahead - 1
  BY <1>4, <1>5, <1>6 DEF Ahead
<1> QED
  BY <1>1, <1>4, <1>5, <1>7 DEF Erases

\* Nothing but a power cycle interrupts an erasure, and the next start goes on with it.
LEMMA EraseGoesOn ==
  ASSUME ResetInv, Erases, [Next]_vars
  PROVE  /\ Erases' \/ full' = {}
         /\ PowerCycle \/ Ahead' = Ahead \/ Ahead' = Ahead - 1 \/ full' = {}
         /\ Running => Ahead' = Ahead - 1 \/ full' = {}
<1>1. CASE FlashOp
  BY <1>1, EraseNext
<1>2. CASE Handle
  BY <1>2, EraseBegins
<1>3. ~ReadLimit /\ ~FirstLimit /\ ~SecondLimit /\ ~Tick /\ ~KickOut /\ ~Configure
  BY DEF Erases, ReadLimit, FirstLimit, SecondLimit, Tick, Settled, KickOut, Configure
<1>4. CASE PowerCycle /\ ~FlashOp /\ ~Handle
  <2>1. Erases'
    BY <1>4 DEF PowerCycle, Erases
  <2> QED
    BY <1>3, <1>4, <2>1 DEF Running
<1>5. CASE UNCHANGED vars /\ ~FlashOp /\ ~Handle
  <2>1. Erases' /\ Ahead' = Ahead
    BY <1>5 DEF vars, Erases, Ahead
  <2> QED
    BY <1>3, <1>5, <2>1 DEF Running
<1> QED
  BY <1>1, <1>2, <1>3, <1>4, <1>5 DEF Next, Running

\* From now on the power stays on.
PowerStays == [][~PowerCycle]_vars

\* One operation less.
LEMMA OneLess ==
  ASSUME NEW n \in Nat
  PROVE  FairSpec /\ []GuardsSuffice
            => [](PowerStays /\ Erases /\ Ahead = n => <>(full = {} \/ (Erases /\ Ahead < n)))
<1> DEFINE A == Erases
           E == full = {}
           P == Ahead = n
           L == Ahead < n
<1>1. (Short => Ahead \in Nat)'
  BY AheadIsNat, PTL
<1>2. ResetInv /\ Short' /\ [Next]_vars /\ [~PowerCycle]_vars /\ A /\ P => E' \/ (A' /\ (P' \/ L'))
  <2> SUFFICES ASSUME ResetInv, Short', [Next]_vars, [~PowerCycle]_vars, A, P, ~E'
               PROVE  A' /\ (P' \/ L')
    OBVIOUS
  <2>1. A' /\ (PowerCycle \/ Ahead' = Ahead \/ Ahead' = Ahead - 1)
    BY EraseGoesOn
  <2>2. UNCHANGED vars => Ahead' = Ahead
    BY DEF vars, Ahead
  <2> QED
    BY <1>1, <2>1, <2>2
<1>3. ResetInv /\ [Next]_vars /\ <<Running>>_vars /\ A /\ P => E' \/ (A' /\ L')
  BY EraseGoesOn
<1>4. GuardsSuffice /\ A => ENABLED <<Running>>_vars
  BY DEF GuardsSuffice, Erases
<1>5. FairSpec => [][Next]_vars /\ WF_vars(Running) /\ []ResetInv /\ []Short
  BY ResetInvariant, ShortInvariant, PTL DEF FairSpec, Spec
<1> HIDE DEF A, E, P, L
<1>6. FairSpec /\ []GuardsSuffice => [](PowerStays /\ A /\ P => <>(E \/ (A /\ L)))
  BY <1>2, <1>3, <1>4, <1>5, PTL DEF PowerStays
<1> QED
  BY <1>6 DEF A, E, P, L

Leaves(n) == [](PowerStays /\ Erases /\ Ahead < n => <>(full = {}))

\* ResetCompletes: once the power stays on, a reset that the sequence began, in whatever start,
\* erases the data, however many sectors there are.
THEOREM ResetEnds == FairSpec /\ []GuardsSuffice => ResetCompletes
<1> DEFINE Most == Len(FactoryResetOps) + 2
<1>1. FairSpec => [][Next]_vars /\ []ResetInv /\ []Short /\ <>PowerStays
  BY ResetInvariant, ShortInvariant, PTL DEF FairSpec, Spec, PowerStays
<1>2. Short => ~(Ahead < 0) /\ Ahead < Most
  BY AheadIsNat
<1>3. FairSpec => Leaves(0)
  BY <1>1, <1>2, PTL DEF Leaves
<1>4. ASSUME NEW n \in Nat
      PROVE  FairSpec /\ []GuardsSuffice /\ Leaves(n) => Leaves(n + 1)
  <2>1. Short /\ Ahead < n + 1 => Ahead = n \/ Ahead < n
    BY AheadIsNat
  <2>2. FairSpec /\ []GuardsSuffice
          => [](PowerStays /\ Erases /\ Ahead = n => <>(full = {} \/ (Erases /\ Ahead < n)))
    BY OneLess
  <2> QED
    BY <1>1, <2>1, <2>2, PTL DEF Leaves, PowerStays
<1>5. FairSpec /\ []GuardsSuffice => Leaves(Most)
  <2> SUFFICES ASSUME FairSpec /\ []GuardsSuffice PROVE Leaves(Most)
    OBVIOUS
  <2>1. PICK F : Named(F) /\ \A n \in Nat : F[n] = 1 <=> Leaves(n)
    <3>1. Named([n \in Nat |-> IF Leaves(n) THEN 1 ELSE 0])
      BY DEF Named
    <3> QED
      BY <3>1
  <2>2. F[0] = 1
    BY <1>3, <2>1
  <2>3. \A n \in Nat : F[n] = 1 => F[n + 1] = 1
    BY <1>4, <2>1
  <2>4. \A n \in Nat : F[n] = 1
    BY <2>2, <2>3, Induction
  <2>5. Most \in Nat
    BY ResetBegins, ResetIs
  <2> QED
    BY <2>1, <2>4, <2>5
<1> HIDE DEF Most
<1>6. ResetInv /\ Resetting /\ ~kicked => Erases \/ full = {}
  BY SequenceErases
<1>7. ResetInv /\ [Next]_vars /\ Erases => (Erases \/ full = {})'
  BY EraseGoesOn
<1> QED
  BY <1>1, <1>2, <1>5, <1>6, <1>7, PTL DEF Leaves, PowerStays, ResetCompletes

=============================================================================
