---------------------------- MODULE FlashRecord ----------------------------
(***************************************************************************)
(* mesh_par_store and mesh_par_retrieve (mesh_node.c): a node keeps each   *)
(* group of parameters as a log of records in one flash sector.  A record  *)
(* is a head (flag, crc) and the data; the flag is written last, 0xAF      *)
(* before the data and 0xA5 after it.  A full sector is erased and written *)
(* again from its start.  The sector FLASH_ADR_MISC (sequence number, IV   *)
(* index) is first copied into the sector FLASH_ADR_FRIEND_SHIP.           *)
(* The power may go at any flash operation, in the middle of it too.       *)
(* Flash is NOR: writing clears bits, only erasing a sector sets them.     *)
(***************************************************************************)
EXTENDS Naturals

CONSTANTS Bits,       \* the bits of the data of a record
          Values,     \* the values stored: sets of the bits that are 1
          None,       \* no record is found
          NSlots,     \* records that fit in the sector
          MaxLosses,  \* bound: power losses
          MaxStores   \* bound: stores between two starts

ASSUME ValuesAssumption == Values \subseteq SUBSET Bits /\ Bits \notin Values
ASSUME NoneAssumption == None \notin SUBSET Bits
ASSUME NSlotsAssumption == NSlots \in Nat \ {0}
ASSUME BoundsAssumption == MaxLosses \in Nat /\ MaxStores \in Nat

VARIABLES misc,      \* the sector is FLASH_ADR_MISC (else one of mesh_save_map)
          main,      \* the records of the sector
          backup,    \* the record at FLASH_ADR_FRIEND_SHIP
          next,      \* *p_adr: the slot the next record goes to (in RAM)
          op,        \* the store under way: its next step and its value (in RAM)
          stores,    \* stores since the start, for the bound
          losses,    \* power losses, for the bound
          overlaid,  \* history: a backup was written over the remains of another
          stranded   \* history: a power loss left a value in a record without its flag

logVars == <<misc, main, backup, next, op, stores, losses, overlaid, stranded>>

Slots == 1 .. NSlots

\* The flag byte: erased, SAVE_FLAG_PRE, SAVE_FLAG; each value has fewer bits at 1.
Flags == {"FF", "AF", "A5"}
AndFlag(f, g) == IF "A5" \in {f, g} THEN "A5" ELSE IF "AF" \in {f, g} THEN "AF" ELSE "FF"

Record == [flag : Flags, crc : SUBSET Bits, data : SUBSET Bits]
Erased == [flag |-> "FF", crc |-> Bits, data |-> Bits]

\* crc16, as a function no two values share and no mixture of two values has.
Crc(v) == Bits \ v

\* variant: the flag is written with the head, before the data
BugWithHead(r, v) == [r EXCEPT !.flag = "A5", !.crc = @ \cap Crc(v)]

\* The three writes of mesh_par_write_with_check, on what the cell holds.
WithHead(r, v) == [r EXCEPT !.flag = AndFlag(@, "AF"), !.crc = @ \cap Crc(v)]
WithData(r, v) == [r EXCEPT !.data = @ \cap v]
WithFlag(r) == [r EXCEPT !.flag = "A5"]

Steps == {"idle", "start", "backupHead", "backupData", "backupFlag", "erase",
          "head", "data", "flag", "clean"}

Idle == [step |-> "idle", value |-> None]

-----------------------------------------------------------------------------
(* mesh_par_retrieve: from the back of the sector, the first record that is valid. *)

\* if(head.crc_en && ((FLASH_ADR_MISC == adr_base) ...: the crc of other sectors is not read.
ValidIn(r, isMisc) == r.flag = "A5" /\ (isMisc => r.crc = Crc(r.data))

Found(sector, isMisc) ==
    LET valid == {i \in Slots : ValidIn(sector[i], isMisc)}
    IN  IF valid = {} THEN None
        ELSE sector[CHOOSE i \in valid : \A j \in valid : j <= i].data

\* mesh_misc_retrieve: the backup when the sector has no valid record.  The
\* backup is read with its own adr_base, so its crc is not compared.
Retrieved ==
    IF misc /\ Found(main, misc) = None /\ ValidIn(backup, FALSE) THEN backup.data
    ELSE Found(main, misc)

\* *p_adr = adr_read for each erased slot, until a valid record ends the scan.
NextSlot(sector, isMisc) ==
    LET stop == {i \in Slots : ValidIn(sector[i], isMisc)}
        free == {i \in Slots : sector[i] = Erased /\ \A j \in stop : j < i}
    IN  IF free = {} THEN NSlots + 1
        ELSE CHOOSE i \in free : \A j \in free : i <= j

-----------------------------------------------------------------------------
LogInit ==
    /\ misc \in BOOLEAN
    /\ main = [i \in Slots |-> Erased]
    /\ backup = Erased
    /\ next = 1
    /\ op = Idle
    /\ stores = 0
    /\ losses = 0
    /\ overlaid = FALSE
    /\ stranded = FALSE

\* mesh_par_store_2 is called.
Store(v) ==
    /\ op = Idle
    /\ stores < MaxStores
    /\ stores' = stores + 1
    /\ op' = [step |-> "start", value |-> v]
    /\ UNCHANGED <<misc, main, backup, next, losses, overlaid, stranded>>

Go(step) == op' = [op EXCEPT !.step = step]

\* variant: no backup before the sector is erased
BugStartFull ==
    /\ op.step = "start"
    /\ next > NSlots
    /\ next' = 1
    /\ Go("erase")
    /\ UNCHANGED <<main, backup>>

\* if(*p_adr > (adr_base + FLASH_SECTOR_SIZE - size_save - SIZE_SAVE_FLAG))
StartFull ==
    /\ op.step = "start"
    /\ next > NSlots
    /\ next' = 1
    /\ Go(IF misc THEN "backupHead" ELSE "erase")
    /\ UNCHANGED <<main, backup>>

\* mesh_flash_data_cmp with the data of the slot before: the flag is not looked at.
AlreadyStored == ~misc /\ next > 1 /\ main[next - 1].data = op.value

StartSame ==
    /\ op.step = "start"
    /\ next <= NSlots
    /\ AlreadyStored
    /\ op' = Idle
    /\ UNCHANGED <<main, backup, next>>

StartWrite ==
    /\ op.step = "start"
    /\ next <= NSlots
    /\ ~AlreadyStored
    /\ Go("head")
    /\ UNCHANGED <<main, backup, next>>

\* mesh_par_write_with_check(FLASH_ADR_FRIEND_SHIP, size, in): the sector is not erased first.
WriteBackup ==
    \/ /\ op.step = "backupHead"
       /\ backup' = WithHead(backup, op.value)
       /\ Go("backupData")
       /\ UNCHANGED <<main, next>>
    \/ /\ op.step = "backupData"
       /\ backup' = WithData(backup, op.value)
       /\ Go("backupFlag")
       /\ UNCHANGED <<main, next>>
    \/ /\ op.step = "backupFlag"
       /\ backup' = WithFlag(backup)
       /\ Go("erase")
       /\ UNCHANGED <<main, next>>

EraseMain ==
    /\ op.step = "erase"
    /\ main' = [i \in Slots |-> Erased]
    /\ Go("head")
    /\ UNCHANGED <<backup, next>>

\* mesh_par_write_with_check(*p_adr, size, in), then *p_adr += size_save.
WriteMain ==
    \/ /\ op.step = "head"
       /\ main' = [main EXCEPT ![next] = WithHead(@, op.value)]
       /\ Go("data")
       /\ UNCHANGED <<backup, next>>
    \/ /\ op.step = "data"
       /\ main' = [main EXCEPT ![next] = WithData(@, op.value)]
       /\ Go("flag")
       /\ UNCHANGED <<backup, next>>
    \/ /\ op.step = "flag"
       /\ main' = [main EXCEPT ![next] = WithFlag(@)]
       /\ Go("clean")
       /\ UNCHANGED <<backup, next>>

\* "always erase misc backup sector", when its first word is not 0xffffffff.
Clean ==
    /\ op.step = "clean"
    /\ backup' = IF misc THEN Erased ELSE backup
    /\ next' = next + 1
    /\ op' = Idle
    /\ UNCHANGED main

StoreStep ==
    /\ \/ StartFull \/ StartSame \/ StartWrite
       \/ WriteBackup \/ EraseMain \/ WriteMain \/ Clean
    /\ overlaid' = (overlaid \/ (op.step = "backupHead" /\ backup # Erased))
    /\ UNCHANGED <<misc, stores, losses, stranded>>

-----------------------------------------------------------------------------
(* Power loss.  The write under way has cleared some of its bits.          *)

Torn(r, step) ==
    CASE step = "Head" -> {r} \union
            {[r EXCEPT !.flag = AndFlag(@, "AF"), !.crc = c] :
                c \in {r.crc, r.crc \cap Crc(op.value)}}
      [] step = "Data" -> {[r EXCEPT !.data = d] :
            d \in {s \in SUBSET r.data : r.data \cap op.value \subseteq s}}
      [] OTHER -> {r}

\* The cells left by a loss: the store was between two writes, or in one.
CellsAfterLoss ==
    CASE op.step = "backupHead" -> {main} \X Torn(backup, "Head")
      [] op.step = "backupData" -> {main} \X Torn(backup, "Data")
      [] op.step = "head" -> {[main EXCEPT ![next] = r] : r \in Torn(main[next], "Head")} \X {backup}
      [] op.step = "data" -> {[main EXCEPT ![next] = r] : r \in Torn(main[next], "Data")} \X {backup}
      [] OTHER -> {<<main, backup>>}

\* The loss, and mesh_par_retrieve at the start that follows it.
PowerLoss ==
    /\ losses < MaxLosses
    /\ losses' = losses + 1
    /\ \E cells \in CellsAfterLoss :
          /\ main' = cells[1]
          /\ backup' = cells[2]
          /\ next' = NextSlot(cells[1], misc)
          /\ stranded' = (stranded \/ (/\ op.step \in {"data", "flag"}
                                       /\ cells[1][next].data \in Values))
    /\ op' = Idle
    /\ stores' = 0
    /\ UNCHANGED <<misc, overlaid>>

LogNext == (\E v \in Values : Store(v)) \/ StoreStep \/ PowerLoss

LogSpec == LogInit /\ [][LogNext]_logVars

-----------------------------------------------------------------------------
\* Each variable has its type.
LogTypeOK ==
    /\ misc \in BOOLEAN
    /\ main \in [Slots -> Record]
    /\ backup \in Record
    /\ next \in 1 .. NSlots + 1
    /\ op \in [step : Steps, value : Values \union {None}]
    /\ op.step = "idle" <=> op.value = None
    /\ stores \in 0 .. MaxStores
    /\ losses \in 0 .. MaxLosses
    /\ overlaid \in BOOLEAN /\ stranded \in BOOLEAN

\* The slot a record goes to is erased, whatever the power losses before
\* (mesh_par_retrieve leaves *p_adr there): a record of the log is never
\* written over another.
NextIsErased == (next <= NSlots /\ op.step \in {"idle", "start", "head"}) => main[next] = Erased

\* Integrity of the parameters the node starts with: what mesh_par_retrieve finds
\* is a value some store was given, never a mixture of two, as long as no
\* backup was written over the remains of an interrupted one.
FoundWasStored == ~overlaid => Retrieved \in Values \union {None}

\* The log is in order whenever the power goes: what the next start finds was stored, and
\* the next record does not go over the remains of another.
LogIsSound == LogTypeOK /\ NextIsErased /\ FoundWasStored

\* FoundWasStored without the restriction, which is what the backup is for
\* ("backup to prevent unexpected power down").
FoundWasStoredAlways == Retrieved \in Values \union {None}

\* The log is a register that survives power losses: what a start finds changes
\* only at one step of a store, to the value of that store, and has changed when
\* the store returns.  The promise ends with an overlaid backup (MISC), or with a
\* record left without its flag (other sectors: mesh_flash_data_cmp then takes the
\* data for stored).  A sector without a backup finds nothing while it is erased.
Register == INSTANCE DurableRegister WITH
    value <- Retrieved,
    pending <- op.value,
    backed <- misc,
    losses <- losses,
    exact <- ~overlaid /\ (misc \/ ~stranded)

IsDurableRegister == Register!Spec
=============================================================================
