------------------------------- MODULE NodeIv -------------------------------
(***************************************************************************)
(* Sequence number and IV index of a node of the firmware                  *)
(* (security_network_beacon.c, mesh_node.c): the number is taken by every  *)
(* PDU sent, kept in flash every MESH_CMD_SNO_SAVE_DELTA numbers, and      *)
(* starts again at 1 under a higher IV index.  An IV update has two steps: *)
(* in the first the node accepts the new index and still sends with the    *)
(* old one, in the second it sends with the new one.                       *)
(* The main loop runs handlers one after the other; power may go between   *)
(* two of them.  The log of records in flash is FlashRecord, here one write.*)
(***************************************************************************)
EXTENDS Integers

CONSTANTS Delta,     \* MESH_CMD_SNO_SAVE_DELTA
          StartSno,  \* IV_UPDATE_START_SNO
          KeepTime,  \* IV_UPDATE_KEEP_TMIE_MIN_S and _RX_S, which are equal
          SearchMax, \* 42: how far ahead an index can be taken from a beacon
          MaxSno,    \* bound: sequence numbers
          MaxIv,     \* bound: IV indexes
          MaxLosses  \* bound: power losses

ASSUME NodeIvAssumption ==
    /\ Delta \in Nat \ {0} /\ StartSno \in Nat /\ StartSno > 1 /\ KeepTime \in Nat
    /\ SearchMax \in Nat /\ MaxSno \in Nat /\ MaxIv \in Nat \ {0, 1} /\ MaxLosses \in Nat

VARIABLES
    st,       \* iv_idx_st and the sequence number, in RAM
    flash,    \* misc_save_t, as stored
    busy,     \* is_busy_segment_or_reliable_flow()
    losses,   \* power losses, for the bound
    sent,     \* history: the highest nonce sent
    settled,  \* history: the highest nonce sent in a pass of the main loop that ended
    age       \* history: seconds since the index sent with last changed, to KeepTime

vars == <<st, flash, busy, losses, sent, settled, age>>

(* Fields of st: cur, tx: iv_cur, iv_tx; proc: update_proc_flag (0 normal, 1 and 2 the
   steps); rx: rx_update; keep: keep_time_s; trigger: update_trigger_by_save;
   searching: searching_flag; sno, last: mesh_adv_tx_cmd_sno, _last; due: misc_flag. *)
States == [cur : 0 .. MaxIv, tx : 0 .. MaxIv, proc : 0 .. 2, rx : BOOLEAN,
           keep : 0 .. KeepTime + 1, trigger : BOOLEAN, searching : BOOLEAN,
           sno : Nat, last : Nat, due : BOOLEAN]

Nonce(s) == <<s.tx, s.sno>>
Below(a, b) == a[1] < b[1] \/ (a[1] = b[1] /\ a[2] < b[2])

Exhausted(s) == s.sno >= StartSno
\* is_iv_update_keep_enough_time_ll and _rx
EnoughLl(s) == s.keep > KeepTime
EnoughRx(s) == s.keep >= KeepTime

-----------------------------------------------------------------------------
(* Handlers, as functions of the pair m = [st, flash].                     *)

\* variant: the index of step 1 is stored as it is
BugStored(s) == [sno |-> s.sno, iv |-> s.cur, trigger |-> s.trigger]

\* what mesh_misc_store writes: in step 1 the index before ("must decrease 1")
Stored(s) ==
    [sno |-> s.sno,
     iv |-> IF s.proc = 1 THEN s.cur - 1 ELSE s.cur,
     trigger |-> IF s.proc = 1 THEN ~Exhausted(s) ELSE s.trigger]

MiscStore(m) == [st |-> [m.st EXCEPT !.last = m.st.sno], flash |-> Stored(m.st)]

StoreIf(cond, m) == IF cond THEN MiscStore(m) ELSE m

\* mesh_iv_idx_init(iv_index, rst_sno, save_flag)
IvIdxInit(m, iv, rst, save) ==
    LET s == [m.st EXCEPT !.cur = iv, !.tx = iv, !.proc = 0, !.rx = FALSE, !.keep = 0,
                          !.searching = FALSE,
                          !.trigger = ~rst /\ @,
                          !.sno = IF rst THEN 1 ELSE @]
    IN  StoreIf(rst \/ save, [m EXCEPT !.st = s])

EnterSearchMode(m) == [IvIdxInit(m, m.st.cur, FALSE, FALSE) EXCEPT !.st.searching = TRUE]

\* mesh_iv_update_enter_update2normal
EnterUpdate2Normal(m) == [IvIdxInit(m, m.st.cur, TRUE, FALSE) EXCEPT !.st.proc = 2]

\* mesh_iv_update_set_start_flag
SetStartFlag(m, keepSearch) ==
    LET begun == [m EXCEPT !.st.proc = 1, !.st.keep = 0, !.st.searching = keepSearch /\ @]
    IN  [StoreIf(~Exhausted(m.st), begun) EXCEPT !.st.trigger = FALSE]

\* iv_update_set_with_update_flag_true
SetWithUpdateFlag(m, iv) ==
    LET old == IvIdxInit(m, iv - 1, iv - 1 # m.st.cur, TRUE)
    IN  SetStartFlag([old EXCEPT !.st.cur = iv], FALSE)

\* mesh_iv_update_step_change
StepChange(m) ==
    IF busy \/ m.st.proc = 0 THEN m
    ELSE IF m.st.proc = 1 THEN EnterUpdate2Normal(m)
    ELSE [m EXCEPT !.st.proc = 0]

\* mesh_iv_update_start_check
StartCheck(m) ==
    IF m.st.proc = 1 \/ (m.st.proc = 2 /\ ~EnoughLl(m.st)) THEN [m EXCEPT !.st.rx = FALSE]
    ELSE IF busy \/ m.st.cur = MaxIv THEN m
    ELSE SetStartFlag([m EXCEPT !.st.cur = @ + 1], TRUE)

\* mesh_iv_update_start_poll
StartPoll(m) ==
    IF Exhausted(m.st) \/ m.st.trigger \/ m.st.rx THEN StartCheck(m) ELSE m

\* variant: the margin of a restart is not kept
BugSnoSaveCheck(m) == StoreIf(m.st.sno > m.st.last + 2 * Delta, m)

\* mesh_sno_save_check
SnoSaveCheck(m) == StoreIf(m.st.sno > m.st.last + Delta, m)

\* variant: the second step begins at once
BugStPollS(m) ==
    LET on == [m EXCEPT !.st.keep = IF @ > KeepTime THEN @ ELSE @ + 1]
    IN  IF on.st.proc # 0 THEN StepChange(on) ELSE on

\* variant: the first step is ended by a beacon only
BugStPollSWaits(m) ==
    LET on == [m EXCEPT !.st.keep = IF @ > KeepTime THEN @ ELSE @ + 1]
    IN  IF on.st.proc = 2 /\ EnoughLl(on.st) THEN StepChange(on) ELSE on

\* mesh_iv_update_st_poll_s, one second
StPollS(m) ==
    LET on == [m EXCEPT !.st.keep = IF @ > KeepTime THEN @ ELSE @ + 1]
    IN  IF on.st.proc # 0 /\ EnoughLl(on.st) THEN StepChange(on) ELSE on

\* iv_update_key_refresh_rx_handle, the part under if(iv_idx_st.searching_flag)
BeaconSearching(m, iv, update) ==
    LET s == m.st
        ahead == iv - s.cur
    IN  IF ~s.searching THEN m
        ELSE IF ahead >= 1 /\ update /\ ahead = 1 /\ s.proc = 0
             THEN [m EXCEPT !.st.rx = TRUE, !.st.searching = FALSE]
        ELSE IF ahead >= 1 /\ update THEN SetWithUpdateFlag(m, iv)
        ELSE IF ahead >= 1 THEN IvIdxInit(m, iv, TRUE, TRUE)
        ELSE IF s.proc = 1 /\ ~update THEN EnterUpdate2Normal(m)
        ELSE m

\* ... and the rest of it; subnet: the beacon is of a subnet other than the primary
\* one, whose key the node has
BeaconUpdate(m, iv, update, subnet) ==
    LET s == m.st
        ahead == iv - s.cur
    IN  IF s.proc = 0 /\ ahead >= 2 THEN EnterSearchMode(m)
        ELSE IF update
             THEN IF s.proc = 0 /\ ahead = 1 /\ ~subnet THEN [m EXCEPT !.st.rx = TRUE] ELSE m
        ELSE IF s.proc = 1 /\ ahead = 0 /\ EnoughRx(s) THEN StepChange(m)
        ELSE m

RxBeacon(m, iv, update, subnet) ==
    IF iv < m.st.cur \/ iv - m.st.cur >= SearchMax + 1 THEN m
    ELSE BeaconUpdate(BeaconSearching(m, iv, update), iv, update, subnet)

\* mesh_misc_retrieve, then mesh_node_init (search mode)
Restart(f) ==
    [cur |-> f.iv, tx |-> f.iv, proc |-> 0, rx |-> FALSE, keep |-> 0, trigger |-> f.trigger,
     searching |-> TRUE, sno |-> f.sno + Delta, last |-> f.sno + Delta, due |-> TRUE]

-----------------------------------------------------------------------------
Put(m) == st' = m.st /\ flash' = m.flash

Now == [st |-> st, flash |-> flash]

Blank == [Restart([iv |-> 0, sno |-> 0, trigger |-> FALSE]) EXCEPT !.due = FALSE, !.sno = 1]

\* provision_set_ivi_para: the first index comes from the provisioner
Init ==
    /\ \E m \in {[IvIdxInit([st |-> Blank, flash |-> Stored(Blank)], 1, TRUE, TRUE)
                     EXCEPT !.st.searching = TRUE],
                 SetWithUpdateFlag([st |-> Blank, flash |-> Stored(Blank)], 2)} :
          st = m.st /\ flash = m.flash
    /\ busy = FALSE
    /\ losses = 0
    /\ sent = <<0, 0>> /\ settled = <<0, 0>>
    /\ age = 0

\* A PDU is sent: the number is taken in the binary library, which stores it
\* first when misc_flag is set ("need to store the sno later").
Transmit ==
    LET m == IF st.due THEN [MiscStore(Now) EXCEPT !.st.due = FALSE] ELSE Now
    IN  /\ st.sno < MaxSno
        /\ Put([m EXCEPT !.st.sno = @ + 1])
        /\ sent' = IF Below(sent, Nonce(st)) THEN Nonce(st) ELSE sent
        /\ UNCHANGED <<busy, losses, settled, age>>

Aged(a) == IF st'.tx # st.tx THEN 0 ELSE a

Beacon(iv, update, subnet) ==
    /\ Put(RxBeacon(Now, iv, update, subnet))
    /\ age' = Aged(age)
    /\ UNCHANGED <<busy, losses, sent, settled>>

\* The end of mesh_loop_process: mesh_flash_save_check, system_time_run.
EndOfPass(second) ==
    LET polled == StartPoll(SnoSaveCheck(Now))
    IN  /\ Put(IF second THEN StPollS(polled) ELSE polled)
        /\ settled' = sent
        /\ age' = Aged(IF second /\ age < KeepTime THEN age + 1 ELSE age)
        /\ UNCHANGED <<busy, losses, sent>>

FlowBegins == ~busy /\ busy' = TRUE /\ UNCHANGED <<st, flash, losses, sent, settled, age>>
FlowEnds == busy /\ busy' = FALSE /\ UNCHANGED <<st, flash, losses, sent, settled, age>>

PowerLoss ==
    /\ losses < MaxLosses
    /\ losses' = losses + 1
    /\ st' = Restart(flash)
    /\ busy' = FALSE
    /\ sent' = settled
    /\ age' = 0
    /\ UNCHANGED <<flash, settled>>

Next ==
    \/ Transmit
    \/ \E iv \in 0 .. MaxIv, update, subnet \in BOOLEAN : Beacon(iv, update, subnet)
    \/ \E second \in BOOLEAN : EndOfPass(second)
    \/ FlowBegins \/ FlowEnds
    \/ PowerLoss

\* The main loop runs and seconds pass; a segmented or reliable flow ends by its
\* timers, and the loop passes while none is under way.
QuietPass == ~busy /\ EndOfPass(TRUE)
Fairness == WF_vars(FlowEnds) /\ SF_vars(QuietPass)

\* What fairness is about: a flow can end, and a pass does something for a node that is in
\* a step of an update or has to begin one.
GuardsSuffice ==
    /\ busy => ENABLED <<FlowEnds>>_vars
    /\ ~busy /\ (st.proc # 0 \/ (Exhausted(st) /\ st.cur < MaxIv)) => ENABLED <<QuietPass>>_vars

Spec == Init /\ [][Next]_vars
FairSpec == Spec /\ Fairness

-----------------------------------------------------------------------------
\* Each variable has its type.
TypeOK ==
    /\ st \in States
    /\ flash \in [sno : Nat, iv : 0 .. MaxIv, trigger : BOOLEAN]
    /\ busy \in BOOLEAN
    /\ losses \in 0 .. MaxLosses
    /\ sent \in (0 .. MaxIv) \X Nat /\ settled \in (0 .. MaxIv) \X Nat
    /\ age \in 0 .. KeepTime

\* The next nonce was not used before: not in this session, nor in an earlier one by
\* a PDU of a pass of the main loop that ended before the power loss.  A restart
\* trusts the last store and the Delta that SnoSaveCheck enforces, through every
\* change of the index.
NonceFresh == Below(sent, Nonce(st))

\* The index the node sends with never goes back, and a restart resumes with the very
\* index it sent with, in whatever step of an update the power was lost: lower would
\* use nonces again, higher would run ahead of the network.
IvKept == [][st'.tx >= st.tx /\ (losses' # losses => st'.tx = st.tx)]_vars

\* Out of search mode, the node changes the index it sends with only when it has kept
\* the previous one for KeepTime (a beacon that ends the update comes earlier by one second).
HeldLongEnough == [][(st'.tx # st.tx /\ ~st.searching) => age >= KeepTime]_vars

\* A node that has used up its numbers gets new ones.
GetsFreshNumbers == (Exhausted(st) /\ st.cur < MaxIv) ~> ~Exhausted(st)

\* An update, begun by the node or by another, does not stay half done.
UpdateEnds == (st.proc = 1) ~> (st.proc # 1)

\* Updates go on through losses, beacons and messages under way: none stops half-way,
\* and numbers that are used up are replaced.
UpdatesGoOn == GetsFreshNumbers /\ UpdateEnds
=============================================================================
