--------------------------- MODULE SequenceNumber ---------------------------
(***************************************************************************)
(* Allocation of network nonces by the Android provisioner library         *)
(* (core/networking/NetworkingController.java).  Every network PDU the     *)
(* phone sends carries a pair (IV index, sequence number) that must never  *)
(* be used twice and must grow, or the nodes' replay protection drops the  *)
(* PDU.  The pair comes from four fields: mSequenceNumber, ivIndex,        *)
(* initIvIndex and isIvUpdating; the application stores (sequence number,  *)
(* IV index) every Step numbers and hands them back when it starts again.  *)
(*                                                                         *)
(* The fields are read and written without a common lock by the GATT       *)
(* callback thread, the "Mesh-Controller" handler thread and the threads   *)
(* of the application.  A thread's operation is cut where it reads or      *)
(* writes a field the others use; only the increment of the (atomic)       *)
(* number and the storing that may follow it are one step.                 *)
(***************************************************************************)
EXTENDS Integers

CONSTANTS
  Threads,     \* threads that call into the controller
  Step,        \* mSnoUpdateStep, 0x100 in the code
  Threshold,   \* THRESHOLD_SEQUENCE_NUMBER, 0xC00000 in the code
  IvJump,      \* largest accepted distance to a received IV index, 42
  Missing,     \* MeshUtils.IV_MISSING, 0xFFFFFFFF in the code
  StartIvs,    \* IV indexes the application may first configure
  MaxPdus,     \* bound: network PDUs of one message
  MaxSeq,      \* bound: sequence number up to which a message is begun
  MaxIv        \* bound: IV indexes of the network

ASSUME SequenceNumberAssumption ==
  /\ Threads # {}
  /\ Step \in Nat /\ Step > 1
  /\ Threshold \in Nat /\ IvJump \in Nat
  /\ MaxPdus \in Nat /\ MaxSeq \in Nat /\ MaxIv \in Nat
  /\ Missing \in Nat /\ Missing > MaxIv
  /\ StartIvs \subseteq (0 .. MaxIv) \cup {Missing}

VARIABLES
  seqNo,      \* mSequenceNumber
  ivIndex,    \* ivIndex
  initIv,     \* initIvIndex
  updating,   \* isIvUpdating
  saved,      \* what the application has stored: [seq, iv]
  link,       \* "down", "gatt" (connected, beacon not yet sent), "up"
  pc, job,    \* where each thread is in its operation, and its locals
  last,       \* history: nonce of the latest PDU on the air; odd: its parity
  cleared,    \* history: clear() has run while isIvUpdating was set
  raced       \* history: a thread has changed what another was working with

fields == <<seqNo, ivIndex, initIv, updating>>
vars == <<seqNo, ivIndex, initIv, updating, saved, link, pc, job, last, cleared, raced>>

Unread == -1                       \* a local the operation has not read yet
NoJob == [seq |-> Unread, iv |-> Unread, size |-> 0, made |-> 0, out |-> 0]

\* (int) ivIndex, as the application stores it: 32 bits
ToInt(iv) == iv % (Missing + 1)

BugTransmitIv == ivIndex              \* variant: ignores isIvUpdating

\* getTransmitIvIndex
TransmitIv == IF updating THEN ivIndex - 1 ELSE ivIndex

\* variant: rounds down
BugInitSequenceNumber(s) == (s \div Step) * Step

\* initSequenceNumber: skip to the next multiple of Step
InitSequenceNumber(s) == (s \div Step + 1) * Step

\* onSequenceNumberUpdate: the values stored after the number became s
OnSequenceNumberUpdate(s) ==
  IF s % Step = 0 THEN [seq |-> s, iv |-> ToInt(ivIndex)] ELSE saved

-----------------------------------------------------------------------------
(* setup(configuration) with the stored values. *)
Setup ==
  /\ seqNo' = InitSequenceNumber(saved.seq)
  /\ ivIndex' = saved.iv
  /\ initIv' = saved.iv
  /\ updating' = FALSE
  /\ saved' = [seq |-> InitSequenceNumber(saved.seq), iv |-> saved.iv]

Init ==
  \E iv \in StartIvs :
    /\ seqNo = Step /\ ivIndex = iv /\ initIv = iv /\ updating = FALSE
    /\ saved = [seq |-> Step, iv |-> iv]
    /\ link = "down"
    /\ pc = [t \in Threads |-> "idle"]
    /\ job = [t \in Threads |-> NoJob]
    /\ last = [iv |-> Missing, seq |-> Unread, odd |-> FALSE]
    /\ cleared = FALSE /\ raced = FALSE

Become(t, label) == pc' = [pc EXCEPT ![t] = label]

Updating == {"setIvIndex", "onIvUpdated", "check"}    \* within an operation on the IV index

\* u works with what it has read or written of the fields
Exposed(u) ==
  \/ pc[u] \in Updating
  \/ pc[u] = "send" /\ (job[u].seq # Unread \/ job[u].iv # Unread)

\* the step of t changes the fields or begins an operation on the IV index
Writes(t) == fields' # fields \/ pc'[t] \in Updating

\* part of every step of t
Watch(t) == raced' = (raced \/ (Writes(t) /\ \E u \in Threads \ {t} : Exposed(u)))

-----------------------------------------------------------------------------
(* Sending: postMeshMessage, sendUnsegmentedControlMessage,               *)
(* resendSegmentedMessages and sendProxyConfigurationMessage all read     *)
(* mSequenceNumber and the transmit IV index (in either order), create    *)
(* their PDUs with consecutive numbers from the one they read, and then   *)
(* hand the PDUs on.                                                       *)

BeginSend(t) ==
  /\ pc[t] = "idle" /\ link = "up"
  /\ \E k \in 1 .. MaxPdus :
       /\ seqNo + k <= MaxSeq
       /\ job' = [job EXCEPT ![t] = [NoJob EXCEPT !.size = k]]
  /\ Become(t, "send")
  /\ UNCHANGED <<fields, saved, link, last, cleared>>
  /\ Watch(t)

ReadSequenceNumber(t) ==
  /\ pc[t] = "send" /\ job[t].seq = Unread
  /\ job' = [job EXCEPT ![t].seq = seqNo]
  /\ UNCHANGED <<fields, saved, link, pc, last, cleared>>
  /\ Watch(t)

ReadTransmitIv(t) ==
  /\ pc[t] = "send" /\ job[t].iv = Unread
  /\ job' = [job EXCEPT ![t].iv = TransmitIv]
  /\ UNCHANGED <<fields, saved, link, pc, last, cleared>>
  /\ Watch(t)

\* createNetworkPDU: the PDU takes the number it is given, the counter grows
CreateNetworkPdu(t) ==
  /\ pc[t] = "send" /\ job[t].seq # Unread /\ job[t].iv # Unread
  /\ job[t].made < job[t].size
  /\ seqNo' = seqNo + 1
  /\ saved' = OnSequenceNumberUpdate(seqNo + 1)
  /\ job' = [job EXCEPT ![t].made = @ + 1]
  /\ UNCHANGED <<ivIndex, initIv, updating, link, pc, last, cleared>>
  /\ Watch(t)

\* sendNetworkPdu, sendNetworkPduList, sendProxyNetworkPdu: a PDU written
\* while there is no connection is lost
SendNetworkPdu(t) ==
  /\ pc[t] = "send" /\ job[t].made = job[t].size
  /\ IF link = "down"
     THEN UNCHANGED last
     ELSE last' = [iv |-> job[t].iv, seq |-> job[t].seq + job[t].out,
                   odd |-> ~last.odd]
  /\ IF job[t].out + 1 = job[t].size
     THEN job' = [job EXCEPT ![t] = NoJob] /\ Become(t, "idle")
     ELSE job' = [job EXCEPT ![t].out = @ + 1] /\ UNCHANGED pc
  /\ UNCHANGED <<fields, saved, link, cleared>>
  /\ Watch(t)

-----------------------------------------------------------------------------
(* Beacons: parseSecureBeacon and parsePrivateBeacon call onIvIndexReceived,*)
(* whose assignments are cut one by one because a sender may read between   *)
(* them.  A node sends (iv, upd) for a network at IV index iv; no network   *)
(* updates towards IV index 0.                                              *)

\* the local IV index is missing
LearnIv(iv, upd) == ivIndex = Missing

\* "remote node iv update complete"
CompleteUpdate(iv, upd) == ivIndex # Missing /\ iv = ivIndex /\ ~upd /\ updating

\* "larger iv index received"
LargerIv(iv, upd) == ivIndex # Missing /\ iv > ivIndex /\ iv - ivIndex <= IvJump

\* the argument onIvIndexReceived calls onIvUpdated with
UpdatedIv(iv, upd) == IF LargerIv(iv, upd) /\ upd THEN iv - 1 ELSE iv

\* the locals of a beacon's handler: the new ivIndex and that argument
IvJob(iv, newIv) == [seq |-> newIv, iv |-> iv, size |-> 0, made |-> 0, out |-> 0]

\* isIvUpdating is written first; any other beacon changes nothing
ReceiveBeacon(t) ==
  /\ pc[t] = "idle" /\ link # "down"
  /\ \E iv \in 0 .. MaxIv, upd \in BOOLEAN :
       /\ upd => iv > 0
       /\ LearnIv(iv, upd) \/ CompleteUpdate(iv, upd) \/ LargerIv(iv, upd)
       /\ updating' = upd
       /\ job' = [job EXCEPT ![t] = IvJob(iv, UpdatedIv(iv, upd))]
  /\ Become(t, "setIvIndex")
  /\ UNCHANGED <<seqNo, ivIndex, initIv, saved, link, last, cleared>>
  /\ Watch(t)

SetIvIndex(t) ==
  /\ pc[t] = "setIvIndex"
  /\ ivIndex' = job[t].iv
  /\ Become(t, "onIvUpdated")
  /\ UNCHANGED <<seqNo, initIv, updating, saved, link, job, last, cleared>>
  /\ Watch(t)

OnIvUpdated(t) ==
  /\ pc[t] = "onIvUpdated"
  /\ LET newIv == job[t].seq IN
     IF newIv > initIv \/ initIv = Missing
     THEN /\ initIv' = newIv
          /\ seqNo' = 0
          /\ saved' = [seq |-> 0, iv |-> newIv]
     ELSE UNCHANGED <<initIv, seqNo, saved>>
  /\ job' = [job EXCEPT ![t] = NoJob]
  /\ Become(t, "idle")
  /\ UNCHANGED <<ivIndex, updating, link, last, cleared>>
  /\ Watch(t)

-----------------------------------------------------------------------------
(* The connection to the proxy node. *)

\* onServicesDiscovered: notifications are enabled
Connect(t) ==
  /\ pc[t] = "idle" /\ link = "down"
  /\ link' = "gatt"
  /\ UNCHANGED <<fields, saved, pc, job, last, cleared>>
  /\ Watch(t)

\* checkSequenceNumber, first half: decide whether to start an IV update
CheckSequenceNumber(t) ==
  /\ pc[t] = "idle" /\ link = "gatt"
  /\ IF ~updating /\ seqNo >= Threshold
     THEN /\ initIv < MaxIv \/ initIv = Missing
          /\ updating' = TRUE
          /\ Become(t, "check")
          /\ UNCHANGED link
     ELSE /\ link' = "up"
          /\ UNCHANGED <<updating, pc>>
  /\ UNCHANGED <<seqNo, ivIndex, initIv, saved, job, last, cleared>>
  /\ Watch(t)

\* checkSequenceNumber, second half: the update starts here
StartIvUpdate(t) ==
  /\ pc[t] = "check"
  /\ ivIndex' = initIv + 1
  /\ link' = IF link = "gatt" THEN "up" ELSE link
  /\ Become(t, "idle")
  /\ UNCHANGED <<seqNo, initIv, updating, saved, job, last, cleared>>
  /\ Watch(t)

\* clear(): isIvUpdating is reset, ivIndex is not
ClearFields ==
  /\ updating' = FALSE
  /\ cleared' = (cleared \/ updating)
  /\ UNCHANGED <<seqNo, ivIndex, initIv>>

\* idle(false), onBindingComplete, stopMeshOta, clearNetworkCache
Clear(t) ==
  /\ pc[t] = "idle" /\ link = "up"
  /\ ClearFields
  /\ UNCHANGED <<saved, link, pc, job, last>>
  /\ Watch(t)

\* onGattDisconnected
Disconnect(t) ==
  /\ pc[t] = "idle" /\ link # "down"
  /\ ClearFields
  /\ link' = "down"
  /\ UNCHANGED <<saved, pc, job, last>>
  /\ Watch(t)

\* the process ends at any point and the application starts again
Restart ==
  /\ InitSequenceNumber(saved.seq) <= MaxSeq
  /\ Setup
  /\ link' = "down"
  /\ pc' = [t \in Threads |-> "idle"]
  /\ job' = [t \in Threads |-> NoJob]
  /\ UNCHANGED <<last, cleared, raced>>

Next ==
  \/ \E t \in Threads :
       \/ BeginSend(t) \/ ReadSequenceNumber(t) \/ ReadTransmitIv(t)
       \/ CreateNetworkPdu(t) \/ SendNetworkPdu(t)
       \/ ReceiveBeacon(t) \/ SetIvIndex(t) \/ OnIvUpdated(t)
       \/ Connect(t) \/ CheckSequenceNumber(t) \/ StartIvUpdate(t)
       \/ Clear(t) \/ Disconnect(t)
  \/ Restart

Spec == Init /\ [][Next]_vars

-----------------------------------------------------------------------------
(* Properties *)

Nonce == [iv : Int, seq : Int, odd : BOOLEAN]
Job == [seq : Int, iv : Int, size : Nat, made : Nat, out : Nat]
Labels == {"idle", "send", "setIvIndex", "onIvUpdated", "check"}

\* The shape of the state.
TypeOK ==
  /\ seqNo \in Nat /\ ivIndex \in Nat /\ initIv \in Nat
  /\ updating \in BOOLEAN /\ cleared \in BOOLEAN /\ raced \in BOOLEAN
  /\ saved \in [seq : Nat, iv : 0 .. Missing]
  /\ link \in {"down", "gatt", "up"}
  /\ pc \in [Threads -> Labels]
  /\ job \in [Threads -> Job]
  /\ last \in Nonce

\* the order of IV indexes; an unknown one comes before all others
IvBefore(a, b) == a # b /\ (a = Missing \/ (b # Missing /\ a < b))

\* a nonce that is later than every nonce below (iv, seq)
NonceBefore(a, iv, seq) == IvBefore(a.iv, iv) \/ (a.iv = iv /\ a.seq < seq)

\* "for every network pdu , sequence number should increase" (createNetworkPDU):
\* each PDU put on the air has a larger sequence number than the one before it,
\* or a later IV index, over reconnections, IV updates and restarts.
NoncesIncrease == [][last' # last => NonceBefore(last, last'.iv, last'.seq)]_vars

\* What the unlocked fields leave of it, for any number of threads: the same as
\* long as no thread has changed the fields while another worked with them (two
\* threads that read one number give it to two PDUs), and no clear() has come in the
\* middle of an IV update (it leaves ivIndex ahead of initIvIndex with isIvUpdating
\* reset).
NoncesIncreaseUnlessDisturbed ==
  [][~cleared /\ ~raced /\ last' # last => NonceBefore(last, last'.iv, last'.seq)]_vars

\* Whatever the moment the process ends and whatever its threads are doing then, the
\* values the application has stored make the next session start above every nonce
\* already used; with the same two exceptions.
RestartIsFresh ==
  ~cleared /\ ~raced => NonceBefore(last, saved.iv, InitSequenceNumber(saved.seq))
=============================================================================
