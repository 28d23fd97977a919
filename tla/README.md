# Verification of the Telink Bluetooth mesh SDK

The repository is Telink's Bluetooth mesh SDK: an Android library and demo
application that provision and control a mesh network over a GATT proxy
connection, an iOS counterpart, and the firmware of the nodes in C.  This project
models the parts that are available in source and carry protocol state:

- the **phone**: `core/networking/NetworkingController.java` (2342 lines) of the
  Android library, through which everything sent to the mesh or received from it
  goes;
- the **firmware**: what a node keeps over a power loss (sequence number, IV
  index, parameters in flash, factory reset), its replay list, the friendship
  between a low power node and its friend, and the firmware update over the mesh.

`NC` below is `core/networking/NetworkingController.java` and `MC`
`foundation/MeshController.java`, both under
`src/app/android/TelinkBleMesh/TelinkBleMesh/TelinkBleMeshLib/src/main/java/com/telink/ble/mesh/`;
C files are under `src/firmware/vendor/common/`.

Contents: [inventory](#inventory), [plan](#plan), [modules](#modules),
[runs](#runs), [proofs](#proofs), [assumptions](#assumptions-of-the-models),
[disagreements found](#where-the-code-and-its-comments-disagree),
[what is not modelled](#not-modelled).

## Inventory

### NetworkingController

Threads.  `NC` has no thread of its own and few locks.  It is entered by

- the *handler* thread ("Mesh-Controller", created by `MC`): all posted tasks,
  i.e. timers of segments, retries, the sending queue, the proxy filter;
- the *GATT* callback thread: notifications, i.e. network PDUs and beacons;
- *application* threads: `MeshService.sendMeshMessage` calls straight through.

Locks: `mNetworkBusyLock` (the flag `networkingBusy`), the monitor of
`mNetworkingQueue`, `RELIABLE_SEGMENTED_LOCK` (the flags `reliableBusy` and
`segmentedBusy`, in some of the places that use them).  `mSequenceNumber` is
atomic, everything else is a plain field.

| part | state | operations | hard behaviour | what makes it correct |
|---|---|---|---|---|
| network nonces | `mSequenceNumber`, `ivIndex`, `initIvIndex`, `isIvUpdating`; the application's copy of number and index | `setup`, `createNetworkPDU`, `checkSequenceNumber`, `onIvIndexReceived`, `onIvUpdated`, `clear`, `onSequenceNumberUpdate` | number and index read and written by three threads; storage every 256 numbers and death of the process in between; IV update interrupted by a disconnection | no (IV index, number) pair is used twice, the pairs grow over reconnections, updates and restarts |
| queue of outgoing PDUs | `mNetworkingQueue`, `networkingBusy`, `networkingSendingTask` | `onNetworkingPduPrepared`, `pollNetworkingQueue`, the purge in `onReliableMessageComplete` | two locks taken one after the other, a fast path round the queue, a purge that does not take the first lock | PDUs leave once, in order, paced; nothing stays behind in an idle queue |
| outgoing messages | `reliableBusy`, `mSendingReliableMessage`, `mResponseMessageBuffer`, `segmentedBusy`, `sentSegmentedMessageBuffer`, three tasks | `sendMeshMessage`, `postMeshMessage`, `onSegmentAckMessageReceived`, `resendSegmentedMessages`, `updateReliableMessage`, `onReliableMessageComplete`, `reliableMessageTimeoutTask`, `clear` | two slots for one or two messages, answers that overtake block acks, a timeout that races a late answer, retries through the same entry point as new messages | an accepted message is tracked by a timer until it is reported, exactly once and truthfully |
| naming of segments | `SeqZero` of the segments, `transportSeqNo`, `SeqAuth` | `createSegmentedAccessMessage`, `resendSegmentedMessages`, head of `parseSegmentedAccessMessage` | a number rebuilt from its 13 low bits; segments sent again after other PDUs or an IV update | the receiver finds the message of every segment |
| incoming segmented messages | `lastSeqAuth`, `lastSegSrc`, `lastSegComplete`, `completedSeqAuthBuffer`, `busySeqAuthBuffer`, `receivedSegmentedMessageBuffer`, two tasks | `parseSegmentedAccessMessage`, `checkSegmentBlock`, `sendSegmentBlockAck`, `segmentTimeoutTask`, `clear` | one buffer for all sources, repeated and interleaved segments, timers that run on the other thread, `clear` in the middle | messages are not mixed; an ack shows what arrived; a message acknowledged as a whole has been delivered; the buffer becomes free |
| replay cache, accepted IV index | `deviceSequenceNumberMap` | `validateSequenceNumber`, `getAcceptedIvIndex` | emptied by an IV update and by `clear` while PDUs of the former index are accepted | no PDU is accepted twice |
| proxy filter | `proxyFilterInitStep`, a timeout | `proxyFilterInit`, `onProxyConfigurationNotify` | timeout against a late status | success or failure is reported once |

The parts interact inside the class: an outgoing message takes numbers from the
nonces and hands its PDUs to the queue; its retry is put off while
`lastSegComplete` is false, since the answer may be in the segments being
received; the completion of a message purges the queue; `clear()` resets all of
them but `lastSeqAuth`, `lastSegSrc` and `ivIndex`.

### Firmware of a node

One main loop runs all handlers, one after the other; the radio interrupt only
filters received PDUs and queues them.  What is hard here is not threads but
power: a lamp is switched off at the wall at any moment, and everything a node
must remember is in NOR flash, where a write clears bits and only erasing a
sector sets them.

| part | state | operations | hard behaviour | what makes it correct |
|---|---|---|---|---|
| sequence number and IV index (`mesh_node.c`, `security_network_beacon.c`) | `mesh_adv_tx_cmd_sno`, `iv_idx_st`, the record `misc_save_t` in flash | numbering of PDUs (binary library), `mesh_sno_save_check`, `iv_idx_st` handlers: beacons with and without the update flag, search mode, the polls every second, `mesh_misc_store`, `mesh_misc_retrieve` | the number is stored every 0x80; in the first step of an update index minus one is stored; the steps wait for messages under way | no pair (IV index, number) is used twice over restarts and updates; a step is neither left too early nor for ever half done |
| parameters in flash (`mesh_node.c`) | a log of records per sector, the next free address in RAM, a backup of the sector MISC | `mesh_par_store`, `mesh_par_retrieve`, `mesh_par_write_with_check`, erase | power lost in the middle of any write or erasure | a start finds what a store wrote, whole: the one of before or the new one |
| replay list (`mesh_network_layer.c`, `mesh_node.c`) | `cache_buf`: per source the last number and 8 bits of its IV index; the receive queue | `is_exist_in_cache` in the interrupt and in the main loop, `mesh_update_rpl`, reset | a PDU has one bit of the index; index and entry change while a PDU is in the queue | no PDU twice or after a newer one; a fresh one is not refused |
| factory reset (`factory_reset.c`) | a byte per count in a sector, `clear_st`, a time limit | `factory_reset_handle`, `factory_reset_cnt_check`, `increase_reset_cnt`, `reset_cnt_clean`, `factory_reset`, `kick_out` | the input of the procedure is power cycles, and so are its faults | only the sequence resets the node, the sequence does, a half-erased node goes on erasing |
| mailbox of a friend (`mesh_fn.c`, `mesh_lpn.c`) | a ring per low power node, `rsp` pointer, `cache_overwrite`, FSN on both sides | caching of messages, acks and updates, poll, answer, the two rounds of retries | a poll or an answer is lost, the ring overflows between poll and answer | only what was accepted is dropped, in order; no item stays for ever |
| friendship (`mesh_fn.c`, `mesh_lpn.c`) | `mesh_lpn_par`, `fri_ship_proc_lpn`; per friend node slots `fn_other_par`, `fn_req`, `fri_ship_proc_fn`; counters | request, offer, poll, update, clear, confirm, poll timeout, clear timeout | every message is lost or late; two friends, two sessions | one friend per session; each side notices that the other has left |
| firmware update over mesh (`mesh_ota.c`, `mesh_node.c`) | distributor: `st_distr`, the node list with its flags, `st_wait_flag`, block and missing chunks, `mesh_tx_reliable`; node: phase, block, chunks, flash, reboot flag | one round per state, commands with retries, chunks to the group, answers, report; start, block, chunk, verify, apply, cancel, reboot | lost chunks and commands, late answers that do not say what they answer, nodes that restart or stop, a new distribution over an old one | a node starts only a whole image; the others are updated when one fails; the report is true; a distribution ends |
| on-chip provisioner, fast provisioning, model servers, TLV storage | tables, timers | | | see [not modelled](#not-modelled) |

### The rest

| component | state, interaction | status |
|---|---|---|
| `MC` | mode of the library (idle, proxying, provisioning, binding, OTA, ...), connection and scan; calls `setup`, `clear`, `checkSequenceNumber` and `proxyFilterInit` of `NC` and gets its callbacks | partly: the calls it makes |
| application (`TelinkMeshApplication.java`) | stores number and IV index from the event `onNetworkInfoUpdate`, hands them back at the start | partly: that storage |
| `ProvisioningController` | provisioning protocol, its timeout, the transport of its PDUs | planned |
| `BindingController`, `FastProvisioningController`, `RemoteProvisioningController` | step machines driven by completions and answers of the reliable message service | planned |
| firmware update of the phone (`core/access/fu`) | nodes, blocks and chunks; posts its next chunk inside `onSegmentMessageComplete` | planned |
| `GattConnection` | queue of GATT requests with a timeout | planned |
| `GattOtaController`, `BleScanner`, `EventBus`, `MeshService` | a sequential transfer, a wrapper of the scanner, dispatch | low or none |
| message classes, `Encipher` | layouts and cryptography | not modelled |
| iOS library | a second provisioner with another networking design | not modelled |

The hazards of the modelled parts, each at its line and with the properties that
watch it, are listed under `hazards` in `PROJECT.json`.

## Plan

Written, in this order (the order of importance: a nonce used twice breaks the
encryption, a lost completion stops the application, a bad image a lamp):

1. phone: `SequenceNumber`, `PduChannel` (abstract) and `NetworkingQueue` which
   implements it, `ReliableMessage`, `SegmentNumbers`, `SegmentedRx`
2. firmware, what survives a power loss: `DurableRegister` (abstract) and
   `FlashRecord` which implements it, `NodeIv` over such a register,
   `FactoryReset`
3. firmware, protocols: `ReplayList`, `FriendQueue`, `Friendship`,
   `FirmwareUpdater` and `FirmwareDistribution`, which composes it with the gateway
4. proofs about all of them: eight modules `...Proofs`, some about two components.
   Where the definitions of one component would clash with those of the other they
   have names of their own (`NumbersSpec`, `LogSpec`, `ListSpec`, `MailSpec`)

Modules to come, all but the first of the phone:

5. `SubscriptionList`: the list a low power node keeps at its friend, with its
   transaction number, retries and pending entries (`mesh_lpn.c`, `mesh_fn.c`), over
   `Friendship`
6. `ReplayCache`: `validateSequenceNumber`, the accepted IV index and the operations
   that empty the cache, in the manner of `ReplayList`; composed with `SegmentedRx`,
   which today assumes that a delayed PDU of an earlier message is dropped
7. `MeshController`: modes, connection attempts, scan, proxy filter; composed with
   `SequenceNumber`.  Property: a mode that has ended reports nothing
8. `MessageService`: what `ReliableMessage` promises its clients, shown to be
   implemented by it, and the clients `Binding`, `FastProvisioning`,
   `RemoteProvisioning` and `BlobTransfer` over it; then `Provisioning` and
   `GattConnection`

## Modules

Common conventions.  In the modules of the phone `Threads` is the set of threads that
call into the controller and `pc` says where each is; every run has two, and they
interleave where the code lets them.  Where an interleaving does harm, a history
variable records that it happened (`raced`, `overlap`, `stranded`, `overtaken`), the
property says "unless it happened", and [below](#where-the-code-and-its-comments-disagree)
is what follows then.  In the modules of the firmware a handler is one step, except where
a flash operation or an interrupt can come in between.  An operator whose name
begins with `Bug`, with the comment *variant*, is a plausible mistake in the
operation that follows it; it is not part of the specification and serves to see
that a property notices the mistake.  Variables marked *history* are not in the
code, those marked *bound* only limit the state space.  Modules `MC...` give the
constants their values for TLC.

### SequenceNumber

| variable | code |
|---|---|
| `seqNo`, `ivIndex`, `initIv`, `updating` | `mSequenceNumber`, `ivIndex`, `initIvIndex`, `isIvUpdating` |
| `saved` | the two values stored by the application |
| `link` | no connection; connected and `checkSequenceNumber` to come; ready |
| `job[t]` | locals of a thread: the number and index it has read, PDUs made and sent |
| `last`, `cleared` | history: nonce of the latest PDU on the air; `clear()` has run during an IV update |
| `raced` | history: a thread has changed the fields, or begun an operation on the IV index, while another worked with what it had read or written of them |

A sender reads the number (`ReadSequenceNumber`), the transmit IV index
(`ReadTransmitIv`), makes PDUs with consecutive numbers from the one it read while
the shared counter is incremented separately (`CreateNetworkPdu`), and sends them;
these are the steps at which another thread can come in; the increment and the storing
that may follow it are one step.  `onIvIndexReceived`
is cut between its three assignments.  `Restart` may happen in every state: the
process ends, `setup` gets the stored values, and `initSequenceNumber` skips to the
next multiple of `Step`.  `ToInt` is the cast `(int) ivIndex`, by which IV_MISSING
comes back as the same 32 bits.

### PduChannel, NetworkingQueue

`PduChannel` is the promise: PDUs are accepted, put on the air in order, at most
once, and discarded only as a whole backlog.  `NetworkingQueue` has the flag, the
queue, the posted task (a count: two are pending when a second thread gets in
between) and `mNetworkBusyLock` as a variable, because the code holds it while it
polls.  The critical sections of the queue's own monitor are single steps.  The
refinement mapping counts the PDU taken from the queue and not yet written as the
head of the channel's backlog.  Histories name what the code does not promise:
`serial`, that no call, on whichever thread, has begun while another was under way, is the
hypothesis of `IsChannel`; `purged`, a completion since the last write of a poll, and
`overlap`, the latest completion came in the middle of a poll, are the exceptions of
`Paced`; `stranded`, the PDUs queued between a poll that had found the queue empty and its
reset of the flag (`TooLate`), that of `PduLeaves`.  `Complete` is `clear()` too.

### ReliableMessage

`kind[m]` gives the length (one PDU or segments), destination, and expected
answers of message `m`; `posts` numbers the segmented posts, since a retry posts
the same message again with a new SeqZero, and a block ack of an old post must
not count for the new one.  Threads interleave at `Dequeue`
(the looper has taken a task out of its queue, after which `removeCallbacks` does
not stop it) and between the two critical sections of `postMeshMessage`.
`reliableMessageTimeoutTask` resets `reliableBusy` and then posts the message
through `postMeshMessage`, as three steps.  An answer, a block ack and `clear()` are one
step each, of any thread.  `raced` is set when a thread changes the slots, or clears the
message, while another is in the middle of a post or has a task in hand (`Exposed`, `Disturbed`);
a first post that has not looked at the slots yet cannot be disturbed.  The segments
received meanwhile are reduced to `receiving`, the negation of `lastSegComplete`.

### SegmentNumbers

The sender's number, the message in `sentSegmentedMessageBuffer` and one segment on
the air; the receiver's arithmetic as operators.  `ResendSegmentedMessages` is
bounded by `seqNo < first + SeqZeroSize`: a message is given up after
BLOCK_ACK_WAITING_TIMEOUT (15 s), in which far fewer than 0x2000 PDUs are sent
with one PDU per `netPktSendInterval`.

### SegmentedRx

The fields of the code under their names (`completed` and `busy` are the two SeqAuth
buffers).  Segments arrive on one thread, `Gatt`, the ack task and the timeout run on the
other, `Handler`, and nothing is locked: each handler is cut at every access to what it
shares with the other.  Up to its decision `ParseSegmentedAccessMessage` is one step, with one
disjunct per outcome (refused before, completed before, refused because another message is
being received, taken), since the timeout writes the fields it reads in the opposite order.
Then come the recording of the last message
(`ReadLastSegSrc`, `SaveCompletedSeqAuth`), the three fields, the buffer (`Empty`, `Put`, `Size`)
and either `KeepAuth`, `Check` or `Close`, `CheckNow`, `Deliver`.  On the other side
`ReadSrc` and `SendSegmentBlockAck` (the clone of the buffer) are two steps, as are the
three assignments of the timeout.  Sources send their messages in the order
of their SeqAuth and repeat any segment at any time.

| history | |
|---|---|
| `received`, `delivered` | segments that arrived, messages passed on |
| `interrupted` | messages hit by `clear()`, or by the timeout in the middle of a segment |
| `unnamed` | the buffer is that of a new message, whose source the ack task has not been given yet |
| `overtaken` | the ack task has read a source that is not that of the message in the buffer |

### DurableRegister, FlashRecord

`DurableRegister` is what the rest of the firmware relies on: a value, a store
that takes effect at one moment and has done so when it returns, a power loss that
lets the store under way stand or fall.  Losses are counted, so that an
implementation cannot lose a store without one.

| variable | code |
|---|---|
| `misc` | the sector is FLASH_ADR_MISC, which has a crc and a backup; else one of `mesh_save_map` |
| `main`, `backup` | the records of the sector: flag, crc, data, each as the bits that are still 1 |
| `next`, `op` | `*p_adr` and where `mesh_par_store` is (RAM, lost at a power loss) |
| `overlaid`, `stranded` | history: the two cases in which the promise ends, see [below](#where-the-code-and-its-comments-disagree) |

A store is a sequence of flash operations (`StartSame`, `StartWrite`, `StartFull`,
`WriteBackup`, `EraseMain`, `WriteMain`, `Clean`).  `PowerLoss` strikes between two of them or in
one: a head then has its flag and all or nothing of its crc, the data has lost any
of the bits that were to be cleared.  An erasure is one step.  `Retrieved` is the scan of `mesh_par_retrieve`
with its fall-back to the backup, and the refinement maps it to the value of the
register.  `Crc` is a function that no two values share and no mixture of two has.

### NodeIv

| variable | code |
|---|---|
| `st` | `iv_idx_st` (`cur`, `tx`, `proc`, `rx`, `keep`, `trigger`, `searching`), `mesh_adv_tx_cmd_sno` (`sno`), the last number stored (`last`), and whether a store is due |
| `flash` | the record `misc_save_t`, a `DurableRegister` |
| `busy` | `is_busy_segment_or_reliable_flow()` |
| `sent`, `settled`, `age` | history: highest nonce sent, the same up to the last finished pass of the main loop, time since the index sent with changed |

Handlers are functions of the pair [state, flash], one per function of
`security_network_beacon.c`, composed as the calls are.  `EndOfPass` is the end of
a pass of the main loop: the polls every second and every millisecond and the check
that stores the number.  `Transmit`, the numbering of a PDU, is in the binary
library and external.  `settled` is needed because a start adds exactly `Delta` to
the stored number: when the power goes in the very pass that sent the PDU with
number stored + `Delta`, before `mesh_sno_save_check`, that number is used
again (`>` at `mesh_node.c:4432`).

### ReplayList

`stage` counts half steps of IV updates, of the node and of each source: 2c with
index c, 2c + 1 in the first step towards c + 1.  A PDU on the air can be heard at
any time from then on and any number of times.  `Hear` is the check in the
interrupt, with the queue `fifo` up to `Process`, the check in the main loop with
the entry's update.  `list` is a partial function of at most `Capacity` entries; a
full list keeps no entry of one more source, and a restart empties it, so the
properties are about sources with an entry.

### FactoryReset

| variable | code |
|---|---|
| `bytes`, `idx` | the sector FLASH_ADR_RESET_CNT, `adr_reset_cnt_idx` |
| `st`, `limit`, `time` | `clear_st`, `reset_check_time`, seconds since the start |
| `ops` | the flash operations that the call under way still has to do |
| `full` | sectors of the node's data not yet erased; the first one holds the keys |
| `past` | history: how long the last sessions lasted, and whether one was cut in a write; a session that ends before it has written anything leaves no trace and is not in it |
| `kicked` | history: the erasure under way, or the one a power loss interrupted, was begun by `kick_out` |

`FlashOp` does one operation of `ops`; `PowerCycle` may come before any of them.
Of the table `factory_reset_serials` the assumption takes what the procedure needs: pairs of
limits, the first not after the second, and a `Trigger` that a byte can count.
`KickOut` is a Node Reset, or a provisioning that was not completed in time.

### FriendQueue

`cache` is the ring with its two indexes, `rsp` the pointer taken at the poll and
sent at the answer, `over` the flag that an overwrite moved the head in between.
`SendPoll`, `PollAgain`, `GiveUp` are the low power node's side with its two rounds of
retries: the first repeats the poll with the same FSN, the second flips it.  An
item is a message, an ack of segments or an update, with the number by which the low
power node refuses what is not newer.

### Friendship

`lpn[l]` is the state of a low power node: its step, the friend it chose, its
counter, retries left.  `slot[f][i]` is what a friend node keeps in slot `i`.
Credentials are the two counters, so a poll or an update of another session is not
decoded; a poll goes to the first slot its node has (`Hears`), which
matters when it has two.  Polls, updates, requests and offers are heard once or lost; clears and
confirms are relayed and can also come late.  A friend's poll timeout is longer
than the time in which a low power node polls or gives up, so `PollTimeout` waits
until no poll that the slot would hear is in the air.  In the same way `EndOffers`
waits until no friend node has an offer open that answers an earlier request: such an
offer is forgotten 1.6 s after it was made (`mesh_fn.c:806`), at most 2.7 s after its request,
while the offers of the next request are collected until 2 s + 1.1 s after it
(`FRI_REQ_TIMEOUT_MS`, `FRI_ESTABLISH_PERIOD_MS`, `app_mesh.h:1235-1252`).

### FirmwareUpdater, FirmwareDistribution

`FirmwareUpdater` has no variables: one operator per command from the state of a
node to its next state and its answer.  Content is named by the position it belongs
to, and a position written twice with different content is spoiled.
`FirmwareDistribution` has one such node per receiver and the gateway:

| variable | code |
|---|---|
| `st`, `at`, `wait`, `block`, `missing`, `list` | `st_distr`, `node_num`, `st_wait_flag`, `block_start.block_num`, `miss_mask`, the flags of the list |
| `cmd` | `mesh_tx_reliable`: the command under way, its answers and retries |
| `back` | answers on their way, per node |
| `lost`, `faults`, `starts` | bounds: lost chunks; lost commands and answers, late answers, restarts, cancellations; distributions |
| `updated`, `plain` | history: nodes that started the image of this distribution; nodes that were idle at its start, did not restart, and of which no late answer was taken or looked at (`Looked`) |

A list names a node once (`fw_distribut_receivers_add`, `mesh_ota.c:1380-1390`).

Each action of `Proc` is one pass of `mesh_ota_master_proc` that does something:
send to a receiver, pass over a skipped one, end a round, send a chunk.  The round of
`apply` serves the node with the connection last.  `AppCancel` is a cancel that is taken: while
a segmented command is under way the application's own cancel ends it first
(`mesh_node.c:2879-2884`) and another initiator's is refused, which changes nothing
(`mesh_ota.c:881-888`).

## Runs

Twelve runs, all of which pass.

| run (distinct states) | what it checks | instance and why it is enough |
|---|---|---|
| `sequence_number` (357161) | `RestartIsFresh`: at whatever step the process ends, the stored values lie above all nonces used. `NoncesIncreaseUnlessDisturbed` | two threads, interchangeable; `Step` 2 and numbers to 9, so that several stores happen in a session and PDUs straddle them; threshold 4, so that IV updates are started by the phone and by the network; IV indexes 0 to 3, known or missing at first; not followed beyond the first `raced` or `cleared` (the constraint `Undisturbed`), from where on both properties promise nothing |
| `queue` (200235) | `NotLostNorDuplicated`, `Paced`, `PduLeaves`; while `serial`, `IsChannel` (refinement) | two threads, five PDUs: one in each thread's hands, some in the queue, and a purge in between |
| `reliable` (369384) | `AcceptedIsTracked`, `ReportedOnce`, `ReportsAreTrue`, `EveryMessageEnds`, all unless `raced` | the handler and another thread; two messages, one for each slot or one after the other: to one node reliable or not, in one PDU or in segments, or to two nodes whose answers are both needed; one retry; one reception |
| `segment_numbers` (107468) | `SegmentsNameTheirMessageInIv` | blocks of 8 numbers, 32 numbers, 4 segments, three IV indexes: messages across a block's end, and four blocks |
| `segmented_rx` (879074) | `OneMessageInBuffer`, `AckTruthful`, `CompleteAckUnlessCleared`, `RefusedOnlyIfBusy`, `ReceptionEnds` | two sources with two messages each, of two segments and of one, one that cannot be decrypted; three segments arrive, with both tasks and `clear()` at any step: a message, another, and a repetition |
| `flash_record` (109951) | `LogIsSound`, `IsDurableRegister` (refinement) | two slots, so that the sector fills and is erased; three values that share bits, so that a mixture of two can look like a third; three power losses: one per write of a backup, of a record and of the next record over its remains |
| `node_iv` (114020) | `NonceFresh`, `IvKept`, `HeldLongEnough`, `UpdatesGoOn` | numbers to 7 with an update from 6, stored every 2; four IV indexes; a beacon two indexes ahead and one beyond what is accepted; two power losses |
| `replay_list` (1265442) | `AcceptedInOrder`, `FreshAccepted` | two sources for one entry, two numbers per index, stages 5 to 8: an update begun, one whole, and the next begun; one queued PDU; one reset |
| `factory_reset` (275514) | `ResetOnlyBySequence`, `SequenceResets`, `PartialMeansResetting`, `ResetCompletes` | two sessions, one that may be short and one that may not; four bytes erased from the second on, two data sectors; sessions of 0 to 3 seconds, before, at and after every limit; a Node Reset at any time |
| `friend_queue` (296484) | `HeldIsAcceptable`, `DropsOnlyWhatWasAccepted`, `EveryItemLeaves` | two slots and six items, so that the ring overflows and wraps; two polls per round |
| `friendship` (88822) | `OneFriendPerSession`, `LpnNotices`, `OldFriendLetsGo` | one low power node, two friends, two sessions, two polls before it gives up; one slot per friend: the two slots that one node can get of a friend (`mesh_fn.c:867`) are in the proof, which is for any number |
| `firmware_distribution` (101034) | `AppliedIsWhole`, `ChunksInPlace`, `ReportIsTrue`, `DistributionEnds`, `EveryReceiverUpdated` | two nodes, one with the connection; blocks of two chunks and of one, so that a chunk number exists in one block and not in the other; two distributions; two lost chunks; two faults of any kind; one retry |

`LogIsSound`, `ReportsAreTrue`, `EveryMessageEnds` and `UpdatesGoOn` are conjunctions
of the named definitions before them in their modules.  Every module with state of the code has a `TypeOK`;
one
run checks it (`flash_record` in `LogIsSound`), and theorems state all of them.  Deadlock is checked in `queue`,
`reliable`, `segmented_rx`, `sequence_number` and `factory_reset`; in the other
runs a bounded counter or a network that loses everything may end the behaviour.

Bounds: `MaxPdus`, `MaxSeq`, `MaxSno`, `MaxIv`, `MaxMsgs`, `MaxUpdates`, `MaxMap`,
`MaxReceptions`, `MaxSegN`, `MaxNumber`, `MaxLosses`, `MaxStores`, `MaxStage`, `MaxResets`, `MaxTime`,
`MaxCounter`, `MaxLoss`, `MaxBack`, `MaxStarts`, `MaxFaults` limit counters in guards
and nothing else.

### Fairness

Phone:

- `NetworkingQueue`: weak fairness of `Runs`, that some thread in the middle of a call goes
  on, whichever, and of `Fires`: the looper runs a posted task.  The monitors need not be fair.
- `ReliableMessage`: weak fairness of what the handler thread has begun (`Advance(Handler)`);
  `SegmentedRx`: of what each of the two has (`Parse`, `Task`).
- Strong fairness of the two `Dequeue` of timeouts in `ReliableMessage` and of that of
  `segmentTimeoutTask` in `SegmentedRx`: the
  looper serves tasks in the order of their due times.  A task that re-arms itself
  (`mSegmentBlockWaitingTask`, `mAccessSegCheckTask`) therefore does not keep
  another from running.  In between the handler is busy with other tasks, so weak
  fairness would not do.
- Strong fairness of `EndReception` in `ReliableMessage`: what `ReceptionEnds` of
  `SegmentedRx` shows.  Each segment restarts `segmentTimeoutTask`; the segments of
  a message are finitely many in `SegmentedRx` (`MaxPdus`).  A source that repeats
  segments for ever and more often than every 10 s would keep the buffer.

Firmware (the main loop never blocks, and timers are compared with the clock in
each pass):

- `NodeIv`: weak fairness of `FlowEnds`, since reliable and segmented flows have
  timeouts; strong fairness of a pass of the main loop that finds no flow, since one
  may begin again and again but the node is not always in one.
- `FactoryReset`: weak fairness of `Running`, and someone leaves the power on in the
  end (`<>[][~PowerCycle]`), without which nothing completes.
- `FriendQueue`, `Friendship`: weak fairness of the timers of both sides (answer,
  poll, retry, give up, sending, end and timeout of offers, poll timeout, clear timeout) and of the loss of
  a message of one hop: it is heard or gone.  In `Friendship` it is stated per low power
  node and kind of message, which is weaker than per message.
- `FirmwareDistribution`: weak fairness of the gateway's loop, of its retry and
  segment timers, of "some answer under way arrives" (`Arrives`) and of "some node with a
  pending reboot reboots" (`Reboots`), which is a timer.

Each module with fairness defines `GuardsSuffice` (`MailGuardsSuffice`): the guards of the
actions it is fair to are all they need.  It is what the liveness proofs take of ENABLED.

Nothing is assumed of the network: no answer, block ack, beacon, offer or clear need
come.  Nor of the application: `Complete`, `Clear`, `Send`, `AppStart`, `AppCancel`
and `Store` have no fairness.

## Proofs

TLAPS checks the theorems for every value of the constants that satisfies the named
assumption of the module.  Every safety invariant, action property and refinement that a
run checks is stated by a theorem, for any number of threads and without any other
hypothesis than `[]GuardsSuffice` for liveness: where a race of the phone's threads does harm, the
property itself names it.  So is every liveness property, under the fairness above.  Each proof has the same shape: an inductive
invariant, one lemma per action or group of actions that it holds after the step, and
theorems that read the properties off it.  TLC has checked each of the invariants on the
run's instance before.

Liveness.  The prover knows neither ENABLED nor induction over a temporal formula.  The first is
taken as a hypothesis, `[]GuardsSuffice`, that says of each fair action that its guard enables it;
TLC finds it invariant on the instance of every run with fairness.  The second goes through a rank, a
number: one lemma says that with rank k the good comes or the rank falls below k, another that
"from rank n the good comes" holds for all n, by induction over a function of numbers that
stands for the temporal formula (`Named`, `Induction`).  What is left to think about is the
rank and the invariant that makes each step lower it or keep it.

**SequenceNumberProofs.**  For any threads.  `TypeCorrect`: `TypeOK` is
strengthened by `JobOK` (locals of a beacon's handler are IV indexes of the
network) and `StoredInTime` (the stored number is a multiple of `Step`, less than
`Step` behind the counter), which needs the lemma that no multiple of `Step` lies
strictly between two neighbours.
`RestartFresh` and `NoncesIncreaseTheorem`: the inductive invariant is `TypeInv /\ FreshInv`.
That nonces increase says nothing of where the next number comes from; `Fresh(t)`
relates the latest nonce to the number that `t` has read, to the
shared counter, and to what is stored, records the four shapes
`ivIndex`, `initIvIndex` and `isIvUpdating` can have between operations
(`IvShape`), and what a half-done `onIvIndexReceived` will still assign
(`PendingIv`).  `OneByOne` says that, as long as nothing was disturbed, at most one thread at a
time has given out numbers or is changing the index (`Busy`), that what the others have read is
still so (`SendShape`), and that `Fresh(t)` holds for every `t` beside which no other is busy.
`FreshInv` is `OneByOne` until `raced` or `cleared`; after that the theorems
say nothing, because nonces are used twice there (see below).

**NetworkingQueueProofs.**  For any threads and PDUs: `NoneLostNorSentTwice`,
`WritesArePaced`, and `ImplementsChannel`, the refinement of `PduChannel` step by step.
The invariant has three parts.  `OnePlace`: the PDUs prepared so far are those queued, in the
hands of a thread between its two locks, on the air or discarded, each once.  `OnePoller`:
until a completion overlaps a poll, one thread polls or one timer is pending, never both, and
who has yet to write has waited, or a completion came since the last write.  `Idle`: while calls
have come one after the other, a reset flag means an empty queue or a thread about to start
polling, without which a PDU that takes the fast path round the queue would overtake.
`EveryPduLeaves` is about calls that overlap at will: `Served` says that a queue with a PDU that is not
stranded has a timer pending or a thread that comes back to it (`Attended`).  Two threads may poll,
and pollers and timers give rise to one another, so the place of a PDU in the queue is no
measure; `Rank` weighs the PDUs to be prepared, those queued, the timers and
what each thread has still to do, such that every step of a call and every timer lowers it.

**ReliableMessageProofs.**  For any threads, messages, nodes and numbers of retries, until
`raced`: `AcceptedTracked`, `ToldOnce`, `ToldTruly`; `TypeCorrect` races or not.  That a message is tracked cannot be shown from
the timers alone: a retry frees the slot and posts the message like a new one.  `PostingOK` says what is
posted (a new message, or, by the handler thread, the one in the slot that was just freed; no message by two threads), `SlotOK` that at most one message
waits, `TimersOK` which of the three tasks comes back to it, `SegmentsOK` that the segments
under way are that message's or wait for no response, and `HeardOK` that the responses
counted are to it.  `MessagesEnd`: a reliable message ends when its retries do, and its timer
is put off only while segments are received; `Left` counts retries and receptions to come.

**SegmentationProofs**, of `SegmentNumbers` and `SegmentedRx`.
`TransportSeqNoCorrect`: for every size of SeqZero, from
a segment less than SeqZeroSize numbers after the first the receiver computes the
number of the first.  The argument splits numbers into block and place and
distinguishes whether the segment is in the first one's block or in the next.
`SegmentsNamed`: every segment names its message while the IV index stays; the
inductive invariant adds to the types (`NumbersFit`) that the segment on the air
lies within that window (`InWindow`).
`TypeCorrect`, `OneMessage`, `AcksAreTruthful`, `CompleteAcks` and `RefusalsJustified`
are about the receiver, for any sources and messages but SeqAuth 0 (`SegmentedRxAssumption`;
the code takes it for "no message"), with the two threads cut at every access to what they share.  One inductive invariant, `RxInv`,
carries the first four.  It says for every place of the GATT thread what the fields and the buffer have in
common then (`Begun`, `Renaming`, `Filling`, `Ending`), with the timeout at any of its own.
`OneOK` is about the buffer and the name of its message, `SourceOK` about the source that
an ack of the buffer would go to and the one the ack task has read: they differ only while
`unnamed` or `overtaken`.  That a complete ack means a delivered message depends on a
chain of fields: an ack is built from the buffer (`BufferOK`), or from the
completed record (`CompletedOK`), which is copied from the name of the last
message when the next one begins (`LastOK`).  Each link must say that the message
has been passed on *and* that all its segments arrived.  The counting in the code
(`messageCnt != segN + 1`) is related to the set of segments by the cardinality
theorems.  `BusyOK` adds, for the refusals, that a message on record as refused has
had a segment received.  `ReceptionsEnd`: while the buffer is reserved the task that
gives it up is posted or running, or the GATT thread is about to post it or to free the
buffer (`TimeoutPending`).

**FlashProofs**, of `FlashRecord` and `FactoryReset`.  `SoundLog` and `ImplementsRegister`,
for any values, slots and number of power losses.  `FlashInv` says what is in flash at each step of a
store: flagged records are whole (`FlaggedIsWhole`), slots are used in order, the slot and the
backup under way have what the step says (`SlotUnderWay`, `BackupOK`), and data that a
store would take for stored has its flag (`NotStranded`).  The value of the register changes at the
write of a flag, of the record or, when a full sector is being erased, of the backup;
every other step, losses among them, is a stutter or a loss of the register.  The two exceptions, `overlaid` and
`stranded`, appear in the invariant just where the argument fails without them.
`OnlyTheSequence`, `SequenceIsEnough`, `PartialIsResumed`: for any table of sessions, any size
of the sector and any data.  The properties are about the history of sessions, the code
knows only a byte: `Session` relates the two for every state a session can be in, counted
(`CountedSession`), with a count that is not valid and must be cleared first (`SpoiltSession`) or
erased by `kick_out`, and every flash operation it still has to do; `DataOK` says that a half-erased node is on
its way to a reset, or is one that `kick_out` began.  `ResetEnds`: once the power stays on
the rank is the number of flash operations ahead; the erasure that the last power cycle cut is
begun again, because the count is erased last.

**NodeNumbersProofs**, of `NodeIv` and `ReplayList`.  `NoncesAreFresh`, `IndexIsKept` and
`IndexHeldLongEnough` for any save distance, thresholds and times.  `NodeInv` adds that the step of the update, the
index sent with and the index in flash agree (`InStep`), that the number stored is the one
last noted or `Delta` behind at a start (`Saved`), and that a restart, adding
`Delta`, gets above all that was settled (`SettledFresh`).  Handlers are compositions of functions of [state,
flash]; one lemma per function says that it keeps the first two and moves the index forward only
(`Onward`), and composes.
`NoReplay` and `NoFreshRefused`: an entry is the last PDU accepted, with the remainder of its
index by `IviMod` (`ListOK`); what is on the air is not ahead of its source.  The
comparison by 8 bits is right because a node accepts its index and the one before only, and two
indexes less than `IviMod` apart have different remainders; it is enough that `IviMod` is above 2.
`UpdatesEnd`: beacons with later indexes start the step of an update anew, and power losses
start the clock anew; `Distance` counts the indexes and seconds to come, the power losses are
an induction of their own, and a flow under way ends but another may follow at once, so
the pass that finds none needs strong fairness.

**FriendProofs**, of `Friendship` and `FriendQueue`.  `NeverTwoFriends`: for any low power
nodes, friends, slots and retries.  `OneFriendPerSession` is not inductive: a second friend
could answer a poll.  `FriendInv` says that polls and requests in the air are of the present session
and polls go to the friend chosen (`AirOK`), that no slot has an offer of an earlier session when the
node has chosen (`SlotOK`), and that who serves the session is the one chosen (`PresentIsChosen`).
`HeldStaysAcceptable` and `DropsAreOfAccepted`: for any size of the ring, number of retries and
messages.  `MailInv` has the order of the messages in the ring (`Ordered`), that those never answered with are
newer than any answer in the air and any number accepted (`Newer`), that the pointer of the
answer under way and the answer in the air are the head unless `cache_overwrite` says
otherwise (`AnswersOK`), and the point of the protocol, `HeadOK`: before the second round an FSN that
differs from the friend's means that the head was accepted.  Lemmas about `Push`, `Pop` and the replacement of
acks say what each does to the items by index; they rest on `SlotsApart`: indexes less than
a turn apart have different slots.
`OldFriendsLetGo`, for any number of slots: a friend that the low power node has left hears no poll
of it any more and times out.  With one slot per node that is so at once; with two
(`mesh_fn.c:867`) the polls of the new session can go to the slot of the old one, if that
is the first.  `SlotsInv` says when not: what a friend keeps of the present session is in
one slot, and in one before any in which it serves an earlier session
(`PresentSlot`).  `StaleHears`: a stale slot therefore hears polls only of a node that still waits for
its first update, after the slot with its credentials was freed again.  Such a node
runs out of polls and asks anew; `Ahead` counts the requests and polls it has left, by induction.
`DroppedIsNoticed`: `Patience` counts the polls the node has left and gives a late answer of
the friend, which starts the polls anew, the weight of a round: only one can be in the air.
`EveryHeldLeaves`: the rank of an item counts the places before it in the ring, the acceptances
that are still to come before the head is dropped, and the polls of the two rounds.

**FirmwareProofs**, of `FirmwareUpdater` and `FirmwareDistribution`, in two layers.
`OnlyWholeImages` holds whatever a node is told.  `SafeInv` says that what a node
believes of its flash is so (`Sound`: a block marked as received and with the right sum has every
chunk at its place, a verified image is whole), and that nothing reaches a node that is about
to reboot with the new firmware (`Quiet`), which rests on the command under way being the one the
gateway's state waits for (`CmdOK`).
`ChunksToTheirBlock` and `OnlyTrueReports` are about a distribution and its `plain` receivers.  A chunk does
not say its block, so the theorem must know where every receiver is: `DistrInv` says for each
state of the gateway in which state a receiver that is not skipped is, before and after the
round reached it (`Stage`), that no answer under way is of a command to come (`KnownOK`), that the
answer waited for tells the truth about its node (`Fits`) and a late one about missing chunks is
harmless (`Missed`), and which phases the gateway can have noted (`PhaseOK`).
`ReceiversUpdated` follows one distribution in which chunks are lost and nothing else fails.
`SmoothInv` says that every receiver takes part, answers what it is asked, and that
what the gateway thinks is missing is what the nodes miss.  The rank is lexicographic: chunks
that can still be lost, level of the state (a round of chunks without a loss is the last of its
block: `WillMiss`), steps left in the round.  At its end all nodes have a reboot
pending or behind them, and the reboots are counted.
`DistributionsEnd` is about a distribution with faults of every kind.  Besides `SafeInv` its invariant
says that only a node that waits for chunks misses some (`WaitsForMissed`), and that an
apply passes over nobody but the connected receiver (`ApplyOrder`).  The rank has
eight parts (`EndRank`): faults and losses that can still come; the place of the state among all
states; receivers, pending reboots and missing chunks in the loop of chunks and block gets (`Open`); answers about
missing chunks that are true no more, with those before them (`Old`); the phase of that loop;
steps left in the round; repetitions of the command; answers under way.  No round need be the last of its
block, since a late answer can make the gateway send chunks that nobody misses.  But
each such answer is used up, and a true one names a chunk that a node in the same block misses
(`MissedIsNew`), unless the receiver is `Astray`; sending that chunk closes a gap, or a loss is spent
(`EndChunk`).  Whatever the state, a fair action can come that lowers the rank, unless the
gateway is `Hung`.

What the proofs showed about the models, which were corrected accordingly: a register that may
lose a store at any time does not exclude losing one without a power loss (`losses`); a record left without its flag by
a loss is taken for stored also when a *torn* write left the value (`stranded`); a
session that ends before it wrote anything leaves no trace (`past`); with more than one slot an
offer of an earlier request could be taken for one of the present session (`EndOffers`);
a late "verified" of an earlier distribution, noted in the query round for a receiver that is skipped
afterwards, makes the gateway send it "apply" and take it back into the list when it refuses
(`mesh_ota.c:2059`; `Looked`, found by TLC with four faults); `MaxIv` must be at least 2 and
`FirstStage` at most `MaxStage`; a distribution need not end although the gateway's loop runs, since missing chunks
are sent again without a limit and late answers can leave a receiver in another block
(`Astray`, found by TLC with three answers under way and three faults, more than the run allows; `DistributionEnds` was false as it stood); an
answer under way and a reboot need fairness only as kinds, not per node.

What the proofs leave to TLC is that the properties are not vacuous on the instances, that each
fails under the mistakes of the variants, and that `GuardsSuffice` holds.

## Assumptions of the models

- A handler is one step except at the cuts named above: in `SequenceNumber`,
  `NetworkingQueue` and `SegmentedRx` it is cut wherever it can touch what another thread
  shares, in `ReliableMessage` between the critical sections of a post and between the
  looper's queue and the task.  There an answer, a block ack and `clear()` are not
  interleaved further with each other.  In `SegmentedRx` `clear()` is one step, at any
  time, and to remove a task and post it again is one; in `NetworkingQueue` the purge is one.
- Java's plain fields are read and written in program order.
- The GATT connection keeps the order of what is written to it and loses
  everything when there is no connection.
- Encryption and decryption do not appear.  A message the controller has no key
  for is a member of `Undecryptable`.
- Received PDUs of the phone have passed `validateSequenceNumber`; a delayed PDU of an
  earlier message of the same source does not arrive.  `clear()` and an IV update
  empty the replay cache, after which one could; that belongs to `ReplayCache` in
  the plan.
- Messages have a valid destination and a key (`sendMeshMessage` returns
  otherwise); encryption of an outgoing message does not fail.
- No two values stored, nor a mixture of them, have the same crc.  A flash write that is not interrupted does what
  it should (`mesh_par_write_with_check` reads it back).
- Firmware configurations: a mains-powered node for `NodeIv` and `ReplayList` (no
  gateway's recovery of the IV index, no IV_UPDATE_DISABLE, no test mode, no friend
  credentials in the list), the record log and not the TLV storage, the gateway as
  distributor in push mode.
- Late answers of a node come in the order it sent them: the replay list refuses a
  PDU with a lower number.

## Where the code and its comments disagree

Definitions named here are in the modules with the comment they quote; each fails in
the instance given, so no run lists them.  The properties that runs check name the
exception instead.

Phone:

- `NoncesIncrease` (`SequenceNumber`): `clear()` resets `isIvUpdating` and not
  `ivIndex`.  In the middle of an IV update the phone goes on with the new index and
  the old numbers, and uses the pairs again when the update completes and the number
  is reset (`NC:388`).
- Both properties of `SequenceNumber` without `raced`: `postMeshMessage` reads the
  sequence number long before `createNetworkPDU` increments it; two threads that read in between
  give one number to two PDUs (`NC:728`).
- `Paced` without `purged`: a completion resets the flag and the task, and the poll that the next
  PDU starts writes at once, within `netPktSendInterval` of the last write (`NC:1653-1658`).
  Without `overlap`: a completion in the middle of a poll lets a second thread poll beside it.
- `PduLeaves` without `stranded` (`NetworkingQueue`): `pollNetworkingQueue` resets
  `networkingBusy` after it found the queue empty; a PDU queued in between waits for
  the next one (`NC:1150`).
- `AcceptedIsTracked` and `EveryMessageEnds` without `raced` (`ReliableMessage`): the retry frees its slot
  before it posts the message, and ignores that the post is refused: a message sent
  by the application in between takes the slot, and the retried one is never
  reported (`NC:1705`).
- `ReportedOnce` without `raced`: `reliableMessageTimeoutTask` dequeued just before
  the answer completes the message posts it again, since it does not test
  `reliableBusy` (`NC:1692`).
- `AckTruthful` without `overtaken` (`SegmentedRx`): the ack task reads its source
  (`NC:2275`) and then the buffer (`NC:1829`), both on the handler thread and without a lock,
  while the GATT thread empties and fills the buffer (`NC:2033`, `NC:2057`) before it sets the new
  source (`NC:1802`): the ack of the new message goes to the source of the one before, against
  "used to send a segment block acknowledgment message to a specific source" (`NC:1817`).
- `CompleteAckMeansDelivered` (`SegmentedRx`): a message interrupted by `clear()`, or by
  `segmentTimeoutTask` in the middle of a segment, is
  recorded as complete by the next one, and acknowledged and not delivered when it
  is repeated (`NC:383`, `NC:1916`).
- A repeated segment of the latest complete message delivers it again (`NC:2068`), and
  `segmentTimeoutTask` dequeued just before the last segment makes the controller forget a
  message it has delivered (`NC:1917`).  No property excludes either.
- `SegmentSuccessMeansReceived` is about messages that wait for a response: a
  segmented message that waits for none is reported as sent when the answers to
  another one complete that one (`NC:1669`).  `FailureMeansGaveUp` allows that the
  timeout of such a message fails the reliable message in the other slot (`NC:959`).
- `SegmentsNameTheirMessageInIv` is about one IV index: segments sent again after an
  IV update carry the new index with the old SeqZero (`NC:1536`).
- SeqAuth 0 (IV index 0, number 0) is refused by an idle controller because 0
  stands for an absent record (`NC:522`).

Firmware:

- `FoundWasStoredAlways` (`FlashRecord`): "backup to prevent unexpected power down"
  (`mesh_node.c:4188`) is written at one place that is not erased first; after two
  interrupted stores in a full sector the second backup overlays the remains of the
  first.  In sectors without crc ("only add crc for misc sector now.",
  `mesh_node.c:3998`) a record left without its flag is taken for stored when the
  value its data holds, written whole or by a torn write, is stored again: the promise of `DurableRegister` ends there (`exact`).
- `FreshAlwaysAccepted` (`ReplayList`): an entry whose index differs from that of the
  PDU counts as newer ("this case happen means ivi of cache is new, iv rx is old",
  `mesh_network_layer.c:403`); of a source silent during a whole index it is older,
  and its first PDUs are refused.
- A low power node can have two slots of one friend: a request "when being keeping friend
  ship" (`mesh_fn.h:32`) ends the friendship only when no slot before its own is
  free (`mesh_fn.c:867`).  Both are let go of in the end (`OldFriendsLetGo`).
- `PartialMeansResettingAlways` (`FactoryReset`): the count is erased "at last should
  be better, when power off during factory reset erase" (`factory_reset.c:569`), since
  it makes the next start go on with the erasure; `kick_out` erases with any count
  (`factory_reset.c:608`), and after a power loss the node goes on with what is left
  and may be provisioned with it.
- `FactoryReset`: after a session cut before its first limit, the byte written next
  lies over a cleared one and reads 0; the count of the next session is 0 and the
  limit is read at index -1 of `factory_reset_serials`.  Such a session is not
  counted; the model takes any limit.
- `FirmwareDistribution`: a segmented command of which no segment is acknowledged ends
  the reliable command and leaves `st_wait_flag` set, and the distribution hangs
  (`Hung`, `mesh_node.c:2699`); a late answer is taken for the answer to the next
  command (excluded by `plain`); a skipped node goes on storing the chunks of later
  blocks in the block it is in; a node that restarts between verification and apply
  answers with a wrong phase and is not reported; a reboot with the new firmware that
  is pending when the next distribution starts is not stopped by it; missing chunks
  are sent again without a limit of rounds in push mode (`mesh_ota.c:2250`), and a
  distribution does not end if late answers left a receiver that is not skipped in
  another block (`Astray`); a block that was never started
  counts as complete in an empty missing mask.

## Not modelled

Named in `PROJECT.json` under `components` with the reason.  In short:

- in the plan: the phone's replay cache and proxy filter, the modes of `MC`,
  provisioning, binding, fast and remote provisioning, the phone's firmware update,
  the GATT request queue;
- left out of modelled parts of the firmware: pull mode of the firmware update with
  partial reports of low power nodes, the initiator's upload, transfers without an
  update start, a distributor that is a node, the subscription list and the segment
  cache of a friend, a Friend Clear from the low power node itself (`mesh_lpn.c` sends
  none), the gateway's recovery of the IV index, the TLV storage;
- no protocol state worth a model: message layouts, cryptography, scanner, event bus,
  the model servers (lighting, scenes, scheduler: sequential computations on stored
  values), most of the application;
- no source: the transport layer of the firmware, its network layer's numbering and
  the stacks under it are binary libraries, modelled from their use where a modelled
  part calls them (external in the map);
- the iOS library: a second provisioner of another design.

The map covers a small share of the repository's lines.  Most of those are vendored
stacks and tools, drivers, generated tables, message classes and user interface.
