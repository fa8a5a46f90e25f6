# TLA+ models of the STM32F767 CANopen reference node

This directory specifies the parts of the firmware whose correctness depends on
the order of things: the superloop against its interrupts, recovery from bus-off,
the queues between interrupt and mainline, the ISO-TP transport, the pass that ties
the UDS stack together and the diagnostic server above it, the storage of parameters
against power losses, the supervision of a peer, and the drive with the watchdog. The
models are TLA+ modules, checked by TLC on small instances; the theorems about them
are checked by TLAPS for every value of the constants. Line numbers refer to the sources one directory up, in `src/`.

## The system

One STM32F767 runs a superloop (`main` → `canopen_app_process`) and three interrupt
sources: SysTick (the millisecond tick), TIM7 (PDOs and outputs,
`canopen_app_interrupt`), and CAN (receive, error). An interrupt preempts the
mainline anywhere and runs to completion. There is no operating system, no lock
besides short interrupt masks, and no heap after a reset of the communication.

| Component | State | Operations | Hard behaviour | What makes it correct |
|---|---|---|---|---|
| Runtime lifecycle (`CO_app_STM32_reference.c`, `main.c`) | runtime state, safe-fault latch, CANopen objects, CANnormal, TIM7, last tick | init, communication reset, superloop pass, NMT and ECU resets, FailRuntime | interrupts between any two steps of a reset; nine calls that can fail, for three callers | a latched node is safe; a node that says RUNNING is served; no failure leaves it in between; outputs start off |
| Bus-off recovery policy (`canopen_reference_can_recovery.c`) | state, due tick, failed attempts | request, ready, complete | the bus reports again during the wait; the tick wraps; attempts fail | attempts are bounded, then the fault latches; a recovery concludes |
| CiA 401 outputs (`cia401_reference.c`, `canopen_reference_hw.c`, `canopen_reference_board.c`) | output objects, hardware outputs | receive, apply, force safe | TIM7 applies while the mainline forces safe | nothing commanded before a reset drives an output after it |
| UDS CAN adapter (`uds_stm32.c`) | receive and transmit ring, counters, the mailboxes of the controller | interrupt store, get, queue, submit | an interrupt inside a copy; rings at their limit; TIM7 takes the mailbox | first in, first out, whole, once; losses counted; sent in order |
| ISO-TP (`isotp.c`) | receive and transmit context | start, feed, next, tick | lost, foreign, late frames; wrapped deadlines; wait frames; blocks | what arrives is what was sent, or nothing; every transfer ends |
| UDS runtime (`canopen_reference_uds.c`) | the above, a server | one pass: receive, serve, respond, send, tick | a budget per pass; a response while one is being sent; queue full | responses go out; requests are answered once |
| UDS server (`uds.c`) | session, level, S3 deadline, block counter, reset flag | 13 services, tick | session timeout between two requests, over the wrap and with late passes | a session ends when, and only when, its S3 time is over, and takes its level and download with it |
| UDS security (`uds_security_provider.c`) | seed, key, attempts, lock-out | seed, verify, reset | wrapped lock-out deadline; level kept twice | a lock-out after the limit of wrong keys lasts its time |
| UDS download (`uds_download.c`) | state, metadata, block, deadline | begin, poll erase, write, finish, tick, abort | a failing step; timeout against a late block; block counter kept twice; a new download over a finished one | only a whole and verified image is marked; other regions are untouched; it ends |
| UDS data identifiers (`uds_did.c`) | a table | read, write | – | conditions on session and level are applied |
| Parameter storage (`canopen_reference_storage.c`) | two flash slots | store, restore | power loss between erase, program and magic; sequence wrap | after a crash the last stored image, or the one before |
| CiA 302 NMT master (`cia302_nmt_master.c`, `canopen_reference_cia302.c`) | nodes, boot time, ready flag | configure, start, receive, process, request | heartbeat flag between interrupt and CO_process; timeout against a late boot-up; a rebuild in the middle of a pass | a lost peer is reported, once; a living one is not; ready and started only when heard |
| CiA 402 drive (`cia402_reference.c`) | status word, mode display, enable | control word, fault, force disable | TIM7 between the three writes of ForceDisable; failing rebuilds | enabled only in OPERATION_ENABLED; disabled whenever CAN is down |
| Watchdog (`canopen_reference_watchdog.c`) | TIM7 count, last count, start | refresh | TIM7 stopped by rebuilds; a stall of either; the grace time at the wrap | a stall with the drive enabled ends in a reset; a working node is not reset |
| LSS (`canopen_reference_lss.c`), gateway, CiA 418, diagnostics, timing, host ports, tools, generated tables, CANopenNode | see `PROJECT.json` | | | |

How they interact: the lifecycle calls every other component, from the superloop
(CiA 302, CANopen, UDS), from the communication reset (all the initialisations) or
from TIM7 (CiA 401/402, watchdog). The CAN error interrupt talks to the lifecycle
through one flag (`pending`); the CAN receive interrupts through CANopenNode's
buffers (RPDO, NMT command, heartbeat) and through the UDS receive ring. UDS reaches
the lifecycle through its reset flag. TIM7 and UDS compete for transmit mailboxes.

The hazards that follow from this, one line of code each, with the property that
covers each or the reason why none does yet, are in `PROJECT.json` under `hazards`.

## Modules

| Module | Models | Correspondence |
|---|---|---|
| `TickClock` | the tick and its wrapped comparisons | `deadline_expired`, `add_timeout`; 32 bits become `TickMod` values, any even number |
| `CanRecovery` | the recovery policy | one operator per function, on a record |
| `Lifecycle` | superloop, communication reset, interrupts | `pc` is the place the mainline has reached; one action per piece between two points where an interrupt could tell the difference; one action per interrupt handler |
| `LifecycleProofs` | theorems about `Lifecycle` | – |
| `FrameFifo` | abstract: a bounded queue that counts its losses | what both rings promise |
| `FrameRing` | index arithmetic of the rings | `next_index`, full and empty tests, the contents of a ring; the lemmas are in the proof modules of the two rings |
| `UdsCanRx`, `UdsCanRxProofs` | receive interrupt against `uds_stm32_can_rx_pop` | the copy is cut between header and data, where the interrupt may come |
| `UdsCanTx`, `UdsCanTxProofs` | `uds_stm32_can_tx_queue`, `uds_stm32_can_process_tx`, the mailboxes, the TPDOs of TIM7 | the free-mailbox test and the submission are two steps; the bus chooses among mailboxes as bxCAN does |
| `IsoTpFrames` | the four frame types | payloads are sequences of bytes, frames records |
| `IsoTpTx`, `IsoTpRx` | the two contexts of `isotp.c` | one operator per way out of each function; `tx` and `rx` are the two structures |
| `MessageTransfer` | abstract: whole messages over an unreliable line | what the transport promises |
| `IsoTpLink`, `MCIsoTpLink`, `IsoTpLinkProofs` | both ends over a line with faults | each end is driven as `CANopenReference_UDS_Process` drives it: frames, next, ticks, once a millisecond |
| `UdsRuntime`, `MCUdsRuntime` | the pass of `CANopenReference_UDS_Process` | ring to ISO-TP by identifier, complete requests to the server, responses back |
| `PersistentRegister` | abstract: a register that survives power losses | what 1010h promises |
| `Storage`, `MCStorage` | the two flash slots of `canopen_reference_storage.c` | a store is cut at the erase and at every word, in the order the code programs them; a power loss is an action of its own |
| `StorageProofs` | theorems about `Storage` | – |
| `UdsDownload` | `uds_download.c` | one action per way through each function, on a record and the flash it acts on |
| `UdsSecurity` | `uds_security_provider.c` | the same, on the provider's attempts, deadline and seed |
| `UdsServer`, `MCUdsServer` | `uds.c` with the callbacks of `canopen_reference_uds.c` | one action per service that changes state, `OtherRequest` for everything else that keeps the session alive; `PassStart` is the two ticks at the head of the pass |
| `UdsServerProofs` | theorems about `UdsServer` | – |
| `Cia302Master` | `cia302_nmt_master.c` | one operator per function, and one for each decision of `process` |
| `PeerSupervision`, `PeerSupervisionProofs` | `canopen_reference_cia302.c` in the pass of `canopen_app_process` | `pc` is the next call of the pass; heartbeats come in between; a recovery, complete or not, leaves the pass to go on with the tick it sampled before, a reset ends it; `latched` is the guard at the head of the pass, the safe fault or no CO |
| `Cia402Drive` | `cia402_reference.c` | `Goes` is the table of transitions, one operator per way out of `Process1ms` |
| `Watchdog` | `canopen_reference_watchdog.c` | one operator per way out of `Process`; that the TIM7 count moved is one bit |
| `DriveNode`, `MCDriveNode`, `DriveNodeProofs` | both inside the lifecycle | the lifecycle of `Lifecycle` cut to what drive and watchdog see, with milliseconds and the writes of ForceDisable apart |

What composes what: `Lifecycle` has `CanRecovery`; `UdsCanRx` and `UdsCanTx` have
`FrameRing` and implement `FrameFifo`; `IsoTpLink` has `IsoTpTx` and `IsoTpRx` and
implements `MessageTransfer`; `UdsRuntime` has the same two; `Storage` implements
`PersistentRegister`; `UdsServer` has `UdsSecurity` and `UdsDownload`;
`PeerSupervision` has `Cia302Master`; `DriveNode` has `Cia402Drive` and `Watchdog`.

What is external: the tick, flash cells whose erase or programming is interrupted, the CAN receive interrupts of CANopenNode (which only
leave a command behind), bxCAN's choice among its mailboxes, and arbitration. They
are modelled from how the code uses them and marked so in the map.

Abstractions, beyond the bounds: the object dictionary is one output command, on or
off; the nine failing calls of the communication reset fail at two points (before
and after the received commands are rebuilt); CANopen's own processing takes a
received command and may write the output; a frame in the rings is a model value
with a header and a body; ISO-TP frames carry 2, 1 and 2 bytes instead of 7, 6
and 7. Counters nothing reads are left out. `HAL_CAN_AddTxMessage` is one step.
The stored parameters are two words, enough for an image that is half old and half
new; magic, version and length read as what a valid slot has, erased, or torn; the CRC
of a payload is the payload, that is, no two payloads share one. A word whose
programming is interrupted is unchanged, written, or torn (for the sequence number,
which the CRC does not cover: any number). An erase that is interrupted leaves each
word as it was or erased. The interval between stores is not limited, as configured
by default.

In `UdsServer` memory is counted in units of the program alignment; data that is not
a whole number of units is the empty block, and an address or length that is not is among
the requests that `DlBeginRefused` stands for. The CRC32 of data is the
data. That a key is right, that an erase or a program fails, and that `verify_image`
agrees are choices. The callbacks of the download are the product's: the reference
passes none (`canopen_reference_uds.c:322`) and so refuses every download; the model
is of the download a product gets by supplying them, and of a product superloop that
polls the erase, with an `erase_start` that leaves the flash alone when it fails (the
mark of an image stays in that case, `uds_download.c:79-82`, and would outlive it
otherwise). In `PeerSupervision` there is the one peer that the application
configures; a rebuild fails before or after `Cia302_Init` starts the master, and
every attempt of a recovery may be the last. In `DriveNode` every millisecond gives
the superloop and TIM7 their turn unless one of them has stalled; a stop of TIM7 for a
rebuild that succeeds costs no tick (a rebuild is much shorter than a millisecond);
hardware fault and interlock are one input; a mode is supported or not.

## Runs

| Run | Question | Instance |
|---|---|---|
| `lifecycle` | Is the node always safe, served, or on its way to one of them, whatever interrupts and failures come; does a recovery conclude? | tick of 8 values, wait 2, two attempts, mainline at most 2 ticks late |
| `lifecycle_elapsed` | Is the elapsed time given to CO_process ever wrapped? (yes: finding) | same |
| `lifecycle_latch` | Is the safe fault left without a hardware reset? (yes: finding) | same |
| `uds_can_rx` | Does the receive ring implement `FrameFifo` with the interrupt inside the copy; is a full ring drained? | 2 frames, 4 slots, budget 2 |
| `uds_can_tx` | Does the transmit ring implement `FrameFifo` although TIM7 takes mailboxes between the test and the submission? | 3 slots, 2 mailboxes, budget 2 |
| `uds_can_tx_order` | Does the bus see the frames in the order submitted? (no: finding) | same |
| `isotp_link` | Do messages arrive whole or not at all; are blocks honoured; does a faultless transfer succeed; does every transfer end? | tick of 6 values, payloads of 2, 3 and 6 bytes, blocks of 2, 3 sequence numbers, 2 messages, 2 faults |
| `storage` | Does storage implement `PersistentRegister` with a power loss or a failure in any step? | 2 values of a word, 4 stores, 16 sequence numbers |
| `uds_server` | Do sessions, block counters, lock-outs, marks of images and protected memory hold together over any sequence of requests and passes? | tick of 8 values, S3, lock-out and download times of 2, passes 1 or 2 late, 2 attempts, block counters modulo 2, 8 units of memory, two builds |
| `peer_supervision` | Is a lost peer found out once, a living one never, and readiness earned, with heartbeats between any two calls, recoveries, resets, their failures and the latch? | tick of 8 values, heartbeat timeout 2, boot time 3, lag 2, a boot-up, a state and an invalid byte |
| `drive` | Is the drive enabled only where it may be, and does the watchdog answer a stall and nothing else? | watchdog 4, grace 2, wait 2, two attempts, one wrap in a stall, any number before |
| `uds_runtime_flow_control` | Does a response go on once the tester has answered its first frame? (no: finding) | 4 tester frames, budget 2 |

Why the bounds are enough. The tick wraps several times in every run, as no action
stops at its last value, and the waits are long enough to be interrupted and short
enough to be compared (less than half the range, which the assumptions of the
modules demand). Two attempts give a failed attempt that is retried and one that is
the last. `MaxLag` 2 lets the tick move once between reading it and using it, and
once more. The rings are small enough to be full, empty and wrapped, with a budget
below their length. In `isotp_link` a payload of one frame, of a first and one
consecutive frame, and of a first and three consecutive frames (so that a block ends
inside the message and the sequence number wraps) are sent, the second of two
messages possibly over an unfinished first; two faults are lost frames, foreign flow
controls (wait, refusal, reserved values), foreign first frames. Two faults also hold
a lost frame with a wait frame, or two losses in one transfer. Counters
that only grow are taken modulo 2. A message starts on a quiet line: frames carry no
name of their message, and a stale flow control is accepted by the code (listed as a
hazard without a property). In `storage` four stores let each slot be rewritten after
an interrupted store of the other; sixteen sequence numbers keep four of them below
half the range, as the 10 000 erase cycles of a flash sector keep 32 bits, so the
comparison meets the wrap only where an erased word reads as the last number.

In `uds_server` the tick has four times the S3 time, so it wraps within three requests;
a pass may be as late as the S3 time itself. The S3, lock-out and download times are
equal, as the first and the last are in the code (5000 ms): with equal times an S3
expiry never finds a download still receiving that a request kept alive, so the case
that would tear the two block counters apart does not arise, and `CountersAgree` rests
on the invariant that says so for every combination of times. The memory has the two
staging units between the application and the diagnostic storage, with units of nobody
at the end, so that an image can be in, across and past every boundary; both
builds have the session control, one with the security and reset services and one with
the download, which share no state but the session. In `peer_supervision` the silences counted reach past both timeouts by two lags, and
the properties hold the exact bound. In `drive` a stall is answered within a grace time
and the watchdog's time, and within as much again for every wrap of the tick during the
stall. For a stall without a wrap this is exact: one millisecond less is violated by a
stall that begins where the grace time does. Wraps are 49 days apart, so no real stall sees more than one,
and `MaxWraps` is 1; the theorem is for any number. (A bound of twice the watchdog's
time and one grace time holds with the grace time of this run, but not with one near the
watchdog's time: a stall that begins in the grace time and meets a wrap has two of each.)

The findings. Each violation run checks one sentence of the documentation against
the code; `PROJECT.json` quotes the sentence and names the lines:

1. A recovery that outlasts the millisecond it began in makes the next elapsed time
   wrap: CO_process is told that some 71.6 minutes went by, the range of its 32-bit
   microseconds (`lifecycle_elapsed`).
2. A reset command received before the fault latched is still executed, and brings a
   latched node back to RUNNING with its attempts cleared (`lifecycle_latch`).
3. Consecutive frames may leave the controller out of order, as equal identifiers are
   sent by mailbox number (`uds_can_tx_order`).
4. A flow control under the documented identifier is ignored, so every segmented
   response times out (`uds_runtime_flow_control`).

Behaviour that no document contradicts outright, or that needs no run to see, and that a
maintainer should know of:

- Bus-off reports closer together than the wait postpone the recovery as long as they
  come (`canopen_reference_can_recovery.c:26`); `RecoveryConcludes` says so in its
  condition.
- A TIM7 interrupt between the three writes of `Cia402Reference_ForceDisable`, at the
  head of a rebuild (`CO_app_STM32_reference.c:288`, CAN still normal and TIM7 running),
  enables the power stage again and leaves it so until `Cia402Reference_Init`;
  `EnableIsAccounted` names that window. A fault reset is taken by the level of its bit
  (`cia402_reference.c:104`): with 0x8F held, the drive runs again 3 ms after the
  interlock has closed.
- A latched safe fault, and a failed recovery attempt, leave TIM7 stopped, so that with
  the watchdog enabled the chip is reset before the attempts of the recovery are used up
  (`canopen_reference_watchdog.c:93`). The grace time begins again at each wrap of the
  tick (:87).
- A heartbeat between PreProcess and CO_process never reaches the master
  (`canopen_reference_cia302.c:160`), and after a rebuild the rest of the pass uses a
  tick from before it: either can report a living peer as lost. `TimeoutIsTrue` has
  exactly these two exceptions. A rebuild that fails after `Cia302_Init`
  (`CO_app_STM32_reference.c:336-357`) leaves the master running, as
  `CANopenReference_FailRuntime` does not stop it; if this was the last attempt, or a
  reset, no later pass gets beyond :374, so that whatever the master last said of the
  peer stays, a peer that never comes up is not reported, and only a restart of the
  chip ends it. `LossIsDetected` and `AbsentPeerReported` except the
  latched node for this. A START that could not be sent is not sent again
  (`cia302_nmt_master.c:178`), and BOOT_TIMEOUT is also reported for a peer lost after a
  complete boot.
- The server ticks before it hands over the frames that have arrived
  (`canopen_reference_uds.c:362`), so a TesterPresent that waits in the ring through a
  late pass does not save the session. The end of a session leaves the DTC setting as it
  was. A block sent again after its response was lost is refused. TransferExit without a
  parameter is always refused (`canopen_reference_uds.c:236`). A provider that was never
  locked reads as locked in half of the tick's range. A communication reset clears a
  lock-out. `range_inside` accepts an address past the region's end, by the wrap of its
  difference (`uds_download.c:17`); the overlap tests are what keeps the protected
  regions safe. Whether a session or a level is needed for a download is left to the
  product's callback.
- The models take TIM7 to tick every millisecond. `main.c:26-34` sets a prescaler of
  108000 - 1, which a 16-bit register does not hold, and an auto-reload value of 0, with
  which the counter of a basic timer stands still.

## Fairness

- `Lifecycle`: weak fairness of the mainline, because the superloop never blocks
  (its only endless loop, `Error_Handler`, is the state `halted`), and of SysTick,
  which nothing stops. Nothing obliges the bus: no fairness of receive, TIM7 or
  error interrupts. `RecoveryConcludes` needs no more, under the condition that
  bus-off reports end.
- `UdsCanRx`, `UdsCanTx`: weak fairness of the mainline pass, for the same reason. The
  bus has none: a mailbox may stay occupied for ever, and nothing is promised
  about it.
- `UdsServer`: weak fairness of `PassStart` and of `Restart`, because the superloop never
  blocks and takes the reset it was asked for. Neither the tester nor the product's
  polling of the erase is obliged to do anything.
- `PeerSupervision` and `DriveNode` state no liveness: what must happen there must happen
  within a time, and `LossIsDetected`, `AbsentPeerReported` and `StallEndsEnable` state
  it as a safety property of counted milliseconds.
- `IsoTpLink`: weak fairness of both ends' passes and of the clock.

Deadlock is checked in every run that can be expected to go on; a node in
`Error_Handler` stutters explicitly.

## Proofs

`LifecycleProofs` proves, for every tick range, wait, number of attempts and lag,
the type invariant, `SafeFaultIsSafe`, `RunningIsServed`, `NoLimbo`,
`AttemptsBounded` and `RestartsClean`. The assumptions are the named ones of
`TickClock`, `CanRecovery` and `Lifecycle`: an even tick range, a positive wait below
half of it, at least one attempt. All follow from one inductive invariant,
`LifecycleInv`. The properties are not inductive: that the node is served when it
says RUNNING depends on how far a communication reset has come, so `ResetProgress`
states what each point of it has established (CAN down from `rc_build`, commands gone
from `rc_profiles`, outputs off from `rc_timer`, TIM7 running from `rc_normal`); that
a latched node stays safe depends on no reset running while latched (`ResetShape`,
which also ties `attemptActive` to the caller); and `NoLimbo`, which speaks of one
point of the superloop, is carried through the pass by `PassShape`. The step lemma
has one case per action.

`UdsCanRxProofs` proves that the receive ring implements `FrameFifo`. Its lemmas about
the ring say, for every capacity, that putting at the head and advancing the tail are
appending to and taking the head of its contents; `UdsCanTxProofs` has the same ones. The
invariant says of the copy in progress that what has been copied is still what the
slot holds, because the interrupt never writes the slot at the tail: the full test
leaves that slot alone. `UdsCanTxProofs` does the same for the transmit ring; the steps
that matter are a submission, which takes the head only if the mailbox was really free,
and a refusal, which leaves it.

`IsoTpLinkProofs` proves every safety property of `IsoTpLink`, for every set of payloads,
sizes of frames, block size, separation time, timeouts and clock, and for any number of
messages and faults. `HonoursBlockSize` rests on `Credit`: a transmitter that may
proceed has been granted the rest of its block, and so has every flow control that is
still on the line.

`DeliversWhatWasSent`, the refinement of `MessageTransfer`, is the argument that a
receiver which sees only the number of a frame modulo 16 cannot mistake one frame for
another. `TransferInv` says that while the receiver is in a transfer either nothing of
the message can come any more (`Quiet`) or the line is `Aligned`: what the receiver has
is a prefix of the payload, and each consecutive frame on the line carries the piece
that lies `d` pieces ahead of the one it expects, with distances that grow along the
line, that losses leave as they are and that stay within the block. In a block of at
most as many frames as there are numbers, only the frame at distance 0 has the number
expected. That is the hypothesis `ShortBlocks`; the firmware has 8 and 16
(`canopen_reference_uds.c:19`). Without it, sixteen frames lost in a row and a
seventeenth would be taken for the first (`isotp.c:140`), so it is needed. `Beginning`
says that at most one frame on the line begins a message, and that with it there nothing
else of its message is on the way.

`FaultlessTransferSucceeds` is a property in time: `Smooth` follows the one message
through its phases (a single frame out, a first frame out, a flow control asked for,
consecutive frames going on, the last one out) and bounds in each how long either end
has been waiting, by the stage of its pass. Its hypothesis `Timely` is that the
separation time, or the millisecond of a pass if that is longer, is shorter than both
timeouts; a longer separation time does run the receiver into its timeout (the firmware
asks for none, and no separation time is above 127 ms, against timeouts of 1000 ms). Both hypotheses hold in the run.

`StorageProofs` proves that storage implements `PersistentRegister`, for every set of
words, range of sequence numbers and number of stores below half that range. That a
store is atomic is not inductive: the next power-up finds the old parameters because
the erase went to the other slot, and it went there because the sequence numbers told
the slots apart when the store began. So the invariant names the slot in use
(`Current`): it is valid, its number is one the stores so far account for, and a valid
other slot has a smaller one or the erased one. `StoreInv` ties the target and the
image to it while the store lasts, and says which words are written already and that
the magic word is not. The lemmas treat the three ways a slot can change: part of an
erase, a word before the last, and the last word. The assumptions: a mark of a word is
no part of a payload, and the stores stay below half the range of the numbers.

`UdsServerProofs` proves every safety property of `UdsServer`, for every tick range,
memory map, set of regions and combination of times below half the range. The deadlines
are tick values whose comparison is right only near them, so `SessionClock` and
`LockClock` tie each to a count of the milliseconds that have really passed: the last
request lies exactly as far back as the tester has been quiet. The lemmas of the first
part say what adding and comparing do within half the range. `DlInv` says that the image
lies inside the memory, overlaps nothing protected, and that what was received is in
the flash; it is what carries `PendingImageIsWhole` and `ProtectedUntouched`. `Tied`
carries the block counters and the CRC.

`PeerSupervisionProofs` proves every property of `PeerSupervision`, for every tick range,
timeout, boot time and lag. `TimeoutOnce` and `ReadinessEarned` follow from two facts:
the report of a loss and the state TIMED_OUT go together (`ReportedIsTimedOut`), and the
master knows no state of a peer it has not heard (`KnownIsHeard`). The properties in time
compare the peer's real silence with what the master measures, from a tick sampled
earlier, so none is inductive. `TimedInv` reads all clocks now: `HbClock` and `BootClock`
say that the silence outruns the master's clock by at most a lag and that this clock is
within the timeout as of the last judgement, or that the master was started less than
two passes ago; `Pending`, that a heartbeat waiting for the
master is at most a pass old; `Truth`, that the master's clock outruns the silence by at
most a lag unless a heartbeat was not received or came after `CO_process`. A rebuild may
start the master after the tick of the pass was sampled, where the difference wraps;
`TimeBetween` computes it, and the last disjunct of `HbClock` says that only the start
can lie there. `Restarted` is about a master that no pass has judged yet, after a reset
or between `Cia302_Init` and the end of a rebuild. All this is the invariant `Clocks`. A
rebuild that fails for good leads out of it to `Dead`, a latched node between passes,
where the clocks run on unjudged and which no action leaves (`DeadStays`): `TimedInv` is
either of the two, and the properties speak of the first. The assumption,
`TimingAssumption`, is that neither time and two lags, nor three lags, fill the range of
the tick; the firmware's times are 1.5 s and 10 s in a range of 49 days, and a lag is as
long as the slowest pass.
There is one lemma for each action.

`DriveNodeProofs` proves `EnableIsAccounted`, `DownIsDisabled`, `StartsDisabled`,
`StallEndsEnable` and `OnlyStallsBite`. `RebuildProgress` says what each place of a
rebuild has done to the drive and `AttemptsLeft` that a rebuild has an attempt to fail; `Fed`, an invariant of its
own, says that while nothing has stalled and no rebuild has failed the watchdog is at
most two milliseconds short: a tick of TIM7 after the superloop's turn counts in the
next one. It needs a watchdog time above 2, which is its assumption. `Supervised` carries
`StallEndsEnable`: what has passed of a stall and what is left of it (`StallLeft`: to the
end of the grace time and the watchdog's time from there, or one refresh more, or what
the watchdog has left) never exceed the bound; a pass adds nothing, a millisecond moves
one over, and a wrap adds what the bound has for it.

Only model-checked: the liveness properties (`RecoveryConcludes`, `FullIsDrained`,
`TransferEnds`, `ReceivingEnds`), which TLAPS cannot prove under fairness. Every other
property of a passing run is a theorem. No module uses RECURSIVE operators.

## Not modelled

Most of the lines of this repository are not control flow. Of some 20 000 lines of
implementation about 12 300 are generated object dictionaries and 4 000 are Python tools
around the firmware; the C code of the project itself is some 3 600 lines, of which
some 2 200 have a definition here. No model of tables or generators would say anything
about the system, so the share of lines that the models stand for stays low by nature.

Of the project's own C code, left out are: the data identifiers (a constant table); LSS,
the gateway, CiA 418, diagnostics and timing, which keep no state that a decision depends
on, or only forward calls to CANopenNode; the RAM back end of storage and its board
override; the host CAN ports, which the firmware does not link; and the vendored stack,
an empty submodule, of which only the behaviour at the calls is modelled. Timing in the
sense of cycles and deadlines of TIM7, electrical behaviour, and the values of process
data are out of scope.

## Plan

The order was: lifecycle and recovery, because a node that is unsafe after a failed reset
is worse than any protocol error; the queues between interrupt and mainline; the
transport; the pass above it; the storage of parameters; the diagnostic server with its
provider and download; the supervision of a peer; the drive with the watchdog; and with
each its proofs. What is left: `UdsRuntime` over the capacity of the transmit ring, with
`UdsServer` above it: a dropped consecutive frame, and the ECU reset that may overtake its response.
