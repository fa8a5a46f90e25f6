----------------------------- MODULE IsoTpLink -----------------------------
(***************************************************************************)
(* An ISO-TP transmitter and receiver (isotp.c) at the two ends of a CAN   *)
(* line, each driven the way CANopenReference_UDS_Process drives its own:  *)
(* once a millisecond, the frames that have arrived, then isotp_tx_next,   *)
(* then the ticks.  The line and the rings in front of it lose frames, and *)
(* the peer may send flow controls and frames of its own making.           *)
(***************************************************************************)
EXTENDS IsoTpTx, IsoTpRx

CONSTANTS
  Payloads,   \* what may be sent
  MaxStarts,  \* bound on messages sent
  MaxFaults   \* bound on lost and foreign frames

ASSUME LinkAssumption ==
  /\ \A p \in Payloads : /\ p \in Seq({p[i] : i \in DOMAIN p})
                          /\ p # <<>> /\ Len(p) <= MaxPayload
  /\ MaxStarts \in Nat /\ MaxFaults \in Nat

VARIABLES
  now,
  fwd, bwd,     \* frames on their way to the receiver, and to the transmitter
  txStage,      \* how far the transmitter's pass of this millisecond is
  rxDone,       \* the receiver's pass of this millisecond is over
  starts, faults,
  offered,      \* the payload under way, <<>> once it is delivered
  delivered,    \* the payload last delivered
  granted,      \* consecutive frames the receiver has asked for and not got
  failed        \* an end has reported an error, and there was no fault

lineVars == <<fwd, bwd>>
stageVars == <<txStage, rxDone>>
boundVars == <<starts, faults>>
messageVars == <<offered, delivered>>
vars == <<tx, rx, now, lineVars, stageVars, boundVars, messageVars, granted, failed>>

Init ==
  /\ tx = TxIdle /\ rx = RxIdle /\ now = 0
  /\ fwd = <<>> /\ bwd = <<>>
  /\ txStage = "feed" /\ rxDone = FALSE
  /\ starts = 0 /\ faults = 0
  /\ offered = <<>> /\ delivered = <<>>
  /\ granted = 0 /\ failed = FALSE

Fault == faults < MaxFaults /\ faults' = faults + 1

ReportError == failed' = (faults = 0)

\* A frame is put on the line, or lost.
Send(frame) == \/ fwd' = Append(fwd, frame) /\ UNCHANGED faults
               \/ Fault /\ UNCHANGED fwd

Answer(frame) == \/ bwd' = Append(bwd, frame) /\ UNCHANGED faults
                 \/ Fault /\ UNCHANGED bwd

-----------------------------------------------------------------------------
(* The transmitter's end *)

\* isotp_tx_start, whether or not either end is in a transfer.  The line is
\* quiet: the frames carry no name of their message, and a flow control that
\* the previous one asked for would be taken for an answer to this one.
Start(payload) ==
  /\ txStage = "feed" /\ fwd = <<>> /\ bwd = <<>> /\ starts < MaxStarts
  /\ starts' = starts + 1
  /\ \/ TxStartSingle(payload) /\ Send(SingleFrame(payload))
     \/ TxStartFirst(payload, now) /\ Send(FirstFrame(payload))
  /\ offered' = payload /\ granted' = 0 /\ failed' = FALSE
  /\ UNCHANGED <<rx, now, bwd, stageVars, delivered>>

\* isotp_tx_feed_flow_control
TxFeed ==
  /\ txStage = "feed" /\ bwd # <<>>
  /\ LET fc == Head(bwd) IN
     \/ TxFeedUnexpected /\ UNCHANGED failed
     \/ TxFeedUnknown(fc) /\ ReportError
     \/ TxFeedAbort(fc) /\ ReportError
     \/ TxFeedWait(fc, now) /\ UNCHANGED failed
     \/ TxFeedContinue(fc, now) /\ UNCHANGED failed
  /\ bwd' = Tail(bwd)
  /\ UNCHANGED <<rx, now, fwd, stageVars, boundVars, messageVars, granted>>

\* isotp_tx_next: a consecutive frame is due ...
TxSend ==
  /\ txStage = "feed" /\ bwd = <<>>
  /\ TxNextSend(now) /\ Send(TxNextFrame)
  /\ granted' = IF granted > 0 THEN granted - 1 ELSE 0
  /\ txStage' = "tick"
  /\ UNCHANGED <<rx, now, bwd, rxDone, starts, messageVars, failed>>

\* ... or none is.
TxNext ==
  /\ txStage = "feed" /\ bwd = <<>>
  /\ \/ TxNextNothing(now) /\ UNCHANGED failed
     \/ TxNextComplete(now) /\ UNCHANGED failed
     \/ TxNextTimeout(now) /\ ReportError
  /\ txStage' = "tick"
  /\ UNCHANGED <<rx, now, lineVars, rxDone, boundVars, messageVars, granted>>

\* isotp_tx_tick
TxTick ==
  /\ txStage = "tick"
  /\ \/ TxTickNothing(now) /\ UNCHANGED failed
     \/ TxTickTimeout(now) /\ ReportError
  /\ txStage' = "done"
  /\ UNCHANGED <<rx, now, lineVars, rxDone, boundVars, messageVars, granted>>

-----------------------------------------------------------------------------
(* The receiver's end *)

Receive == ~rxDone /\ fwd # <<>> /\ fwd' = Tail(fwd)

\* The payload that isotp_rx_feed reports complete is handed over.
Deliver(payload) ==
  /\ delivered' = payload
  /\ offered' = IF payload = offered THEN <<>> ELSE offered

RxSingle ==
  /\ Receive
  /\ LET frame == Head(fwd) IN RxFeedSingle(frame) /\ Deliver(frame.data)
  /\ UNCHANGED <<tx, now, bwd, stageVars, boundVars, granted, failed>>

RxData ==
  /\ Receive
  /\ LET frame == Head(fwd) IN
     /\ RxFeedFirst(frame, now) \/ RxFeedConsecutive(frame, now)
     /\ IF RxCompletes(frame) THEN Deliver(RxFilled(frame)) ELSE UNCHANGED messageVars
     /\ IF RxWantsFlowControl(frame)
        THEN Answer(RxFlowControl) /\ granted' = granted + BlockSize
        ELSE UNCHANGED <<bwd, faults, granted>>
  /\ UNCHANGED <<tx, now, stageVars, starts, failed>>

RxReject ==
  /\ Receive
  /\ LET frame == Head(fwd) IN
     RxFeedBadLength(frame) \/ RxFeedUnexpected(frame) \/ RxFeedOutOfSequence(frame)
  /\ ReportError
  /\ UNCHANGED <<tx, now, bwd, stageVars, boundVars, messageVars, granted>>

\* isotp_rx_tick, when the frames that have arrived are read.
RxTick ==
  /\ ~rxDone /\ fwd = <<>>
  /\ \/ RxTickNothing(now) /\ UNCHANGED failed
     \/ RxTickTimeout(now) /\ ReportError
  /\ rxDone' = TRUE
  /\ UNCHANGED <<tx, now, lineVars, txStage, boundVars, messageVars, granted>>

-----------------------------------------------------------------------------
(* The peer and the clock *)

\* A flow control of the peer's own making: a wait, a refusal, a reserved code.
PeerFlowControl ==
  /\ tx.active /\ Fault
  /\ \E fc \in {FlowControl("WAIT", BlockSize, StMin), FlowControl("OVERFLOW", 0, "none"),
                FlowControl("CTS", BlockSize, "reserved"), FlowControl("other", 0, "none")} :
       bwd' = Append(bwd, fc)
  /\ UNCHANGED <<tx, rx, now, fwd, stageVars, starts, messageVars, granted, failed>>

\* A frame of the peer's own making: a first frame of a message too long, a
\* flow control.
PeerFrame ==
  /\ Fault
  /\ \E frame \in {[type |-> "FF", length |-> MaxPayload + 1, data |-> <<>>], RxFlowControl} :
       fwd' = Append(fwd, frame)
  /\ UNCHANGED <<tx, rx, now, bwd, stageVars, starts, messageVars, granted, failed>>

\* A millisecond passes, in which both ends have made their pass.
Tick ==
  /\ txStage = "done" /\ rxDone
  /\ now' = After(now, 1)
  /\ txStage' = "feed" /\ rxDone' = FALSE
  /\ UNCHANGED <<tx, rx, lineVars, boundVars, messageVars, granted, failed>>

TxPass == TxFeed \/ TxSend \/ TxNext \/ TxTick
RxPass == RxSingle \/ RxData \/ RxReject \/ RxTick

Next ==
  \/ \E p \in Payloads : Start(p)
  \/ TxPass \/ RxPass \/ PeerFlowControl \/ PeerFrame \/ Tick

\* Both superloops run, and time passes.
Spec == Init /\ [][Next]_vars /\ WF_vars(TxPass) /\ WF_vars(RxPass) /\ WF_vars(Tick)

-----------------------------------------------------------------------------
(* What the transport promises *)

TypeOK ==
  /\ now \in Ticks
  /\ tx.sequence \in 0 .. SeqMod - 1 /\ rx.sequence \in 0 .. SeqMod - 1
  /\ {tx.deadline, tx.nextFrame, rx.deadline} \subseteq Ticks
  /\ tx.offset \in 0 .. Len(tx.payload)
  /\ Len(rx.buffer) \in 0 .. rx.expected
  /\ tx.waits \in 0 .. MaxWaitFrames
  /\ txStage \in {"feed", "tick", "done"} /\ rxDone \in BOOLEAN

Transfer == INSTANCE MessageTransfer WITH
  Messages <- Payloads, NoMessage <- <<>>

\* A delivered payload is the one under way, byte for byte, and is delivered
\* once: lost, foreign and late frames, timeouts and overwritten transfers
\* never mix, shorten or repeat messages.
DeliversWhatWasSent == Transfer!Spec

\* The transmitter never sends a consecutive frame the receiver has not asked
\* for.
HonoursBlockSize == [][TxSend => BlockSize = 0 \/ granted > 0]_vars

\* Without a fault no end ever reports an error, and a transfer the
\* transmitter considers complete has been delivered once the line is empty.
FaultlessTransferSucceeds ==
  faults = 0 /\ starts = 1 =>
    ~failed /\ (~tx.active /\ fwd = <<>> => offered = <<>>)

\* Neither end is left in a transfer: it completes or times out.
TransferEnds == /\ tx.active ~> ~tx.active
                /\ rx.active ~> ~rx.active
=============================================================================
