----------------------------- MODULE UdsRuntime -----------------------------
(***************************************************************************)
(* CANopenReference_UDS_Process (canopen_reference_uds.c): the pass of the *)
(* superloop that moves frames between the CAN queues and the two ISO-TP   *)
(* engines, and requests and responses between those and the diagnostic    *)
(* server.  The server answers as it likes, and its own ticks are not part *)
(* of this module; the queues are the first-in first-out queues that       *)
(* UdsCanRx and UdsCanTx show the rings to be.                             *)
(***************************************************************************)
EXTENDS IsoTpTx, IsoTpRx

CONSTANTS
  RxBudget,   \* UDS_STM32_RX_BUDGET_PER_CALL
  Responses,  \* what the server may answer, never empty nor above MaxPayload
  MaxFrames   \* bound on frames of the tester

\* The identifiers of the two directions: UDS_RX_CAN_ID and UDS_TX_CAN_ID.
Ids == {"0x7E0", "0x7E8"}
RxId == "0x7E0"
TxId == "0x7E8"

\* The identifier the transmitter takes flow controls from: the second to last
\* argument of isotp_tx_init.
TxRequestId == RxId

VARIABLES
  now,
  ring,      \* frames the interrupt has put into the receive ring
  stage,     \* where in the pass the superloop is
  budget,    \* frames this pass may still read
  sent,      \* frames of the tester so far
  asked,     \* a first frame has been sent, which the tester is to answer
  answered   \* the pass has read that answer

vars == <<tx, rx, now, ring, stage, budget, sent, asked, answered>>

Init ==
  /\ tx = TxIdle /\ rx = RxIdle /\ now = 0
  /\ ring = <<>> /\ stage = "idle" /\ budget = 0
  /\ sent = 0 /\ asked = FALSE /\ answered = FALSE

-----------------------------------------------------------------------------
(* The tester *)

Arrives(id, frame) ==
  /\ sent < MaxFrames /\ sent' = sent + 1
  /\ ring' = Append(ring, [id |-> id, frame |-> frame])
  /\ UNCHANGED <<tx, rx, now, stage, budget, answered>>

\* A request in one frame, or in two.
TesterRequest ==
  /\ \E frame \in {SingleFrame(<<"q1">>), FirstFrame(<<"q1", "q2", "q3">>),
                   ConsecutiveFrame(1, <<"q2", "q3">>)} : Arrives(RxId, frame)
  /\ UNCHANGED asked

\* The tester answers a first frame, under the identifier that the documents
\* give the ECU's flow-control input.
TesterFlowControl ==
  /\ asked /\ asked' = FALSE
  /\ Arrives(TxId, FlowControl("CTS", 0, "none"))

-----------------------------------------------------------------------------
(* The pass *)

\* A millisecond has passed, and a pass begins.
PassStart ==
  /\ stage = "idle" /\ stage' = "feed" /\ budget' = RxBudget
  /\ now' = After(now, 1)
  /\ UNCHANGED <<tx, rx, ring, sent, asked, answered>>

Pop == /\ stage = "feed" /\ budget > 0 /\ ring # <<>>
       /\ ring' = Tail(ring) /\ budget' = budget - 1

\* uds_server_handle leaves no response, or one that isotp_tx_start takes.
Respond ==
  \/ UNCHANGED <<tx, asked, answered>>
  \/ \E r \in Responses :
       /\ TxStartSingle(r) \/ TxStartFirst(r, now)
       /\ asked' = (Len(r) > SfBytes) /\ answered' = FALSE

\* A frame of the request direction: isotp_rx_feed, and the server if that
\* completes a request.
FeedRequest ==
  /\ Pop /\ Head(ring).id = RxId
  /\ LET frame == Head(ring).frame IN
     /\ \/ RxFeedSingle(frame) \/ RxFeedFirst(frame, now) \/ RxFeedConsecutive(frame, now)
        \/ RxFeedBadLength(frame) \/ RxFeedUnexpected(frame) \/ RxFeedOutOfSequence(frame)
     /\ IF frame.type = "SF" \/ RxCompletes(frame)
        THEN Respond ELSE UNCHANGED <<tx, asked, answered>>
  /\ UNCHANGED <<now, stage, sent>>

\* isotp_tx_feed_flow_control looks at its own identifier first.
FeedFlowControl ==
  /\ Pop /\ Head(ring).id = TxId
  /\ LET fc == Head(ring).frame IN
     /\ IF Head(ring).id # TxRequestId THEN UNCHANGED tx
        ELSE \/ TxFeedUnexpected \/ TxFeedUnknown(fc) \/ TxFeedAbort(fc)
             \/ TxFeedWait(fc, now) \/ TxFeedContinue(fc, now)
     /\ answered' = (TxExpectsFlowControl /\ fc.status = "CTS")
  /\ UNCHANGED <<rx, now, stage, sent, asked>>

\* isotp_tx_next, when there is no frame left or the budget is spent.
PassNext ==
  /\ stage = "feed" /\ (budget = 0 \/ ring = <<>>) /\ stage' = "tick"
  /\ TxNextNothing(now) \/ TxNextTimeout(now) \/ TxNextComplete(now) \/ TxNextSend(now)
  /\ UNCHANGED <<rx, now, ring, budget, sent, asked, answered>>

\* isotp_rx_tick and isotp_tx_tick.
PassTick ==
  /\ stage = "tick" /\ stage' = "idle"
  /\ RxTickTimeout(now) \/ RxTickNothing(now)
  /\ TxTickTimeout(now) \/ TxTickNothing(now)
  /\ UNCHANGED <<now, ring, budget, sent, asked, answered>>

Next == \/ TesterRequest \/ TesterFlowControl
        \/ PassStart \/ FeedRequest \/ FeedFlowControl \/ PassNext \/ PassTick

Spec == Init /\ [][Next]_vars

-----------------------------------------------------------------------------
\* A response that the tester has allowed to go on is not given up for want of
\* a flow control (docs/11_uds_iso_tp.md: the ECU "waits for flow control from
\* the tester", under the identifier of its flow-control input).
AnsweredResponseGoesOn == [][tx.waiting /\ PassTick /\ TxExpired(now) => ~answered]_vars
=============================================================================
