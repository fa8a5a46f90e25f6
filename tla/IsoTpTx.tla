------------------------------ MODULE IsoTpTx ------------------------------
(***************************************************************************)
(* The ISO-TP transmitter of isotp.c: one record, and one action for each  *)
(* way through each function.  The actions say what becomes of the record  *)
(* only; who calls them, with which frames and when, is up to the module   *)
(* that extends this one.                                                  *)
(***************************************************************************)
EXTENDS IsoTpFrames

CONSTANTS
  TxTimeoutMs,   \* config.tx_timeout_ms
  MaxWaitFrames  \* config.max_wait_frames

ASSUME TxAssumption ==
  /\ TxTimeoutMs \in Nat \ {0} /\ TxTimeoutMs < TickMod \div 2
  /\ StMinMs < TickMod \div 2
  /\ MaxWaitFrames \in Nat

VARIABLE tx

\* isotp_tx_reset; the buffer keeps its bytes, which nothing reads any more.
TxIdle ==
  [payload |-> <<>>, offset |-> 0, sequence |-> 1, block |-> 0, blockSize |-> 0,
   stMin |-> "none", deadline |-> 0, nextFrame |-> 0, active |-> FALSE,
   waiting |-> FALSE, waits |-> 0]

TxReset == tx' = TxIdle

-----------------------------------------------------------------------------
(* isotp_tx_start *)

TxStartSingle(payload) ==
  /\ Len(payload) \in 1 .. SfBytes
  /\ TxReset

\* The state of a transfer in progress is overwritten; its announced block
\* size, separation time and count of wait frames are not.
TxStartFirst(payload, now) ==
  /\ Len(payload) \in SfBytes + 1 .. MaxPayload
  /\ tx' = [tx EXCEPT !.payload = payload, !.offset = FfBytes, !.sequence = 1,
                      !.block = 0, !.deadline = After(now, TxTimeoutMs),
                      !.active = TRUE, !.waiting = TRUE]

-----------------------------------------------------------------------------
(* isotp_tx_feed_flow_control *)

TxExpectsFlowControl == tx.active /\ tx.waiting

TxFeedUnexpected == ~TxExpectsFlowControl /\ UNCHANGED tx

\* An unknown flow status is refused, and nothing else happens.
TxFeedUnknown(fc) ==
  /\ TxExpectsFlowControl /\ fc.status \notin {"CTS", "WAIT", "OVERFLOW"}
  /\ UNCHANGED tx

TxFeedAbort(fc) ==
  /\ TxExpectsFlowControl
  /\ \/ fc.status = "OVERFLOW"
     \/ fc.status \in {"CTS", "WAIT"} /\ fc.stMin \notin StMins
     \/ fc.status = "WAIT" /\ tx.waits >= MaxWaitFrames
  /\ TxReset

\* What both kinds of accepted flow control do.
TxHeard(fc, now) ==
  [tx EXCEPT !.blockSize = fc.blockSize, !.stMin = fc.stMin,
             !.deadline = After(now, TxTimeoutMs)]

\* Mutant of TxFeedWait: any number of wait frames.
TxFeedWaitNoLimit(fc, now) ==
  /\ TxExpectsFlowControl /\ fc.status = "WAIT" /\ fc.stMin \in StMins
  /\ tx' = [TxHeard(fc, now) EXCEPT !.waits = @ + 1]

TxFeedWait(fc, now) ==
  /\ TxExpectsFlowControl /\ fc.status = "WAIT" /\ fc.stMin \in StMins
  /\ tx.waits < MaxWaitFrames
  /\ tx' = [TxHeard(fc, now) EXCEPT !.waits = @ + 1]

TxFeedContinue(fc, now) ==
  /\ TxExpectsFlowControl /\ fc.status = "CTS" /\ fc.stMin \in StMins
  /\ tx' = [TxHeard(fc, now) EXCEPT !.waits = 0, !.waiting = FALSE, !.block = 0,
                                    !.nextFrame = now]

-----------------------------------------------------------------------------
(* isotp_tx_next *)

TxExpired(now) == Expired(now, tx.deadline)

TxMayProceed == tx.active /\ ~tx.waiting

TxDue(now) == TxMayProceed /\ ~TxExpired(now) /\ Expired(now, tx.nextFrame)

TxRemaining == Len(tx.payload) - tx.offset

TxNextData == SubSeq(tx.payload, tx.offset + 1, tx.offset + AtMost(TxRemaining, CfBytes))

TxNextFrame == ConsecutiveFrame(tx.sequence, TxNextData)

TxNextNothing(now) ==
  /\ ~TxMayProceed \/ (~TxExpired(now) /\ ~Expired(now, tx.nextFrame))
  /\ UNCHANGED tx

TxNextTimeout(now) == TxMayProceed /\ TxExpired(now) /\ TxReset

\* The frame after the last: the transfer is complete.
TxNextComplete(now) == TxDue(now) /\ TxRemaining <= 0 /\ TxReset

\* Mutant of TxBlockEnds: one frame too many.
TxBlockEndsLate(offset) ==
  tx.blockSize # 0 /\ tx.block + 1 > tx.blockSize /\ offset < Len(tx.payload)

\* The frame about to be sent is the last the receiver has agreed to.
TxBlockEnds(offset) ==
  tx.blockSize # 0 /\ tx.block + 1 >= tx.blockSize /\ offset < Len(tx.payload)

TxNextSend(now) ==
  LET offset == tx.offset + Len(TxNextData) IN
  /\ TxDue(now) /\ TxRemaining > 0
  /\ tx' = [tx EXCEPT !.offset = offset,
                      !.sequence = (@ + 1) % SeqMod,
                      !.deadline = After(now, TxTimeoutMs),
                      !.nextFrame = After(now, StMinToMs(tx.stMin)),
                      !.block = IF TxBlockEnds(offset) THEN 0 ELSE @ + 1,
                      !.waiting = TxBlockEnds(offset)]

-----------------------------------------------------------------------------
(* isotp_tx_tick *)

TxTickTimeout(now) == tx.active /\ TxExpired(now) /\ TxReset

TxTickNothing(now) == (tx.active => ~TxExpired(now)) /\ UNCHANGED tx
=============================================================================
