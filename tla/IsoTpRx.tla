------------------------------ MODULE IsoTpRx ------------------------------
(***************************************************************************)
(* The ISO-TP receiver of isotp.c: one record, and one action for each way *)
(* through isotp_rx_feed and isotp_rx_tick, saying what becomes of the     *)
(* record.                                                                 *)
(***************************************************************************)
EXTENDS IsoTpFrames

CONSTANTS
  BlockSize,    \* config.block_size, 0 for no limit
  StMin,        \* config.st_min
  RxTimeoutMs   \* config.rx_timeout_ms

ASSUME RxAssumption ==
  /\ BlockSize \in Nat /\ StMin \in StMins
  /\ RxTimeoutMs \in Nat \ {0} /\ RxTimeoutMs < TickMod \div 2

VARIABLE rx

\* isotp_rx_reset.  `buffer' holds the bytes received, its length is
\* received_len.
RxIdle == [buffer |-> <<>>, expected |-> 0, sequence |-> 1, block |-> 0,
           deadline |-> 0, active |-> FALSE]

RxReset == rx' = RxIdle

RxFlowControl == FlowControl("CTS", BlockSize, StMin)

-----------------------------------------------------------------------------
(* isotp_rx_feed *)

\* A single frame ends whatever was in progress, and is a payload itself.
RxFeedSingle(frame) == frame.type = "SF" /\ RxReset

\* Mutant of RxFeedFirst: the bytes of an unfinished message are kept.
RxFeedFirstAppends(frame, now) ==
  /\ frame.type = "FF" /\ frame.length \in SfBytes + 1 .. MaxPayload
  /\ rx' = [rx EXCEPT !.buffer = @ \o frame.data, !.expected = frame.length,
                      !.sequence = 1, !.block = 0,
                      !.deadline = After(now, RxTimeoutMs), !.active = TRUE]

\* A first frame starts a message, and asks for a flow control.
RxFeedFirst(frame, now) ==
  /\ frame.type = "FF" /\ frame.length \in SfBytes + 1 .. MaxPayload
  /\ rx' = [buffer |-> SubSeq(frame.data, 1, AtMost(Len(frame.data), frame.length)),
            expected |-> frame.length, sequence |-> 1, block |-> 0,
            deadline |-> After(now, RxTimeoutMs), active |-> TRUE]

RxFeedBadLength(frame) ==
  /\ frame.type = "FF" /\ frame.length \notin SfBytes + 1 .. MaxPayload
  /\ RxReset

\* Flow controls are not for a receiver, nor is a consecutive frame when no
\* message is in progress.
RxFeedUnexpected(frame) ==
  /\ frame.type = "FC" \/ (frame.type = "CF" /\ ~rx.active)
  /\ UNCHANGED rx

RxInSequence(frame) == frame.type = "CF" /\ rx.active /\ frame.sequence = rx.sequence

RxFeedOutOfSequence(frame) ==
  /\ frame.type = "CF" /\ rx.active /\ frame.sequence # rx.sequence
  /\ RxReset

\* The buffer once the frame is copied.
RxFilled(frame) ==
  rx.buffer \o SubSeq(frame.data, 1, AtMost(Len(frame.data), rx.expected - Len(rx.buffer)))

RxCompletes(frame) == RxInSequence(frame) /\ Len(RxFilled(frame)) >= rx.expected

RxBlockEnds == BlockSize # 0 /\ rx.block + 1 >= BlockSize

\* Mutant of RxFeedConsecutive: the deadline is still the first frame's.
RxFeedConsecutiveKeepsDeadline(frame, now) ==
  /\ RxInSequence(frame)
  /\ rx' = [rx EXCEPT !.buffer = RxFilled(frame),
                      !.sequence = (@ + 1) % SeqMod,
                      !.block = IF RxBlockEnds /\ ~RxCompletes(frame) THEN 0 ELSE @ + 1,
                      !.active = ~RxCompletes(frame)]

\* ... the message is complete, or a block is and asks for a flow control, or
\* neither.
RxFeedConsecutive(frame, now) ==
  /\ RxInSequence(frame)
  /\ rx' = [rx EXCEPT !.buffer = RxFilled(frame),
                      !.sequence = (@ + 1) % SeqMod,
                      !.block = IF RxBlockEnds /\ ~RxCompletes(frame) THEN 0 ELSE @ + 1,
                      !.deadline = After(now, RxTimeoutMs),
                      !.active = ~RxCompletes(frame)]

RxWantsFlowControl(frame) ==
  \/ frame.type = "FF" /\ frame.length \in SfBytes + 1 .. MaxPayload
  \/ RxInSequence(frame) /\ ~RxCompletes(frame) /\ RxBlockEnds

-----------------------------------------------------------------------------
(* isotp_rx_tick *)

\* Mutant of RxExpired: a receiver that has asked for the next block does not
\* time out.
RxExpiredWithinBlock(now) == rx.active /\ rx.block # 0 /\ Expired(now, rx.deadline)

RxExpired(now) == rx.active /\ Expired(now, rx.deadline)

RxTickTimeout(now) == RxExpired(now) /\ RxReset

RxTickNothing(now) == ~RxExpired(now) /\ UNCHANGED rx
=============================================================================
