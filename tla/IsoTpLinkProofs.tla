-------------------------- MODULE IsoTpLinkProofs --------------------------
(***************************************************************************)
(* What IsoTpLink guarantees for every set of payloads, every frame size,  *)
(* block size, separation time, timeout and clock, and any number of       *)
(* messages and of faults.                                                 *)
(*                                                                         *)
(*   - The types (Typing).                                                 *)
(*   - The block size is honoured: Credit says that a transmitter that may *)
(*     proceed has a grant for the rest of its block.                      *)
(*   - The link implements MessageTransfer, if a block has no more frames  *)
(*     than there are numbers for them (ShortBlocks; without it sixteen    *)
(*     frames lost in a row go unnoticed).  TransferInv measures how far   *)
(*     each consecutive frame on the line is ahead of the one the receiver *)
(*     expects: within a block all of these distances differ, so the       *)
(*     number tells which frame it is.                                     *)
(*   - Without a fault a transfer succeeds, if the separation time is      *)
(*     shorter than the timeouts (Timely).  Smooth follows the one message *)
(*     from its first frame to its last, and bounds the time each end has  *)
(*     been waiting at each point of its pass.                             *)
(***************************************************************************)
EXTENDS IsoTpLink, SequenceTheorems, TLAPS

\* The bytes of the payloads.
Bytes == UNION {{p[i] : i \in DOMAIN p} : p \in Payloads}

\* The flow controls, the reserved separation time included.
Controls ==
  [type : {"FC"}, status : {"CTS", "WAIT", "OVERFLOW", "other"}, blockSize : Nat,
   stMin : StMins \cup {"reserved"}]

\* Everything that can be on the line.
Frames ==
  [type : {"SF"}, data : Seq(Bytes)]
    \cup [type : {"FF"}, length : Nat, data : Seq(Bytes)]
    \cup [type : {"CF"}, sequence : 0 .. SeqMod - 1, data : Seq(Bytes)]
    \cup Controls

\* A payload, or none.
Messages == Payloads \cup {<<>>}

\* The records of the two ends, and what relates their fields.
TxStates ==
  [payload : Messages, offset : Nat, sequence : 0 .. SeqMod - 1, block : Nat,
   blockSize : Nat, stMin : StMins, deadline : Ticks, nextFrame : Ticks,
   active : BOOLEAN, waiting : BOOLEAN, waits : 0 .. MaxWaitFrames]

RxStates ==
  [buffer : Seq(Bytes), expected : Nat, sequence : 0 .. SeqMod - 1, block : Nat,
   deadline : Ticks, active : BOOLEAN]

TxTyping == tx \in TxStates /\ tx.offset <= Len(tx.payload)

RxTyping == rx \in RxStates /\ Len(rx.buffer) <= rx.expected

\* The types: more than TypeOK, as the payloads and frames have theirs.
Typing ==
  /\ TxTyping /\ RxTyping
  /\ now \in Ticks
  /\ fwd \in Seq(Frames) /\ bwd \in Seq(Controls)
  /\ txStage \in {"feed", "tick", "done"} /\ rxDone \in BOOLEAN
  /\ offered \in Messages
  /\ granted \in Nat /\ faults \in Nat /\ starts \in Nat

-----------------------------------------------------------------------------
(* Payloads and pieces of them *)

\* What the assumptions say of the constants, in one place.
LEMMA Constants ==
  /\ SfBytes \in Nat \ {0} /\ FfBytes \in Nat \ {0} /\ CfBytes \in Nat \ {0}
  /\ MaxPayload \in Nat \ {0} /\ SeqMod \in Nat /\ SeqMod > 1
  /\ FfBytes <= SfBytes /\ SfBytes < MaxPayload
  /\ BlockSize \in Nat /\ StMin \in StMins /\ MaxWaitFrames \in Nat
  /\ TxTimeoutMs \in Nat /\ RxTimeoutMs \in Nat /\ StMinMs \in Nat
  /\ TickMod \in Nat \ {0}
BY FramesAssumption, RxAssumption, TxAssumption, StMinAssumption, TickModAssumption

\* A message is a sequence of bytes, at most MaxPayload of them.
LEMMA MessagesAreData ==
  ASSUME NEW m \in Messages
  PROVE  /\ m \in Seq(Bytes) /\ Len(m) \in Nat
         /\ m # <<>> => Len(m) \in 1 .. MaxPayload
<1>1. CASE m \in Payloads
  <2>1. m \in Seq({m[i] : i \in DOMAIN m}) /\ m # <<>> /\ Len(m) <= MaxPayload
    BY <1>1, LinkAssumption
  <2>2. {m[i] : i \in DOMAIN m} \subseteq Bytes
    BY <1>1 DEF Bytes
  <2>3. m \in Seq(Bytes)
    BY <2>1, <2>2, SeqMonotonic
  <2> QED
    BY <2>1, <2>3, EmptySeq, LenProperties, Constants
<1>2. CASE m = <<>>
  BY <1>2, EmptySeq
<1> QED
  BY <1>1, <1>2 DEF Messages

\* A slice of a sequence: its kind and its length.
LEMMA SliceOf ==
  ASSUME NEW m \in Seq(Bytes), NEW a \in Nat, NEW b \in Nat, a <= b, b <= Len(m)
  PROVE  /\ SubSeq(m, a + 1, b) \in Seq(Bytes)
         /\ Len(SubSeq(m, a + 1, b)) = b - a
<1>1. \A i \in a + 1 .. b : m[i] \in Bytes
  BY LenProperties
<1>2. a + 1 \in Int /\ b \in Int
  OBVIOUS
<1>3. /\ SubSeq(m, a + 1, b) \in Seq(Bytes)
      /\ Len(SubSeq(m, a + 1, b)) = IF a + 1 <= b THEN b - (a + 1) + 1 ELSE 0
  BY <1>1, <1>2, SubSeqProperties
<1> QED
  BY <1>3

\* A prefix has the length asked for.
LEMMA PrefixIs ==
  ASSUME NEW m \in Seq(Bytes), NEW n \in Nat, n <= Len(m)
  PROVE  /\ SubSeq(m, 1, n) \in Seq(Bytes)
         /\ Len(SubSeq(m, 1, n)) = n
<1>1. 0 \in Nat /\ 0 <= n /\ 0 + 1 = 1
  OBVIOUS
<1> QED
  BY <1>1, SliceOf

\* Copying no more than there is copies all of it.
LEMMA WholePrefix ==
  ASSUME NEW m \in Seq(Bytes), NEW n \in Nat
  PROVE  SubSeq(m, 1, AtMost(Len(m), n)) = IF Len(m) <= n THEN m ELSE SubSeq(m, 1, n)
<1>1. Len(m) \in Nat
  BY LenProperties
<1> QED
  BY <1>1, SubSeqFull DEF AtMost

\* A prefix and the slice that follows it are the longer prefix.
LEMMA PrefixGrows ==
  ASSUME NEW m \in Seq(Bytes), NEW a \in Nat, NEW b \in Nat, a <= b, b <= Len(m)
  PROVE  SubSeq(m, 1, a) \o SubSeq(m, a + 1, b) = SubSeq(m, 1, b)
<1>1. 1 \in 1 .. Len(m) + 1 /\ a \in 1 - 1 .. Len(m) /\ b \in a .. Len(m)
  BY LenProperties
<1> QED
  BY <1>1, ConcatAdjacentSubSeq

\* What the clock and the separation times compute with are ticks and numbers.
LEMMA ClockValues ==
  /\ \A t \in Ticks, ms \in Nat : After(t, ms) \in Ticks
  /\ 0 \in Ticks
  /\ \A stMin \in StMins : StMinToMs(stMin) \in Nat
<1>1. \A n \in Nat : n % TickMod \in Ticks
  BY TickModAssumption DEF Ticks
<1>2. \A t \in Ticks, ms \in Nat : t + ms \in Nat
  BY DEF Ticks
<1>3. 0 \in Ticks
  BY TickModAssumption DEF Ticks
<1>4. \A stMin \in StMins : StMinToMs(stMin) \in Nat
  BY StMinAssumption DEF StMins, StMinToMs
<1> QED
  BY <1>1, <1>2, <1>3, <1>4 DEF After

-----------------------------------------------------------------------------
(* The transmitter *)

\* The idle transmitter is a transmitter.
LEMMA TxIdleTyping == TxIdle \in TxStates /\ TxIdle.offset <= Len(TxIdle.payload)
<1>1. <<>> \in Messages /\ 1 \in 0 .. SeqMod - 1 /\ 0 \in 0 .. MaxWaitFrames
  BY Constants DEF Messages
<1>2. 0 \in Ticks /\ "none" \in StMins /\ Len(<<>>) = 0
  BY ClockValues, EmptySeq DEF StMins
<1> QED
  BY <1>1, <1>2 DEF TxIdle, TxStates

\* What isotp_tx_start makes of the transmitter.
LEMMA TxStartIs ==
  ASSUME TxTyping, NEW p \in Payloads, now \in Ticks,
         TxStartSingle(p) \/ TxStartFirst(p, now)
  PROVE  /\ TxTyping'
         /\ \/ TxStartSingle(p) /\ ~tx'.active
            \/ /\ TxStartFirst(p, now) /\ tx'.active /\ tx'.waiting
               /\ tx'.payload = p /\ tx'.offset = FfBytes /\ tx'.sequence = 1
               /\ tx'.block = 0 /\ tx'.deadline = After(now, TxTimeoutMs)
<1>1. CASE TxStartSingle(p)
  BY <1>1, TxIdleTyping DEF TxStartSingle, TxReset, TxTyping, TxIdle
<1>2. CASE TxStartFirst(p, now)
  <2>1. After(now, TxTimeoutMs) \in Ticks
    BY ClockValues, Constants
  <2>2. p \in Messages /\ 1 \in 0 .. SeqMod - 1 /\ FfBytes \in Nat /\ FfBytes <= Len(p)
    BY <1>2, Constants, MessagesAreData DEF Messages, TxStartFirst
  <2>3. tx' = [tx EXCEPT !.payload = p, !.offset = FfBytes, !.sequence = 1,
                         !.block = 0, !.deadline = After(now, TxTimeoutMs),
                         !.active = TRUE, !.waiting = TRUE]
    BY <1>2 DEF TxStartFirst
  <2>4. tx' \in TxStates
    BY <2>1, <2>2, <2>3 DEF TxTyping, TxStates
  <2>5. /\ tx'.payload = p /\ tx'.offset = FfBytes /\ tx'.sequence = 1 /\ tx'.block = 0
        /\ tx'.active /\ tx'.waiting /\ tx'.deadline = After(now, TxTimeoutMs)
    BY <2>3 DEF TxTyping, TxStates
  <2> QED
    BY <1>2, <2>2, <2>4, <2>5 DEF TxTyping
<1> QED
  BY <1>1, <1>2

\* Every way through isotp_tx_feed_flow_control leaves a transmitter.
LEMMA TxFeedTyping ==
  ASSUME TxTyping, NEW fc \in Controls, now \in Ticks,
         \/ TxFeedUnexpected \/ TxFeedUnknown(fc) \/ TxFeedAbort(fc)
         \/ TxFeedWait(fc, now) \/ TxFeedContinue(fc, now)
  PROVE  TxTyping'
<1>1. CASE TxFeedUnexpected \/ TxFeedUnknown(fc)
  BY <1>1 DEF TxFeedUnexpected, TxFeedUnknown, TxTyping
<1>2. CASE TxFeedAbort(fc)
  BY <1>2, TxIdleTyping DEF TxFeedAbort, TxReset, TxTyping
<1>3. After(now, TxTimeoutMs) \in Ticks /\ fc.blockSize \in Nat /\ 0 \in 0 .. MaxWaitFrames
  BY ClockValues, Constants DEF Controls
<1>4. CASE TxFeedWait(fc, now)
  <2>0. fc.stMin \in StMins /\ tx.waits < MaxWaitFrames
    BY <1>4 DEF TxFeedWait
  <2>1. fc.stMin \in StMins /\ tx.waits + 1 \in 0 .. MaxWaitFrames
    <3>1. tx.waits \in 0 .. MaxWaitFrames
      BY DEF TxTyping, TxStates
    <3> QED
      BY <2>0, <3>1, Constants
  <2>2. tx' = [tx EXCEPT !.blockSize = fc.blockSize, !.stMin = fc.stMin,
                         !.deadline = After(now, TxTimeoutMs), !.waits = tx.waits + 1]
    BY <1>4 DEF TxFeedWait, TxHeard, TxTyping, TxStates
  <2> QED
    BY <1>3, <2>1, <2>2 DEF TxTyping, TxStates
<1>5. CASE TxFeedContinue(fc, now)
  <2>1. fc.stMin \in StMins
    BY <1>5 DEF TxFeedContinue
  <2>2. tx' = [tx EXCEPT !.blockSize = fc.blockSize, !.stMin = fc.stMin,
                         !.deadline = After(now, TxTimeoutMs), !.waits = 0,
                         !.waiting = FALSE, !.block = 0, !.nextFrame = now]
    BY <1>5 DEF TxFeedContinue, TxHeard, TxTyping, TxStates
  <2> QED
    BY <1>3, <2>1, <2>2 DEF TxTyping, TxStates
<1> QED
  BY <1>1, <1>2, <1>4, <1>5

\* The piece of the payload that is sent next, and how far it goes.
LEMMA TxPiece ==
  ASSUME TxTyping, TxRemaining > 0
  PROVE  /\ TxRemaining = Len(tx.payload) - tx.offset
         /\ Len(tx.payload) \in Nat /\ tx.offset \in Nat
         /\ TxNextData \in Seq(Bytes)
         /\ Len(TxNextData) = AtMost(TxRemaining, CfBytes)
         /\ Len(TxNextData) \in 1 .. CfBytes
         /\ tx.offset + Len(TxNextData) <= Len(tx.payload)
<1>1. tx.payload \in Seq(Bytes) /\ Len(tx.payload) \in Nat /\ tx.offset \in Nat
  BY MessagesAreData DEF TxTyping, TxStates
<1>2. /\ AtMost(TxRemaining, CfBytes) \in 1 .. CfBytes
      /\ tx.offset + AtMost(TxRemaining, CfBytes) <= Len(tx.payload)
  BY <1>1, Constants DEF AtMost, TxRemaining
<1>3. /\ TxNextData \in Seq(Bytes)
      /\ Len(TxNextData) = AtMost(TxRemaining, CfBytes)
  <2> DEFINE b == tx.offset + AtMost(TxRemaining, CfBytes)
  <2>1. b \in Nat /\ tx.offset <= b /\ b <= Len(tx.payload)
    BY <1>1, <1>2, Constants
  <2>2. /\ SubSeq(tx.payload, tx.offset + 1, b) \in Seq(Bytes)
        /\ Len(SubSeq(tx.payload, tx.offset + 1, b)) = b - tx.offset
    BY <1>1, <2>1, SliceOf
  <2> QED
    BY <1>1, <1>2, <2>2, Constants DEF TxNextData
<1> QED
  BY <1>1, <1>2, <1>3 DEF TxRemaining

\* What sending a consecutive frame does to the transmitter.
LEMMA TxSendIs ==
  ASSUME TxTyping, now \in Ticks, TxNextSend(now)
  PROVE  /\ TxTyping' /\ TxMayProceed /\ TxRemaining > 0
         /\ tx'.offset = tx.offset + Len(TxNextData)
         /\ tx'.payload = tx.payload /\ tx'.active = tx.active
         /\ tx'.blockSize = tx.blockSize
         /\ tx'.sequence = (tx.sequence + 1) % SeqMod
         /\ tx'.waiting = TxBlockEnds(tx'.offset)
         /\ tx'.block = IF TxBlockEnds(tx'.offset) THEN 0 ELSE tx.block + 1
         /\ tx'.deadline = After(now, TxTimeoutMs)
         /\ tx'.nextFrame = After(now, StMinToMs(tx.stMin)) /\ tx'.stMin = tx.stMin
<1> DEFINE offset == tx.offset + Len(TxNextData)
<1>1. /\ TxMayProceed /\ TxRemaining > 0
      /\ tx' = [tx EXCEPT !.offset = offset,
                          !.sequence = (tx.sequence + 1) % SeqMod,
                          !.deadline = After(now, TxTimeoutMs),
                          !.nextFrame = After(now, StMinToMs(tx.stMin)),
                          !.block = IF TxBlockEnds(offset) THEN 0 ELSE tx.block + 1,
                          !.waiting = TxBlockEnds(offset)]
  BY DEF TxNextSend, TxDue, TxTyping, TxStates
<1>2. offset \in Nat /\ offset <= Len(tx.payload)
  BY <1>1, TxPiece
<1>3. (tx.sequence + 1) % SeqMod \in 0 .. SeqMod - 1
  BY Constants DEF TxTyping, TxStates
<1>4. After(now, TxTimeoutMs) \in Ticks /\ After(now, StMinToMs(tx.stMin)) \in Ticks
  BY ClockValues, Constants DEF TxTyping, TxStates
<1>5. TxBlockEnds(offset) \in BOOLEAN
  BY DEF TxBlockEnds
<1>6. (IF TxBlockEnds(offset) THEN 0 ELSE tx.block + 1) \in Nat
  BY DEF TxTyping, TxStates
<1> HIDE DEF offset
<1>7. tx' \in TxStates
  BY <1>1, <1>2, <1>3, <1>4, <1>5, <1>6 DEF TxTyping, TxStates
<1>8. /\ tx'.payload = tx.payload /\ tx'.offset = offset
      /\ tx'.active = tx.active /\ tx'.blockSize = tx.blockSize /\ tx'.stMin = tx.stMin
      /\ tx'.sequence = (tx.sequence + 1) % SeqMod
      /\ tx'.waiting = TxBlockEnds(offset)
      /\ tx'.block = IF TxBlockEnds(offset) THEN 0 ELSE tx.block + 1
      /\ tx'.deadline = After(now, TxTimeoutMs)
      /\ tx'.nextFrame = After(now, StMinToMs(tx.stMin))
  BY <1>1 DEF TxTyping, TxStates
<1>9. TxTyping'
  BY <1>2, <1>7, <1>8 DEF TxTyping
<1>10. TxBlockEnds(tx'.offset) = TxBlockEnds(offset)
  BY <1>8
<1> QED
  BY <1>1, <1>8, <1>9, <1>10 DEF offset

\* A reset transmitter is one, and idle.
LEMMA TxResetTyping ==
  ASSUME TxReset
  PROVE  TxTyping' /\ ~tx'.active
BY TxIdleTyping DEF TxReset, TxTyping, TxIdle

-----------------------------------------------------------------------------
(* The receiver *)

\* The idle receiver is a receiver.
LEMMA RxIdleTyping == RxIdle \in RxStates /\ Len(RxIdle.buffer) <= RxIdle.expected
<1>1. <<>> \in Seq(Bytes) /\ 1 \in 0 .. SeqMod - 1 /\ 0 \in Ticks /\ Len(<<>>) = 0
  BY Constants, ClockValues, EmptySeq
<1> QED
  BY <1>1 DEF RxIdle, RxStates

\* A reset receiver is one, and idle.
LEMMA RxResetTyping ==
  ASSUME RxReset
  PROVE  RxTyping' /\ ~rx'.active
BY RxIdleTyping DEF RxReset, RxTyping, RxIdle

\* What a first frame makes of the receiver.
LEMMA RxFirstIs ==
  ASSUME NEW frame \in Frames, now \in Ticks, RxFeedFirst(frame, now)
  PROVE  /\ RxTyping'
         /\ rx'.active /\ rx'.sequence = 1 /\ rx'.block = 0
         /\ rx'.expected = frame.length
         /\ rx'.buffer = IF Len(frame.data) <= frame.length THEN frame.data
                         ELSE SubSeq(frame.data, 1, frame.length)
         /\ rx'.deadline = After(now, RxTimeoutMs)
<1>1. frame.type = "FF" /\ frame.data \in Seq(Bytes) /\ frame.length \in Nat
  BY DEF RxFeedFirst, Frames, Controls
<1> DEFINE buffer == SubSeq(frame.data, 1, AtMost(Len(frame.data), frame.length))
<1>2. buffer = IF Len(frame.data) <= frame.length THEN frame.data
               ELSE SubSeq(frame.data, 1, frame.length)
  BY <1>1, WholePrefix
<1>3. buffer \in Seq(Bytes) /\ Len(buffer) <= frame.length
  <2>1. Len(frame.data) \in Nat
    BY <1>1, LenProperties
  <2>2. CASE Len(frame.data) <= frame.length
    BY <1>1, <1>2, <2>2
  <2>3. CASE ~(Len(frame.data) <= frame.length)
    <3>1. frame.length <= Len(frame.data)
      BY <1>1, <2>1, <2>3
    <3>2. /\ SubSeq(frame.data, 1, frame.length) \in Seq(Bytes)
          /\ Len(SubSeq(frame.data, 1, frame.length)) = frame.length
      BY <1>1, <3>1, PrefixIs
    <3>3. buffer = SubSeq(frame.data, 1, frame.length)
      BY <1>2, <2>3
    <3> HIDE DEF buffer
    <3> QED
      BY <1>1, <3>2, <3>3
  <2> QED
    BY <2>2, <2>3
<1>4. After(now, RxTimeoutMs) \in Ticks /\ 1 \in 0 .. SeqMod - 1
  BY ClockValues, Constants
<1>5. rx' = [buffer |-> buffer, expected |-> frame.length, sequence |-> 1, block |-> 0,
             deadline |-> After(now, RxTimeoutMs), active |-> TRUE]
  BY DEF RxFeedFirst
<1> HIDE DEF buffer
<1>6. rx' \in RxStates
  BY <1>1, <1>3, <1>4, <1>5 DEF RxStates
<1> QED
  BY <1>2, <1>3, <1>5, <1>6 DEF RxTyping

\* What a consecutive frame in sequence makes of it.
LEMMA RxConsecutiveIs ==
  ASSUME RxTyping, NEW frame \in Frames, now \in Ticks, RxFeedConsecutive(frame, now)
  PROVE  /\ RxTyping' /\ frame.data \in Seq(Bytes)
         /\ rx'.buffer = RxFilled(frame)
         /\ rx'.expected = rx.expected
         /\ rx'.sequence = (rx.sequence + 1) % SeqMod
         /\ rx'.block = IF RxBlockEnds /\ ~RxCompletes(frame) THEN 0 ELSE rx.block + 1
         /\ rx'.active = ~RxCompletes(frame)
         /\ rx'.deadline = After(now, RxTimeoutMs)
<1>1. frame.type = "CF" /\ frame.data \in Seq(Bytes)
  BY DEF RxFeedConsecutive, RxInSequence, Frames, Controls
<1>2. rx.buffer \in Seq(Bytes) /\ Len(rx.buffer) \in Nat /\ rx.expected \in Nat
      /\ Len(rx.buffer) <= rx.expected
  BY LenProperties DEF RxTyping, RxStates
<1> DEFINE room == rx.expected - Len(rx.buffer)
           piece == SubSeq(frame.data, 1, AtMost(Len(frame.data), room))
<1>3. piece \in Seq(Bytes) /\ Len(piece) \in Nat /\ Len(piece) <= room
  <2>1. Len(frame.data) \in Nat /\ room \in Nat
    BY <1>1, <1>2, LenProperties
  <2>2. AtMost(Len(frame.data), room) \in Nat /\ AtMost(Len(frame.data), room) <= room
        /\ AtMost(Len(frame.data), room) <= Len(frame.data)
    BY <2>1 DEF AtMost
  <2> QED
    BY <1>1, <2>2, PrefixIs
<1>4. RxFilled(frame) \in Seq(Bytes) /\ Len(RxFilled(frame)) <= rx.expected
  BY <1>2, <1>3, ConcatProperties DEF RxFilled
<1>5. (rx.sequence + 1) % SeqMod \in 0 .. SeqMod - 1 /\ After(now, RxTimeoutMs) \in Ticks
  <2>1. rx.sequence + 1 \in Nat /\ RxTimeoutMs \in Nat
    BY Constants DEF RxTyping, RxStates
  <2>2. (rx.sequence + 1) % SeqMod \in 0 .. SeqMod - 1
    BY <2>1, Constants
  <2> QED
    BY <2>1, <2>2, ClockValues
<1>6. /\ (IF RxBlockEnds /\ ~RxCompletes(frame) THEN 0 ELSE rx.block + 1) \in Nat
      /\ (~RxCompletes(frame)) \in BOOLEAN
  <2>1. rx.block \in Nat
    BY DEF RxTyping, RxStates
  <2>2. (~RxCompletes(frame)) \in BOOLEAN
    BY DEF RxCompletes
  <2> QED
    BY <2>1, <2>2
<1>7. rx' = [rx EXCEPT !.buffer = RxFilled(frame),
                       !.sequence = (rx.sequence + 1) % SeqMod,
                       !.block = IF RxBlockEnds /\ ~RxCompletes(frame) THEN 0
                                 ELSE rx.block + 1,
                       !.deadline = After(now, RxTimeoutMs),
                       !.active = ~RxCompletes(frame)]
  BY DEF RxFeedConsecutive, RxTyping, RxStates
<1>8. rx' \in RxStates
  BY <1>4, <1>5, <1>6, <1>7 DEF RxTyping, RxStates
<1>9. /\ rx'.buffer = RxFilled(frame)
      /\ rx'.expected = rx.expected
      /\ rx'.sequence = (rx.sequence + 1) % SeqMod
      /\ rx'.block = IF RxBlockEnds /\ ~RxCompletes(frame) THEN 0 ELSE rx.block + 1
      /\ rx'.active = ~RxCompletes(frame)
      /\ rx'.deadline = After(now, RxTimeoutMs)
  BY <1>7 DEF RxTyping, RxStates
<1> QED
  BY <1>1, <1>4, <1>8, <1>9 DEF RxTyping

\* Every other way through the receiver forgets the message or leaves it.
LEMMA RxTickIs ==
  ASSUME RxTyping, RxTickNothing(now) \/ RxTickTimeout(now)
  PROVE  RxTyping' /\ (rx'.active => UNCHANGED rx)
BY RxResetTyping DEF RxTickNothing, RxTickTimeout, RxTyping

-----------------------------------------------------------------------------
(* The line, and types *)

\* What the two ends put on the line are frames.
LEMMA FramesSent ==
  /\ RxFlowControl \in Controls /\ RxFlowControl.type = "FC"
  /\ \A p \in Payloads : SingleFrame(p) \in Frames
  /\ \A p \in Payloads : Len(p) > SfBytes => FirstFrame(p) \in Frames
  /\ TxTyping /\ TxRemaining > 0 => TxNextFrame \in Frames
<1>1. RxFlowControl \in Controls /\ RxFlowControl.type = "FC"
  BY Constants DEF RxFlowControl, FlowControl, Controls
<1>2. ASSUME NEW p \in Payloads
      PROVE  SingleFrame(p) \in Frames
  <2>1. p \in Seq(Bytes)
    BY MessagesAreData DEF Messages
  <2> QED
    BY <2>1 DEF SingleFrame, Frames
<1>3. ASSUME NEW p \in Payloads, Len(p) > SfBytes
      PROVE  FirstFrame(p) \in Frames
  <2>1. p \in Seq(Bytes) /\ Len(p) \in Nat
    BY MessagesAreData DEF Messages
  <2>2. FfBytes \in Nat /\ FfBytes <= Len(p)
    BY <1>3, <2>1, Constants
  <2>3. SubSeq(p, 1, FfBytes) \in Seq(Bytes)
    BY <2>1, <2>2, PrefixIs
  <2> QED
    BY <2>1, <2>3 DEF FirstFrame, Frames
<1>4. ASSUME TxTyping, TxRemaining > 0
      PROVE  TxNextFrame \in Frames
  <2>1. TxNextData \in Seq(Bytes) /\ tx.sequence \in 0 .. SeqMod - 1
    BY <1>4, TxPiece DEF TxTyping, TxStates
  <2> QED
    BY <2>1 DEF TxNextFrame, ConsecutiveFrame, Frames
<1> QED
  BY <1>1, <1>2, <1>3, <1>4

\* Sending appends a frame to the line, or loses it.
LEMMA SendIs ==
  ASSUME Typing, NEW frame \in Frames, Send(frame)
  PROVE  /\ fwd' = Append(fwd, frame) \/ fwd' = fwd
         /\ fwd' \in Seq(Frames) /\ faults' \in Nat
<1>1. Append(fwd, frame) \in Seq(Frames)
  BY AppendProperties DEF Typing
<1>2. (fwd' = Append(fwd, frame) \/ fwd' = fwd) /\ fwd' \in Seq(Frames)
  BY <1>1 DEF Send, Typing
<1>3. faults' \in Nat
  BY DEF Send, Fault, Typing
<1> QED
  BY <1>2, <1>3

\* So does answering.
LEMMA AnswerIs ==
  ASSUME Typing, NEW fc \in Controls, Answer(fc)
  PROVE  /\ bwd' = Append(bwd, fc) \/ bwd' = bwd
         /\ bwd' \in Seq(Controls) /\ faults' \in Nat
<1>1. Append(bwd, fc) \in Seq(Controls)
  BY AppendProperties DEF Typing
<1>2. (bwd' = Append(bwd, fc) \/ bwd' = bwd) /\ bwd' \in Seq(Controls)
  BY <1>1 DEF Answer, Typing
<1>3. faults' \in Nat
  BY DEF Answer, Fault, Typing
<1> QED
  BY <1>2, <1>3

\* The first of the frames on the line, and the rest.
LEMMA Heads ==
  ASSUME Typing
  PROVE  /\ fwd # <<>> => /\ Head(fwd) \in Frames /\ Tail(fwd) \in Seq(Frames)
                          /\ Len(fwd) \in Nat \ {0} /\ Len(Tail(fwd)) = Len(fwd) - 1
                          /\ Head(fwd) = fwd[1]
                          /\ \A i \in 1 .. Len(fwd) - 1 : Tail(fwd)[i] = fwd[i + 1]
         /\ bwd # <<>> => /\ Head(bwd) \in Controls /\ Tail(bwd) \in Seq(Controls)
                          /\ Len(bwd) \in Nat \ {0} /\ Len(Tail(bwd)) = Len(bwd) - 1
                          /\ Head(bwd) = bwd[1]
                          /\ \A i \in 1 .. Len(bwd) - 1 : Tail(bwd)[i] = bwd[i + 1]
<1>1. fwd \in Seq(Frames) /\ bwd \in Seq(Controls)
  BY DEF Typing
<1> QED
  BY <1>1, HeadTailProperties, EmptySeq, LenProperties

\* The types hold at first ...
LEMMA TypingInit == Init => Typing
<1> SUFFICES ASSUME Init PROVE Typing
  OBVIOUS
<1>1. <<>> \in Seq(Frames) /\ <<>> \in Seq(Controls) /\ <<>> \in Messages /\ 0 \in Ticks
  BY ClockValues, EmptySeq DEF Messages
<1>2. TxTyping /\ RxTyping
  BY TxIdleTyping, RxIdleTyping DEF Init, TxTyping, RxTyping
<1> QED
  BY <1>1, <1>2 DEF Init, Typing

\* ... and every step keeps them.
LEMMA TypingNext == Typing /\ [Next]_vars => Typing'
<1> SUFFICES ASSUME Typing, [Next]_vars PROVE Typing'
  OBVIOUS
<1> USE DEF lineVars, stageVars, boundVars, messageVars
<1>0. /\ TxTyping /\ RxTyping /\ now \in Ticks /\ fwd \in Seq(Frames) /\ bwd \in Seq(Controls)
      /\ txStage \in {"feed", "tick", "done"} /\ rxDone \in BOOLEAN /\ offered \in Messages
      /\ granted \in Nat /\ faults \in Nat /\ starts \in Nat
  BY DEF Typing
<1>1. ASSUME NEW p \in Payloads, Start(p)
      PROVE  Typing'
  <2>1. TxTyping'
    BY <1>1, <1>0, TxStartIs DEF Start
  <2>2. PICK frame \in Frames : Send(frame)
    BY <1>1, FramesSent, Constants DEF Start, TxStartFirst
  <2>3. fwd' \in Seq(Frames) /\ faults' \in Nat
    BY <2>2, SendIs
  <2>4. RxTyping'
    BY <1>1, <1>0 DEF Start, RxTyping
  <2> QED
    BY <1>0, <1>1, <2>1, <2>3, <2>4 DEF Start, Typing, Messages
<1>2. CASE TxFeed
  <2>1. Head(bwd) \in Controls /\ Tail(bwd) \in Seq(Controls)
    BY <1>2, Heads DEF TxFeed
  <2>2. TxTyping'
    BY <1>0, <1>2, <2>1, TxFeedTyping DEF TxFeed
  <2> QED
    BY <1>0, <1>2, <2>1, <2>2 DEF TxFeed, Typing, RxTyping
<1>3. CASE TxSend
  <2>1. TxTyping' /\ TxRemaining > 0
    BY <1>0, <1>3, TxSendIs DEF TxSend
  <2>2. fwd' \in Seq(Frames) /\ faults' \in Nat
    BY <1>0, <1>3, <2>1, FramesSent, SendIs DEF TxSend
  <2>3. granted' \in Nat
    BY <1>0, <1>3 DEF TxSend
  <2> QED
    BY <1>0, <1>3, <2>1, <2>2, <2>3 DEF TxSend, Typing, RxTyping
<1>4. CASE TxNext \/ TxTick
  <2>1. TxTyping'
    BY <1>0, <1>4, TxResetTyping
       DEF TxNext, TxTick, TxNextNothing, TxNextComplete, TxNextTimeout, TxTickNothing,
           TxTickTimeout, TxTyping
  <2> QED
    BY <1>0, <1>4, <2>1 DEF TxNext, TxTick, Typing, RxTyping
<1>5. CASE RxSingle
  <2>1. Tail(fwd) \in Seq(Frames)
    BY <1>5, Heads DEF RxSingle, Receive
  <2>2. RxTyping' /\ offered' \in Messages
    BY <1>0, <1>5, RxResetTyping DEF RxSingle, RxFeedSingle, Deliver, Messages
  <2> QED
    BY <1>0, <1>5, <2>1, <2>2 DEF RxSingle, Receive, Typing, TxTyping
<1>6. CASE RxData
  <2> DEFINE frame == Head(fwd)
  <2>1. frame \in Frames /\ Tail(fwd) \in Seq(Frames)
    BY <1>6, Heads DEF RxData, Receive
  <2>2. RxTyping'
    BY <1>0, <1>6, <2>1, RxFirstIs, RxConsecutiveIs DEF RxData
  <2>3. offered' \in Messages
    BY <1>0, <1>6 DEF RxData, Deliver, Messages
  <2>4. bwd' \in Seq(Controls) /\ faults' \in Nat /\ granted' \in Nat
    BY <1>0, <1>6, FramesSent, AnswerIs, Constants DEF RxData
  <2> QED
    BY <1>0, <1>6, <2>1, <2>2, <2>3, <2>4 DEF RxData, Receive, Typing, TxTyping
<1>7. CASE RxReject
  <2>1. Tail(fwd) \in Seq(Frames)
    BY <1>7, Heads DEF RxReject, Receive
  <2>2. RxTyping'
    BY <1>0, <1>7, RxResetTyping
       DEF RxReject, RxFeedBadLength, RxFeedUnexpected, RxFeedOutOfSequence, RxTyping
  <2> QED
    BY <1>0, <1>7, <2>1, <2>2 DEF RxReject, Receive, Typing, TxTyping
<1>8. CASE RxTick
  <2>1. RxTyping'
    BY <1>0, <1>8, RxTickIs DEF RxTick
  <2> QED
    BY <1>0, <1>8, <2>1 DEF RxTick, Typing, TxTyping
<1>9. CASE PeerFlowControl
  <2>1. \A fc \in {FlowControl("WAIT", BlockSize, StMin), FlowControl("OVERFLOW", 0, "none"),
                   FlowControl("CTS", BlockSize, "reserved"), FlowControl("other", 0, "none")} :
          fc \in Controls
    BY Constants DEF FlowControl, Controls, StMins
  <2>2. bwd' \in Seq(Controls)
    BY <1>0, <1>9, <2>1, AppendProperties DEF PeerFlowControl
  <2> QED
    BY <1>0, <1>9, <2>2 DEF PeerFlowControl, Fault, Typing, TxTyping, RxTyping
<1>10. CASE PeerFrame
  <2>1. [type |-> "FF", length |-> MaxPayload + 1, data |-> <<>>] \in Frames
    BY Constants, EmptySeq DEF Frames
  <2>2. RxFlowControl \in Frames
    BY FramesSent DEF Frames
  <2>3. fwd' \in Seq(Frames)
    BY <1>0, <1>10, <2>1, <2>2, AppendProperties DEF PeerFrame
  <2> QED
    BY <1>0, <1>10, <2>3 DEF PeerFrame, Fault, Typing, TxTyping, RxTyping
<1>11. CASE Tick
  <2>1. now' \in Ticks
    BY <1>0, <1>11, ClockValues DEF Tick
  <2> QED
    BY <1>0, <1>11, <2>1 DEF Tick, Typing, TxTyping, RxTyping
<1>12. CASE UNCHANGED vars
  BY <1>0, <1>12 DEF vars, Typing, TxTyping, RxTyping
<1> QED
  BY <1>1, <1>2, <1>3, <1>4, <1>5, <1>6, <1>7, <1>8, <1>9, <1>10, <1>11, <1>12
     DEF Next, TxPass, RxPass

\* They are more than the type invariant the runs check.
LEMMA TypesOK == Typing => TypeOK
<1> SUFFICES ASSUME Typing PROVE TypeOK
  OBVIOUS
<1>1. tx \in TxStates /\ tx.offset <= Len(tx.payload) /\ rx \in RxStates
      /\ Len(rx.buffer) <= rx.expected
  BY DEF Typing, TxTyping, RxTyping
<1>2. tx.payload \in Messages /\ rx.buffer \in Seq(Bytes)
  BY <1>1 DEF TxStates, RxStates
<1>3. Len(tx.payload) \in Nat /\ Len(rx.buffer) \in Nat
  BY <1>2, MessagesAreData, LenProperties
<1> QED
  BY <1>1, <1>3 DEF Typing, TypeOK, TxStates, RxStates

-----------------------------------------------------------------------------
(* The receiver's credit *)

Grants(fc) == fc.status = "CTS" /\ fc.stMin \in StMins

Granted == \E i \in 1 .. Len(bwd) : Grants(bwd[i])

\* Every flow control that lets the transmitter go on carries the receiver's
\* block size, and the frames it stands for are counted; so are those the
\* transmitter still has to send of its block.
Credit ==
  /\ \A i \in 1 .. Len(bwd) :
       Grants(bwd[i]) => bwd[i].blockSize = BlockSize /\ granted >= BlockSize
  /\ TxMayProceed /\ TxRemaining > 0 =>
       /\ tx.blockSize = BlockSize
       /\ BlockSize # 0 => tx.block < BlockSize /\ granted + tx.block >= BlockSize

\* A new message has no credit and needs none: its transmitter waits.
LEMMA CreditStart ==
  ASSUME Typing, Credit, NEW p \in Payloads, Start(p)
  PROVE  Credit'
<1>1. bwd' = <<>> /\ Len(bwd') = 0
  BY EmptySeq DEF Start
<1>2. ~TxMayProceed'
  BY TxStartIs DEF Start, Typing, TxMayProceed
<1> QED
  BY <1>1, <1>2 DEF Credit

\* A flow control gives the transmitter the block it stands for.
LEMMA CreditFeed ==
  ASSUME Typing, Credit, TxFeed
  PROVE  Credit'
<1>1. /\ Head(bwd) = bwd[1] /\ Head(bwd) \in Controls /\ Len(bwd) \in Nat \ {0}
      /\ bwd' = Tail(bwd) /\ Len(bwd') = Len(bwd) - 1 /\ granted' = granted
      /\ \A i \in 1 .. Len(bwd) - 1 : bwd'[i] = bwd[i + 1]
  BY Heads DEF TxFeed
<1>2. ASSUME NEW i \in 1 .. Len(bwd'), Grants(bwd'[i])
      PROVE  bwd'[i].blockSize = BlockSize /\ granted' >= BlockSize
  <2>1. i + 1 \in 1 .. Len(bwd) /\ bwd'[i] = bwd[i + 1]
    BY <1>1
  <2> QED
    BY <1>1, <1>2, <2>1 DEF Credit
<1>3. ASSUME TxMayProceed', TxRemaining' > 0
      PROVE  /\ tx'.blockSize = BlockSize
             /\ BlockSize # 0 => tx'.block < BlockSize /\ granted' + tx'.block >= BlockSize
  <2> DEFINE fc == Head(bwd)
  <2>1. CASE TxFeedUnexpected \/ TxFeedUnknown(fc)
    BY <1>1, <1>3, <2>1
       DEF TxFeedUnexpected, TxFeedUnknown, Credit, TxMayProceed, TxRemaining
  <2>2. CASE TxFeedAbort(fc)
    BY <1>3, <2>2 DEF TxFeedAbort, TxReset, TxIdle, TxMayProceed
  <2>3. CASE TxFeedWait(fc, now)
    BY <1>3, <2>3
       DEF TxFeedWait, TxExpectsFlowControl, TxHeard, TxMayProceed, Typing, TxTyping, TxStates
  <2>4. CASE TxFeedContinue(fc, now)
    <3>1. 1 \in 1 .. Len(bwd) /\ Grants(bwd[1])
      BY <1>1, <2>4 DEF TxFeedContinue, Grants
    <3>2. fc.blockSize = BlockSize /\ granted >= BlockSize
      BY <1>1, <3>1 DEF Credit
    <3>3. tx'.blockSize = fc.blockSize /\ tx'.block = 0
      BY <2>4 DEF TxFeedContinue, TxHeard, Typing, TxTyping, TxStates
    <3> QED
      BY <1>1, <3>2, <3>3, Constants DEF Typing
  <2> QED
    BY <2>1, <2>2, <2>3, <2>4 DEF TxFeed
<1> QED
  BY <1>2, <1>3 DEF Credit

\* The transmitter sends within the block the receiver granted.
LEMMA SendsWithinBlock ==
  ASSUME Typing, Credit, TxSend
  PROVE  /\ tx.blockSize = BlockSize
         /\ BlockSize # 0 => tx.block < BlockSize /\ granted > 0
<1>1. TxMayProceed /\ TxRemaining > 0
  BY TxSendIs DEF TxSend, Typing
<1>2. granted \in Nat /\ tx.block \in Nat /\ BlockSize \in Nat
  BY Constants DEF Typing, TxTyping, TxStates
<1> QED
  BY <1>1, <1>2 DEF Credit

\* A consecutive frame uses up one of what was granted.
LEMMA CreditSend ==
  ASSUME Typing, Credit, TxSend
  PROVE  Credit'
<1>1. /\ TxMayProceed /\ TxRemaining > 0 /\ tx'.blockSize = tx.blockSize
      /\ tx'.waiting = TxBlockEnds(tx'.offset) /\ tx'.payload = tx.payload
      /\ tx'.block = IF TxBlockEnds(tx'.offset) THEN 0 ELSE tx.block + 1
  BY TxSendIs DEF TxSend, Typing
<1>2. bwd' = <<>> /\ Len(bwd') = 0
  BY EmptySeq DEF TxSend
<1>3. granted \in Nat /\ tx.block \in Nat /\ BlockSize \in Nat
  BY Constants DEF Typing, TxTyping, TxStates
<1>4. TxTyping'
  BY TxSendIs DEF TxSend, Typing
<1>5. tx'.offset \in Nat /\ Len(tx.payload) \in Nat
  BY <1>1, <1>4, MessagesAreData DEF TxTyping, TxStates
<1>6. ASSUME TxMayProceed', TxRemaining' > 0
      PROVE  /\ tx'.blockSize = BlockSize
             /\ BlockSize # 0 => tx'.block < BlockSize /\ granted' + tx'.block >= BlockSize
  <2>1. tx.blockSize = BlockSize /\ (BlockSize # 0 => granted > 0)
    BY SendsWithinBlock
  <2>2. tx'.offset < Len(tx.payload)
    BY <1>1, <1>5, <1>6 DEF TxRemaining
  <2>3. ~TxBlockEnds(tx'.offset)
    BY <1>1, <1>6 DEF TxMayProceed
  <2>4. tx'.block = tx.block + 1 /\ (BlockSize # 0 => tx.block + 1 < BlockSize)
    BY <1>1, <1>3, <2>1, <2>2, <2>3 DEF TxBlockEnds
  <2>5. BlockSize # 0 => granted' = granted - 1 /\ granted + tx.block >= BlockSize
    BY <1>1, <2>1 DEF TxSend, Credit
  <2> QED
    BY <1>1, <1>3, <2>1, <2>4, <2>5
<1> QED
  BY <1>2, <1>6 DEF Credit

\* A flow control is sent with the grant it stands for.
LEMMA CreditRxData ==
  ASSUME Typing, Credit, RxData
  PROVE  Credit'
<1> DEFINE frame == Head(fwd)
<1>1. granted \in Nat /\ BlockSize \in Nat /\ tx' = tx /\ bwd \in Seq(Controls)
  BY Constants DEF Typing, RxData
<1>2. CASE UNCHANGED <<bwd, granted>>
  BY <1>1, <1>2 DEF Credit, TxMayProceed, TxRemaining
<1>3. CASE Answer(RxFlowControl) /\ granted' = granted + BlockSize
  <2>1. /\ RxFlowControl.blockSize = BlockSize
        /\ bwd' = Append(bwd, RxFlowControl) \/ bwd' = bwd
    BY <1>3, FramesSent, AnswerIs DEF RxFlowControl, FlowControl
  <2>2. \A i \in 1 .. Len(bwd') : bwd'[i] = RxFlowControl \/ (i \in 1 .. Len(bwd) /\ bwd'[i] = bwd[i])
    <3>1. CASE bwd' = bwd
      BY <3>1
    <3>2. CASE bwd' = Append(bwd, RxFlowControl)
      BY <1>1, <3>2, FramesSent, AppendProperties
    <3> QED
      BY <2>1, <3>1, <3>2
  <2>3. granted' >= BlockSize
    BY <1>1, <1>3
  <2>4. TxMayProceed /\ TxRemaining > 0 =>
          /\ tx.blockSize = BlockSize
          /\ BlockSize # 0 => tx.block < BlockSize /\ granted' + tx.block >= BlockSize
    <3>1. tx.block \in Nat
      BY DEF Typing, TxTyping, TxStates
    <3> QED
      BY <1>1, <1>3, <3>1 DEF Credit
  <2> QED
    BY <1>1, <2>1, <2>2, <2>3, <2>4 DEF Credit, TxMayProceed, TxRemaining
<1> QED
  BY <1>2, <1>3 DEF RxData

\* The peer's flow controls grant nothing.
LEMMA CreditPeer ==
  ASSUME Typing, Credit, PeerFlowControl
  PROVE  Credit'
<1>1. PICK fc \in {FlowControl("WAIT", BlockSize, StMin), FlowControl("OVERFLOW", 0, "none"),
                   FlowControl("CTS", BlockSize, "reserved"), FlowControl("other", 0, "none")} :
        bwd' = Append(bwd, fc)
  BY DEF PeerFlowControl
<1>2. ~Grants(fc)
  BY <1>1 DEF Grants, FlowControl, StMins
<1>3. \A i \in 1 .. Len(bwd') : bwd'[i] = fc \/ (i \in 1 .. Len(bwd) /\ bwd'[i] = bwd[i])
  BY <1>1, AppendProperties DEF Typing
<1> QED
  BY <1>2, <1>3 DEF Credit, PeerFlowControl, TxMayProceed, TxRemaining

\* Every step keeps the credit.
LEMMA CreditNext == Typing /\ Credit /\ [Next]_vars => Credit'
<1> SUFFICES ASSUME Typing, Credit, [Next]_vars PROVE Credit'
  OBVIOUS
<1> USE DEF lineVars, stageVars, boundVars, messageVars
<1>1. CASE TxNext \/ TxTick
  <2>1. UNCHANGED tx \/ ~TxMayProceed'
    BY <1>1 DEF TxNext, TxTick, TxNextNothing, TxNextComplete, TxNextTimeout, TxTickNothing,
                TxTickTimeout, TxReset, TxIdle, TxMayProceed
  <2>2. UNCHANGED <<bwd, granted>>
    BY <1>1 DEF TxNext, TxTick
  <2> QED
    BY <2>1, <2>2 DEF Credit, TxMayProceed, TxRemaining
<1>2. CASE RxSingle \/ RxReject \/ RxTick \/ PeerFrame \/ Tick \/ UNCHANGED vars
  <2>1. UNCHANGED <<tx, bwd, granted>>
    BY <1>2 DEF RxSingle, RxReject, RxTick, PeerFrame, Tick, vars
  <2> QED
    BY <2>1 DEF Credit, TxMayProceed, TxRemaining
<1> QED
  BY <1>1, <1>2, CreditStart, CreditFeed, CreditSend, CreditRxData, CreditPeer
     DEF Next, TxPass, RxPass

\* Both ends of isotp.c keep their types: offsets within the payload, buffers
\* within the announced length, numbers within their range, ticks on the clock.
THEOREM LinkTyping == Spec => []TypeOK
<1>1. Spec => []Typing
  BY TypingInit, TypingNext, PTL DEF Spec
<1> QED
  BY <1>1, TypesOK, PTL

\* The invariant behind the block size.
LEMMA CreditAlways == Spec => [](Typing /\ Credit)
<1>1. Init => Credit
  BY EmptySeq DEF Init, Credit, TxIdle, TxMayProceed
<1> QED
  BY <1>1, TypingInit, TypingNext, CreditNext, PTL DEF Spec

\* isotp_tx_next never sends a consecutive frame the receiver has not asked for,
\* with any block size and any faults.
THEOREM BlockSizesAreHonoured == Spec => HonoursBlockSize
<1>1. Typing /\ Credit /\ [Next]_vars => [TxSend => BlockSize = 0 \/ granted > 0]_vars
  BY SendsWithinBlock
<1> QED
  BY <1>1, CreditAlways, PTL DEF Spec, HonoursBlockSize

-----------------------------------------------------------------------------
(* Sequence numbers and places *)

\* Below twice the range the remainder is a subtraction.
LEMMA NumberWraps ==
  ASSUME NEW x \in Nat, x < 2 * SeqMod
  PROVE  x % SeqMod = IF x < SeqMod THEN x ELSE x - SeqMod
<1>0. SeqMod \in Nat /\ SeqMod > 1
  BY Constants
<1>1. CASE x < SeqMod
  BY <1>0, <1>1
<1>2. CASE ~(x < SeqMod)
  <2>1. x - SeqMod \in 0 .. SeqMod - 1
    BY <1>0, <1>2
  <2>2. (x - SeqMod) % SeqMod = x - SeqMod
    BY <1>0, <2>1
  <2>3. x % SeqMod = (x - SeqMod) % SeqMod
    BY <1>0, <2>1
  <2> QED
    BY <1>2, <2>2, <2>3
<1> QED
  BY <1>1, <1>2

\* The number of the consecutive frame that comes k frames after the one the
\* receiver expects, and the byte of the message it starts at.
Number(k) == (rx.sequence + k) % SeqMod

Place(k) == Len(rx.buffer) + k * CfBytes

\* The piece of the message that starts there.
Piece(place) == SubSeq(offered, place + 1, place + AtMost(Len(offered) - place, CfBytes))

\* The receiver expects the number at distance 0, and, nearer than SeqMod, no
\* other frame has it; numbers follow each other.
LEMMA Numbers ==
  ASSUME RxTyping, NEW k \in Nat, k < SeqMod
  PROVE  /\ Number(0) = rx.sequence
         /\ Number(k) = rx.sequence => k = 0
         /\ (Number(k) + 1) % SeqMod = Number(k + 1)
<1>0. SeqMod \in Nat /\ SeqMod > 1 /\ rx.sequence \in Nat /\ rx.sequence < SeqMod
  BY Constants DEF RxTyping, RxStates
<1>1. Number(k) = IF rx.sequence + k < SeqMod THEN rx.sequence + k ELSE rx.sequence + k - SeqMod
  BY <1>0, NumberWraps DEF Number
<1>2. Number(0) = rx.sequence
  BY <1>0, NumberWraps DEF Number
<1>3. Number(k + 1) = IF rx.sequence + k + 1 < SeqMod THEN rx.sequence + k + 1
                      ELSE rx.sequence + k + 1 - SeqMod
  <2>1. rx.sequence + (k + 1) \in Nat /\ rx.sequence + (k + 1) < 2 * SeqMod
    BY <1>0
  <2> QED
    BY <1>0, <2>1, NumberWraps DEF Number
<1>4. Number(k) + 1 \in Nat /\ Number(k) + 1 < 2 * SeqMod
  BY <1>0, <1>1
<1> DEFINE next == Number(k) + 1
<1>5. next % SeqMod = IF next < SeqMod THEN next ELSE next - SeqMod
  <2> HIDE DEF next
  <2> QED
    BY <1>4, NumberWraps DEF next
<1>6. Number(k) = rx.sequence => k = 0
  BY <1>0, <1>1
<1>7. (Number(k) + 1) % SeqMod = Number(k + 1)
  BY <1>0, <1>1, <1>3, <1>5
<1> QED
  BY <1>2, <1>6, <1>7

\* Places are a consecutive frame apart.
LEMMA Places ==
  ASSUME RxTyping, NEW k \in Nat
  PROVE  /\ Place(0) = Len(rx.buffer)
         /\ Place(k) \in Nat /\ Place(k + 1) = Place(k) + CfBytes
<1>0. CfBytes \in Nat /\ Len(rx.buffer) \in Nat
  BY Constants, LenProperties DEF RxTyping, RxStates
<1> DEFINE product == k * CfBytes
<1>1. product \in Nat /\ (k + 1) * CfBytes = product + CfBytes /\ 0 * CfBytes = 0
  BY <1>0
<1>2. Place(k) = Len(rx.buffer) + product
  BY DEF Place
<1>3. Place(k + 1) = Len(rx.buffer) + (product + CfBytes) /\ Place(0) = Len(rx.buffer) + 0
  BY <1>1 DEF Place
<1> DEFINE length == Len(rx.buffer)
<1>4. length \in Nat /\ CfBytes \in Nat /\ product \in Nat
  BY <1>0, <1>1
<1> HIDE DEF product, length
<1>5. length + product \in Nat /\ length + (product + CfBytes) = length + product + CfBytes
      /\ length + 0 = length
  BY <1>4
<1> QED
  BY <1>2, <1>3, <1>5 DEF length

\* Once a frame in sequence is taken, everything is one frame nearer.
LEMMA OneNearer ==
  ASSUME RxTyping, RxTyping', NEW k \in Nat, k <= SeqMod,
         rx'.sequence = (rx.sequence + 1) % SeqMod
  PROVE  /\ k > 0 => Number(k - 1)' = Number(k)
         /\ Len(rx'.buffer) = Len(rx.buffer) + CfBytes /\ k > 0 =>
              Place(k - 1)' = Place(k)
<1>0. SeqMod \in Nat /\ SeqMod > 1 /\ rx.sequence \in Nat /\ rx.sequence < SeqMod
  BY Constants DEF RxTyping, RxStates
<1>1. ASSUME k > 0
      PROVE  Number(k - 1)' = Number(k)
  <2>1. rx'.sequence = IF rx.sequence + 1 < SeqMod THEN rx.sequence + 1 ELSE 0
    BY <1>0, NumberWraps
  <2> DEFINE x == rx'.sequence + (k - 1)
             y == rx.sequence + k
  <2>2. x \in Nat /\ x < 2 * SeqMod /\ y \in Nat /\ y < 2 * SeqMod
    BY <1>0, <1>1, <2>1
  <2>3. IF rx.sequence + 1 < SeqMod THEN x = y ELSE x = y - SeqMod /\ y >= SeqMod /\ x < SeqMod
    BY <1>0, <1>1, <2>1
  <2> HIDE DEF x, y
  <2>4. x % SeqMod = IF x < SeqMod THEN x ELSE x - SeqMod
    BY <2>2, NumberWraps
  <2>5. y % SeqMod = IF y < SeqMod THEN y ELSE y - SeqMod
    BY <2>2, NumberWraps
  <2>6. x % SeqMod = y % SeqMod
    BY <1>0, <2>2, <2>3, <2>4, <2>5
  <2> QED
    BY <2>6 DEF Number, x, y
<1>2. ASSUME Len(rx'.buffer) = Len(rx.buffer) + CfBytes, k > 0
      PROVE  Place(k - 1)' = Place(k)
  <2>1. CfBytes \in Nat /\ Len(rx.buffer) \in Nat
    BY Constants, LenProperties DEF RxTyping, RxStates
  <2>2. k * CfBytes = (k - 1) * CfBytes + CfBytes /\ (k - 1) * CfBytes \in Nat
    BY <1>2, <2>1
  <2> DEFINE product == (k - 1) * CfBytes
  <2>3. k * CfBytes = product + CfBytes /\ product \in Nat
    BY <2>2
  <2> DEFINE length == Len(rx.buffer)
  <2> HIDE DEF product
  <2>4. Len(rx.buffer) + k * CfBytes = Len(rx.buffer) + (product + CfBytes)
    BY <2>3
  <2>5. length \in Nat
    BY <2>1
  <2> HIDE DEF length
  <2>6. length + (product + CfBytes) = length + CfBytes + product
    BY <2>1, <2>3, <2>5
  <2> QED
    BY <1>2, <2>4, <2>6 DEF Place, product, length
<1> QED
  BY <1>1, <1>2

\* A piece is not empty, and full unless it is the last.
LEMMA PieceIs ==
  ASSUME Typing, NEW place \in Nat, place < Len(offered)
  PROVE  /\ offered \in Seq(Bytes) /\ Len(offered) \in Nat
         /\ Len(Piece(place)) = AtMost(Len(offered) - place, CfBytes)
         /\ Len(Piece(place)) \in 1 .. CfBytes
         /\ place + Len(Piece(place)) <= Len(offered)
         /\ place + Len(Piece(place)) < Len(offered) => Len(Piece(place)) = CfBytes
         /\ SubSeq(offered, 1, place) \o Piece(place) =
              SubSeq(offered, 1, place + Len(Piece(place)))
<1>1. offered \in Seq(Bytes) /\ Len(offered) \in Nat /\ CfBytes \in Nat \ {0}
  BY MessagesAreData, Constants DEF Typing
<1> DEFINE n == AtMost(Len(offered) - place, CfBytes)
<1>2. /\ n \in 1 .. CfBytes /\ place + n <= Len(offered) /\ place + n \in Nat /\ place <= place + n
      /\ place + n < Len(offered) => n = CfBytes
  BY <1>1 DEF AtMost
<1>3. Piece(place) = SubSeq(offered, place + 1, place + n)
  BY DEF Piece
<1> HIDE DEF n
<1>4. Len(SubSeq(offered, place + 1, place + n)) = (place + n) - place
  BY <1>1, <1>2, SliceOf
<1>5. Len(Piece(place)) = n
  BY <1>2, <1>3, <1>4
<1>6. SubSeq(offered, 1, place) \o Piece(place) = SubSeq(offered, 1, place + n)
  BY <1>1, <1>2, <1>3, PrefixGrows
<1> QED
  BY <1>1, <1>2, <1>5, <1>6 DEF n

-----------------------------------------------------------------------------
(* The message under way *)

\* A frame that a receiver takes for the beginning of a message.
Begins(frame) ==
  frame.type = "SF" \/ (frame.type = "FF" /\ frame.length \in SfBytes + 1 .. MaxPayload)

Begun == \E i \in 1 .. Len(fwd) : Begins(fwd[i])

\* No consecutive frame is on the line, and none can be sent before the
\* receiver asks for it.
Quiet ==
  /\ ~TxMayProceed /\ ~Granted
  /\ \A i \in 1 .. Len(fwd) : fwd[i].type # "CF"

\* The beginning of a message is on the line only once, is the offered
\* message's, and nothing else of that message is on its way.
Beginning ==
  /\ \A i, j \in 1 .. Len(fwd) : Begins(fwd[i]) /\ Begins(fwd[j]) => i = j
  /\ \A i \in 1 .. Len(fwd) : Begins(fwd[i]) =>
       \/ fwd[i] = SingleFrame(offered)
       \/ fwd[i] = FirstFrame(offered) /\ Len(offered) > SfBytes
  /\ Begun =>
       /\ Quiet /\ offered # <<>>
       /\ tx.active => tx.payload = offered /\ tx.offset = FfBytes /\ tx.sequence = 1

\* A receiver that is in a message is in the offered one.
Expecting ==
  /\ offered # <<>> /\ rx.expected = Len(offered) /\ Len(rx.buffer) < Len(offered)
  /\ rx.buffer = SubSeq(offered, 1, Len(rx.buffer))
  /\ rx.block < BlockSize

\* How many frames beyond the one the receiver expects each frame on the line
\* is, and, last, the one the transmitter sends next: consecutive frames in
\* the order they were sent, some of them lost.
Distances == [1 .. Len(fwd) + 1 -> Nat]

Ordered(d) ==
  \A i \in 1 .. Len(fwd), j \in 1 .. Len(fwd) + 1 :
    i < j => d[i] <= d[j] /\ (fwd[i].type = "CF" => d[i] < d[j])

Carried(d) ==
  \A i \in 1 .. Len(fwd) : fwd[i].type = "CF" =>
    /\ Place(d[i]) < Len(offered)
    /\ fwd[i] = ConsecutiveFrame(Number(d[i]), Piece(Place(d[i])))

\* A transmitter with something left to send is n frames ahead of the
\* receiver, in the same message and within the same block.
Ahead(n) ==
  /\ rx.block + n <= BlockSize
  /\ tx.active /\ TxRemaining > 0 =>
       /\ tx.payload = offered /\ tx.sequence = Number(n) /\ tx.offset = Place(n)
       /\ tx.waiting /\ Granted => rx.block + n = 0
       /\ ~tx.waiting => tx.block = rx.block + n

Aligned ==
  /\ Expecting /\ ~Begun
  /\ \E d \in Distances, n \in Nat :
       d[Len(fwd) + 1] = n /\ Ordered(d) /\ Carried(d) /\ Ahead(n)

TransferInv == Beginning /\ (rx.active => Quiet \/ Aligned)

\* A block has no more frames than there are numbers for them: 8 and 16.
ShortBlocks == BlockSize \in 1 .. SeqMod

-----------------------------------------------------------------------------
(* How the parts of the invariant are kept *)

\* The beginning of a message is safe while the line only shrinks at its front
\* and the transmitter stays where it is.
LEMMA BeginningKept ==
  ASSUME Beginning, offered' = offered, NEW s \in {0, 1},
         \A i \in 1 .. Len(fwd') : Begins(fwd'[i]) =>
           i + s \in 1 .. Len(fwd) /\ fwd'[i] = fwd[i + s],
         Begun => /\ Quiet'
                  /\ tx'.active => /\ tx.active /\ tx'.payload = tx.payload
                                   /\ tx'.offset = tx.offset /\ tx'.sequence = tx.sequence
  PROVE  Beginning'
<1>1. ASSUME NEW i \in 1 .. Len(fwd'), NEW j \in 1 .. Len(fwd'), Begins(fwd'[i]), Begins(fwd'[j])
      PROVE  i = j
  <2>1. i + s = j + s
    BY <1>1 DEF Beginning
  <2> QED
    BY <2>1
<1>2. ASSUME NEW i \in 1 .. Len(fwd'), Begins(fwd'[i])
      PROVE  \/ fwd'[i] = SingleFrame(offered')
             \/ fwd'[i] = FirstFrame(offered') /\ Len(offered') > SfBytes
  BY <1>2 DEF Beginning
<1>3. ASSUME Begun'
      PROVE  /\ Quiet' /\ offered' # <<>>
             /\ tx'.active => tx'.payload = offered' /\ tx'.offset = FfBytes /\ tx'.sequence = 1
  <2>1. Begun
    BY <1>3 DEF Begun
  <2> QED
    BY <2>1 DEF Beginning
<1>4. Beginning' =
        /\ \A i, j \in 1 .. Len(fwd') : Begins(fwd'[i]) /\ Begins(fwd'[j]) => i = j
        /\ \A i \in 1 .. Len(fwd') : Begins(fwd'[i]) =>
             \/ fwd'[i] = SingleFrame(offered')
             \/ fwd'[i] = FirstFrame(offered') /\ Len(offered') > SfBytes
        /\ Begun' =>
             /\ Quiet' /\ offered' # <<>>
             /\ tx'.active => tx'.payload = offered' /\ tx'.offset = FfBytes /\ tx'.sequence = 1
  BY DEF Beginning, Begins, SingleFrame, FirstFrame
<1> QED
  BY <1>1, <1>2, <1>3, <1>4

\* Nothing begins where nothing did.
LEMMA NothingBegins ==
  ASSUME ~Begun'
  PROVE  Beginning'
BY DEF Begun, Beginning, Begins

\* The distances when a frame is appended to the line ...
LEMMA OrderedAppend ==
  ASSUME Typing, NEW d \in Distances, Ordered(d), NEW frame \in Frames,
         fwd' = Append(fwd, frame),
         NEW n \in Nat, n >= d[Len(fwd) + 1], frame.type = "CF" => n > d[Len(fwd) + 1]
  PROVE  \E e \in Distances' :
           /\ Ordered(e)'
           /\ Len(fwd') = Len(fwd) + 1 /\ e[Len(fwd') + 1] = n
           /\ \A i \in 1 .. Len(fwd) + 1 : e[i] = d[i]
<1>1. /\ Len(fwd) \in Nat /\ Len(fwd') = Len(fwd) + 1 /\ fwd'[Len(fwd) + 1] = frame
      /\ \A i \in 1 .. Len(fwd) : fwd'[i] = fwd[i]
  BY AppendProperties, LenProperties DEF Typing
<1>2. PICK e \in [1 .. Len(fwd) + 2 -> Nat] :
        \A i \in 1 .. Len(fwd) + 2 : e[i] = IF i <= Len(fwd) + 1 THEN d[i] ELSE n
  <2> DEFINE f == [i \in 1 .. Len(fwd) + 2 |-> IF i <= Len(fwd) + 1 THEN d[i] ELSE n]
  <2>1. \A i \in 1 .. Len(fwd) + 2 : (IF i <= Len(fwd) + 1 THEN d[i] ELSE n) \in Nat
    BY <1>1 DEF Distances
  <2>2. f \in [1 .. Len(fwd) + 2 -> Nat]
    BY <2>1
  <2> QED
    BY <2>2
<1>3. e \in Distances' /\ Len(fwd') + 1 = Len(fwd) + 2
  BY <1>1, <1>2 DEF Distances
<1>4. /\ e[Len(fwd) + 2] = n
      /\ \A i \in 1 .. Len(fwd) + 1 : e[i] = d[i]
  BY <1>1, <1>2
<1>5. ASSUME NEW i \in 1 .. Len(fwd) + 1, NEW j \in 1 .. Len(fwd) + 2, i < j
      PROVE  e[i] <= e[j] /\ (fwd'[i].type = "CF" => e[i] < e[j])
  <2>0. \A k \in 1 .. Len(fwd) + 1 : d[k] \in Nat
    BY DEF Distances
  <2>1. \A k \in 1 .. Len(fwd) : d[k] <= d[Len(fwd) + 1]
    BY <1>1 DEF Ordered
  <2>2. CASE j <= Len(fwd) + 1
    <3>1. i \in 1 .. Len(fwd) /\ j \in 1 .. Len(fwd) + 1
      BY <1>1, <1>5, <2>2
    <3> QED
      BY <1>1, <1>4, <1>5, <3>1 DEF Ordered
  <2>3. CASE j = Len(fwd) + 2 /\ i = Len(fwd) + 1
    <3>1. e[j] = n /\ e[i] = d[Len(fwd) + 1] /\ fwd'[i] = frame
      BY <1>1, <1>4, <2>3
    <3> QED
      BY <2>0, <3>1
  <2>4. CASE j = Len(fwd) + 2 /\ i \in 1 .. Len(fwd)
    <3>1. e[j] = n /\ e[i] = d[i] /\ fwd'[i] = fwd[i] /\ d[i] \in Nat
      BY <1>1, <1>4, <2>0, <2>4
    <3>2. Len(fwd) + 1 \in 1 .. Len(fwd) + 1 /\ i < Len(fwd) + 1 /\ d[Len(fwd) + 1] \in Nat
      BY <1>1, <2>0, <2>4
    <3>3. d[i] <= d[Len(fwd) + 1] /\ (fwd[i].type = "CF" => d[i] < d[Len(fwd) + 1])
      BY <2>4, <3>2 DEF Ordered
    <3> QED
      BY <3>1, <3>2, <3>3
  <2> QED
    BY <1>1, <2>2, <2>3, <2>4
<1>6. Ordered(e)'
  BY <1>1, <1>5 DEF Ordered
<1> QED
  BY <1>1, <1>3, <1>4, <1>6

\* ... and when the first is taken from it, n frames nearer.
LEMMA OrderedTail ==
  ASSUME Typing, NEW d \in Distances, Ordered(d), fwd # <<>>, fwd' = Tail(fwd),
         NEW n \in Nat, \A j \in 2 .. Len(fwd) + 1 : n <= d[j]
  PROVE  \E e \in Distances' :
           /\ Ordered(e)'
           /\ Len(fwd') + 1 = Len(fwd) /\ e[Len(fwd') + 1] = d[Len(fwd) + 1] - n
           /\ \A i \in 1 .. Len(fwd) : e[i] = d[i + 1] - n /\ d[i + 1] \in Nat /\ n <= d[i + 1]
<1>1. /\ Len(fwd) \in Nat \ {0} /\ Len(fwd') = Len(fwd) - 1
      /\ \A i \in 1 .. Len(fwd) - 1 : fwd'[i] = fwd[i + 1]
  BY Heads
<1>2. \A i \in 1 .. Len(fwd) : d[i + 1] \in Nat /\ n <= d[i + 1] /\ d[i + 1] - n \in Nat
  <2>1. ASSUME NEW i \in 1 .. Len(fwd)
        PROVE  i + 1 \in 2 .. Len(fwd) + 1 /\ d[i + 1] \in Nat
    BY <1>1 DEF Distances
  <2> QED
    BY <2>1
<1>3. PICK e \in [1 .. Len(fwd) -> Nat] : \A i \in 1 .. Len(fwd) : e[i] = d[i + 1] - n
  <2> DEFINE f == [i \in 1 .. Len(fwd) |-> d[i + 1] - n]
  <2>1. f \in [1 .. Len(fwd) -> Nat]
    BY <1>2
  <2> QED
    BY <2>1
<1>4. e \in Distances' /\ Len(fwd') + 1 = Len(fwd) /\ e[Len(fwd') + 1] = d[Len(fwd) + 1] - n
  BY <1>1, <1>3 DEF Distances
<1>5. ASSUME NEW i \in 1 .. Len(fwd'), NEW j \in 1 .. Len(fwd') + 1, i < j
      PROVE  e[i] <= e[j] /\ (fwd'[i].type = "CF" => e[i] < e[j])
  <2>1. /\ i \in 1 .. Len(fwd) - 1 /\ i \in 1 .. Len(fwd) /\ j \in 1 .. Len(fwd)
        /\ i + 1 \in 1 .. Len(fwd) /\ j + 1 \in 1 .. Len(fwd) + 1 /\ i + 1 < j + 1
    BY <1>1, <1>5
  <2>2. d[i + 1] <= d[j + 1] /\ (fwd[i + 1].type = "CF" => d[i + 1] < d[j + 1])
    BY <2>1 DEF Ordered
  <2>3. e[i] = d[i + 1] - n /\ e[j] = d[j + 1] - n
    BY <1>3, <2>1
  <2>4. d[i + 1] \in Nat /\ d[j + 1] \in Nat /\ fwd'[i] = fwd[i + 1]
    BY <1>1, <1>2, <2>1
  <2> QED
    BY <2>2, <2>3, <2>4
<1>6. Ordered(e)'
  BY <1>5 DEF Ordered
<1> QED
  BY <1>2, <1>3, <1>4, <1>6

-----------------------------------------------------------------------------
(* The steps of the transmitter *)

\* A message starts on a quiet line.
LEMMA InvStart ==
  ASSUME Typing, NEW p \in Payloads, Start(p)
  PROVE  TransferInv'
<1>1. bwd' = <<>> /\ fwd = <<>> /\ offered' = p /\ p # <<>>
  BY LinkAssumption DEF Start
<1>2. PICK frame \in Frames :
        /\ frame.type # "CF" /\ (fwd' = Append(fwd, frame) \/ fwd' = fwd)
        /\ frame = SingleFrame(p) \/ (frame = FirstFrame(p) /\ Len(p) > SfBytes)
  <2>1. CASE TxStartSingle(p) /\ Send(SingleFrame(p))
    BY <2>1, FramesSent, SendIs DEF SingleFrame
  <2>2. CASE TxStartFirst(p, now) /\ Send(FirstFrame(p))
    <3>1. Len(p) > SfBytes
      BY <2>2, Constants DEF TxStartFirst
    <3>2. FirstFrame(p) \in Frames /\ FirstFrame(p).type # "CF"
      BY <3>1, FramesSent DEF FirstFrame
    <3> QED
      BY <2>2, <3>1, <3>2, SendIs
  <2> QED
    BY <2>1, <2>2 DEF Start
<1>3. \A i \in 1 .. Len(fwd') : i = 1 /\ fwd'[i] = frame
  <2>1. CASE fwd' = <<>>
    BY <2>1, EmptySeq
  <2>2. CASE fwd' = Append(fwd, frame)
    BY <1>1, <2>2, AppendProperties, EmptySeq DEF Typing
  <2> QED
    BY <1>1, <1>2, <2>1, <2>2
<1>4. /\ ~TxMayProceed'
      /\ tx'.active => tx'.payload = p /\ tx'.offset = FfBytes /\ tx'.sequence = 1
  BY TxStartIs DEF Start, Typing, TxMayProceed
<1>5. ~Granted'
  BY <1>1, EmptySeq DEF Granted
<1>6. Quiet'
  BY <1>2, <1>3, <1>4, <1>5 DEF Quiet
<1>7. Beginning'
  <2>1. \A i \in 1 .. Len(fwd') :
          \/ fwd'[i] = SingleFrame(offered')
          \/ fwd'[i] = FirstFrame(offered') /\ Len(offered') > SfBytes
    BY <1>1, <1>2, <1>3
  <2>2. \A i, j \in 1 .. Len(fwd') : i = j
    BY <1>3
  <2> QED
    BY <1>1, <1>4, <1>6, <2>1, <2>2 DEF Beginning, SingleFrame, FirstFrame
<1> QED
  BY <1>6, <1>7 DEF TransferInv

\* The transmitter stays at its place in its message, or leaves it.
TxStays ==
  tx'.active => /\ tx.active /\ tx'.payload = tx.payload
                /\ tx'.offset = tx.offset /\ tx'.sequence = tx.sequence

\* A step that touches neither the receiver nor the frames on their way to
\* it, and lets the transmitter go on only at a grant.
LEMMA SameLine ==
  ASSUME TransferInv, fwd' = fwd, rx' = rx, offered' = offered, Granted' => Granted, TxStays,
         \/ tx'.active => tx'.waiting = tx.waiting /\ tx'.block = tx.block
         \/ Granted /\ tx.waiting /\ ~tx'.waiting /\ tx'.block = 0
  PROVE  TransferInv'
<1>1. Quiet => Quiet'
  BY DEF Quiet, TxMayProceed, TxStays
<1>2. Beginning'
  <2>1. \A i \in 1 .. Len(fwd') : i + 0 \in 1 .. Len(fwd) /\ fwd'[i] = fwd[i + 0]
    OBVIOUS
  <2>2. /\ 0 \in {0, 1} /\ Beginning
        /\ Begun => /\ Quiet'
                    /\ tx'.active => /\ tx.active /\ tx'.payload = tx.payload
                                     /\ tx'.offset = tx.offset /\ tx'.sequence = tx.sequence
    BY <1>1 DEF TransferInv, Beginning, TxStays
  <2> QED
    BY <2>1, <2>2, BeginningKept
<1>3. ASSUME Aligned
      PROVE  Aligned'
  <2>1. Expecting' /\ ~Begun'
    BY <1>3 DEF Aligned, Expecting, Begun, Begins
  <2>2. PICK d \in Distances, n \in Nat :
          d[Len(fwd) + 1] = n /\ Ordered(d) /\ Carried(d) /\ Ahead(n)
    BY <1>3 DEF Aligned
  <2>3. d \in Distances' /\ Ordered(d)' /\ Carried(d)'
    BY <2>2 DEF Distances, Ordered, Carried, Place, Number, Piece, ConsecutiveFrame
  <2>4. Ahead(n)'
    <3>1. /\ rx.block + n <= BlockSize
          /\ tx'.active /\ TxRemaining' > 0 =>
               /\ tx'.payload = offered /\ tx'.sequence = Number(n) /\ tx'.offset = Place(n)
               /\ tx'.waiting /\ Granted' => rx.block + n = 0
               /\ ~tx'.waiting => tx'.block = rx.block + n
      BY <2>2 DEF Ahead, TxStays, TxRemaining
    <3>2. Number(n)' = Number(n) /\ Place(n)' = Place(n)
      BY DEF Number, Place
    <3> QED
      BY <3>1, <3>2 DEF Ahead
  <2>5. d[Len(fwd') + 1] = n
    BY <2>2
  <2> QED
    BY <2>1, <2>3, <2>4, <2>5 DEF Aligned
<1> QED
  BY <1>1, <1>2, <1>3 DEF TransferInv

\* A flow control lets the transmitter go on only at a grant.
LEMMA InvFeed ==
  ASSUME Typing, TransferInv, TxFeed
  PROVE  TransferInv'
<1>1. /\ Head(bwd) = bwd[1] /\ Head(bwd) \in Controls /\ Len(bwd) \in Nat \ {0}
      /\ bwd' = Tail(bwd) /\ Len(bwd') = Len(bwd) - 1
      /\ \A i \in 1 .. Len(bwd) - 1 : bwd'[i] = bwd[i + 1]
  BY Heads DEF TxFeed
<1>2. Granted' => Granted
  <2>1. \A i \in 1 .. Len(bwd') : i + 1 \in 1 .. Len(bwd) /\ bwd'[i] = bwd[i + 1]
    BY <1>1
  <2> QED
    BY <2>1 DEF Granted, Grants
<1>3. /\ TxStays
      /\ \/ tx'.active => tx'.waiting = tx.waiting /\ tx'.block = tx.block
         \/ Granted /\ tx.waiting /\ ~tx'.waiting /\ tx'.block = 0
  <2> DEFINE fc == Head(bwd)
  <2>1. CASE TxFeedUnexpected \/ TxFeedUnknown(fc)
    BY <2>1 DEF TxFeedUnexpected, TxFeedUnknown, TxStays
  <2>2. CASE TxFeedAbort(fc)
    BY <2>2 DEF TxFeedAbort, TxReset, TxIdle, TxStays
  <2>3. CASE TxFeedWait(fc, now)
    BY <2>3 DEF TxFeedWait, TxExpectsFlowControl, TxHeard, TxStays, Typing, TxTyping, TxStates
  <2>4. CASE TxFeedContinue(fc, now)
    <3>1. 1 \in 1 .. Len(bwd) /\ Grants(bwd[1])
      BY <1>1, <2>4 DEF TxFeedContinue, Grants
    <3>2. TxStays /\ tx.waiting /\ ~tx'.waiting /\ tx'.block = 0
      BY <2>4 DEF TxFeedContinue, TxExpectsFlowControl, TxHeard, TxStays, Typing, TxTyping,
                  TxStates
    <3> QED
      BY <3>1, <3>2 DEF Granted
  <2> QED
    BY <2>1, <2>2, <2>3, <2>4 DEF TxFeed
<1> QED
  BY <1>2, <1>3, SameLine DEF TxFeed, messageVars

\* A consecutive frame is one further than all on the line, whether or not it
\* is lost.
LEMMA InvSend ==
  ASSUME Typing, Credit, ShortBlocks, TransferInv, TxSend
  PROVE  TransferInv'
<1>1. /\ TxMayProceed /\ TxRemaining > 0
      /\ tx'.offset = tx.offset + Len(TxNextData)
      /\ tx'.payload = tx.payload /\ tx'.active = tx.active
      /\ tx'.sequence = (tx.sequence + 1) % SeqMod
      /\ tx'.waiting = TxBlockEnds(tx'.offset)
      /\ tx'.block = IF TxBlockEnds(tx'.offset) THEN 0 ELSE tx.block + 1
  BY TxSendIs DEF TxSend, Typing
<1>2. bwd' = <<>> /\ rx' = rx /\ offered' = offered /\ ~Granted'
  BY EmptySeq DEF TxSend, messageVars, Granted
<1>3. TxNextFrame \in Frames /\ TxNextFrame.type = "CF" /\ ~Begins(TxNextFrame)
  BY <1>1, FramesSent DEF Typing, TxNextFrame, ConsecutiveFrame, Begins
<1>4. fwd' = Append(fwd, TxNextFrame) \/ fwd' = fwd
  BY <1>3, SendIs DEF TxSend
<1>5. ~Quiet /\ ~Begun
  BY <1>1 DEF Quiet, TransferInv, Beginning
<1>6. ~Begun'
  <2>1. \A i \in 1 .. Len(fwd') :
          fwd'[i] = TxNextFrame \/ (i \in 1 .. Len(fwd) /\ fwd'[i] = fwd[i])
    BY <1>3, <1>4, AppendProperties DEF Typing
  <2> QED
    BY <1>3, <1>5, <2>1 DEF Begun, Begins
<1>7. ASSUME Aligned
      PROVE  Aligned'
  <2>1. Expecting'
    BY <1>2, <1>7 DEF Aligned, Expecting
  <2>2. PICK d \in Distances, n \in Nat :
          d[Len(fwd) + 1] = n /\ Ordered(d) /\ Carried(d) /\ Ahead(n)
    BY <1>7 DEF Aligned
  <2>3. n \in Nat /\ rx.block \in Nat /\ tx.block \in Nat /\ BlockSize \in Nat /\ Len(fwd) \in Nat
        /\ rx.block + n <= BlockSize
    BY <2>2, Constants, LenProperties
       DEF Typing, TxTyping, RxTyping, TxStates, RxStates, Ahead
  <2>4. /\ tx.payload = offered /\ tx.sequence = Number(n) /\ tx.offset = Place(n)
        /\ tx.block = rx.block + n
    BY <1>1, <2>2 DEF Ahead, TxMayProceed
  <2>5. tx.block < BlockSize /\ n < SeqMod /\ rx.block + (n + 1) <= BlockSize
    BY <2>3, <2>4, SendsWithinBlock, Constants DEF ShortBlocks
  <2>6. Place(n) \in Nat /\ Place(n) < Len(offered) /\ TxNextData = Piece(Place(n))
    <3>1. Place(n) \in Nat
      BY <2>3, Places DEF Typing
    <3>2. Len(tx.payload) \in Nat
      BY <1>1, TxPiece DEF Typing
    <3> QED
      BY <1>1, <2>4, <3>1, <3>2 DEF TxRemaining, TxNextData, Piece
  <2>7. TxNextFrame = ConsecutiveFrame(Number(n), Piece(Place(n)))
    BY <2>4, <2>6 DEF TxNextFrame
  <2> DEFINE m == n + 1
  <2>8. m \in Nat /\ Ahead(m)'
    <3>1. TxRemaining' > 0 => tx'.offset = Place(n + 1)
      <4> SUFFICES ASSUME TxRemaining' > 0 PROVE tx'.offset = Place(n + 1)
        OBVIOUS
      <4>1. tx'.offset = Place(n) + Len(Piece(Place(n)))
        BY <1>1, <2>4, <2>6
      <4>2. /\ Len(Piece(Place(n))) \in Nat /\ Len(offered) \in Nat
            /\ Place(n) + Len(Piece(Place(n))) < Len(offered) => Len(Piece(Place(n))) = CfBytes
        BY <2>6, PieceIs, Constants
      <4>3. Place(n) + Len(Piece(Place(n))) < Len(offered)
        BY <1>1, <2>4, <2>6, <4>1, <4>2 DEF TxRemaining
      <4> QED
        BY <2>3, <4>1, <4>2, <4>3, Places DEF Typing
    <3>2. tx'.sequence = Number(n + 1)
      BY <1>1, <2>3, <2>4, <2>5, Numbers DEF Typing
    <3>3. ~tx'.waiting => tx'.block = rx.block + (n + 1)
      BY <1>1, <2>3, <2>4
    <3>4. Number(n + 1)' = Number(n + 1) /\ Place(n + 1)' = Place(n + 1)
      BY <1>2 DEF Number, Place
    <3>5. /\ rx'.block + (n + 1) <= BlockSize
          /\ TxRemaining' > 0 => /\ tx'.payload = offered' /\ tx'.sequence = Number(n + 1)'
                                 /\ tx'.offset = Place(n + 1)'
          /\ ~tx'.waiting => tx'.block = rx'.block + (n + 1)
      BY <1>1, <1>2, <2>4, <2>5, <3>1, <3>2, <3>3, <3>4
    <3> QED
      BY <1>2, <2>3, <3>5 DEF Ahead
  <2>9. CASE fwd' = fwd
    \* The frame is lost: the next one is one further.
    <3>1. PICK e \in Distances : 
            /\ \A i \in 1 .. Len(fwd) : e[i] = d[i]
            /\ e[Len(fwd) + 1] = n + 1
      <4> DEFINE f == [i \in 1 .. Len(fwd) + 1 |-> IF i <= Len(fwd) THEN d[i] ELSE n + 1]
      <4>1. \A i \in 1 .. Len(fwd) + 1 : (IF i <= Len(fwd) THEN d[i] ELSE n + 1) \in Nat
        BY <2>3 DEF Distances
      <4>2. f \in Distances
        BY <4>1 DEF Distances
      <4> QED
        BY <2>3, <4>2
    <3>2. Ordered(e)'
      <4>1. ASSUME NEW i \in 1 .. Len(fwd), NEW j \in 1 .. Len(fwd) + 1, i < j
            PROVE  e[i] <= e[j] /\ (fwd[i].type = "CF" => e[i] < e[j])
        <5>1. d[i] <= d[j] /\ (fwd[i].type = "CF" => d[i] < d[j]) /\ e[i] = d[i]
          BY <2>2, <3>1, <4>1 DEF Ordered
        <5>2. e[j] = d[j] \/ (j = Len(fwd) + 1 /\ e[j] = n + 1 /\ d[j] = n)
          BY <2>2, <2>3, <3>1
        <5>3. d[i] \in Nat /\ d[j] \in Nat
          BY <2>3 DEF Distances
        <5> QED
          BY <2>3, <5>1, <5>2, <5>3
      <4> QED
        BY <2>9, <4>1 DEF Ordered
    <3>3. Carried(e)'
      BY <1>2, <2>2, <2>9, <3>1 DEF Carried, Place, Number, Piece, ConsecutiveFrame
    <3>4. e \in Distances' /\ e[Len(fwd') + 1] = m
      BY <2>9, <3>1 DEF Distances
    <3> HIDE DEF m
    <3> QED
      BY <1>6, <2>1, <2>8, <3>2, <3>3, <3>4 DEF Aligned
  <2>10. CASE fwd' = Append(fwd, TxNextFrame)
    <3>1. PICK e \in Distances' :
            /\ Ordered(e)' /\ Len(fwd') = Len(fwd) + 1 /\ e[Len(fwd') + 1] = n + 1
            /\ \A i \in 1 .. Len(fwd) + 1 : e[i] = d[i]
      <4>1. n + 1 \in Nat /\ n + 1 >= d[Len(fwd) + 1] /\ n + 1 > d[Len(fwd) + 1]
        BY <2>2, <2>3
      <4> QED
        BY <1>3, <2>2, <2>10, <4>1, OrderedAppend
    <3>2. ASSUME NEW i \in 1 .. Len(fwd'), fwd'[i].type = "CF"
          PROVE  /\ Place(e[i])' < Len(offered')
                 /\ fwd'[i] = ConsecutiveFrame(Number(e[i])', Piece(Place(e[i]))')
      <4>1. /\ Place(e[i])' = Place(e[i]) /\ Number(e[i])' = Number(e[i])
            /\ Piece(Place(e[i]))' = Piece(Place(e[i]))
        BY <1>2 DEF Place, Number, Piece
      <4>2. CASE i \in 1 .. Len(fwd)
        <5>1. fwd'[i] = fwd[i] /\ e[i] = d[i]
          BY <1>3, <2>10, <3>1, <4>2, AppendProperties DEF Typing
        <5>2. Place(d[i]) < Len(offered)
              /\ fwd[i] = ConsecutiveFrame(Number(d[i]), Piece(Place(d[i])))
          BY <2>2, <3>2, <4>2, <5>1 DEF Carried
        <5> QED
          BY <1>2, <4>1, <5>1, <5>2
      <4>3. CASE i = Len(fwd) + 1
        <5>1. fwd'[i] = TxNextFrame /\ e[i] = n
          BY <1>3, <2>2, <2>3, <2>10, <3>1, <4>3, AppendProperties DEF Typing
        <5> QED
          BY <1>2, <2>6, <2>7, <4>1, <5>1
      <4> QED
        BY <2>3, <3>1, <4>2, <4>3
    <3>3. Carried(e)'
      BY <3>2 DEF Carried, ConsecutiveFrame
    <3>4. e[Len(fwd') + 1] = m
      BY <3>1
    <3> HIDE DEF m
    <3> QED
      BY <1>6, <2>1, <2>8, <3>1, <3>3, <3>4 DEF Aligned
  <2> QED
    BY <1>4, <2>9, <2>10
<1> QED
  BY <1>2, <1>5, <1>6, <1>7, NothingBegins DEF TransferInv

-----------------------------------------------------------------------------
(* The steps of the receiver *)

\* What is left of the line when the receiver has read a frame.
LEMMA LineTail ==
  ASSUME Typing, Receive
  PROVE  /\ Len(fwd) \in Nat \ {0} /\ Head(fwd) \in Frames /\ Head(fwd) = fwd[1]
         /\ 1 \in 1 .. Len(fwd) /\ fwd # <<>> /\ fwd' = Tail(fwd) /\ Len(fwd') = Len(fwd) - 1
         /\ \A i \in 1 .. Len(fwd') : i + 1 \in 2 .. Len(fwd) /\ fwd'[i] = fwd[i + 1]
         /\ Begun' => Begun
         /\ Beginning /\ Begins(Head(fwd)) => ~Begun'
<1>1. /\ Len(fwd) \in Nat \ {0} /\ Head(fwd) \in Frames /\ Head(fwd) = fwd[1] /\ fwd' = Tail(fwd)
      /\ Len(fwd') = Len(fwd) - 1 /\ fwd # <<>>
      /\ \A i \in 1 .. Len(fwd) - 1 : fwd'[i] = fwd[i + 1]
  BY Heads DEF Receive
<1>2. /\ 1 \in 1 .. Len(fwd)
      /\ \A i \in 1 .. Len(fwd') : i + 1 \in 2 .. Len(fwd) /\ fwd'[i] = fwd[i + 1]
  BY <1>1
<1>3. \A i \in 1 .. Len(fwd') : i + 1 \in 1 .. Len(fwd) /\ i + 1 # 1
  BY <1>1
<1>4. Begun' => Begun
  BY <1>2, <1>3 DEF Begun, Begins
<1>5. Beginning /\ Begins(Head(fwd)) => ~Begun'
  BY <1>1, <1>2, <1>3 DEF Begun, Beginning, Begins
<1> QED
  BY <1>1, <1>2, <1>4, <1>5

\* A frame that begins nothing is taken from the line.
LEMMA BeginningTail ==
  ASSUME Typing, Receive, Beginning, UNCHANGED <<tx, bwd, offered>>
  PROVE  /\ Beginning' /\ (Quiet => Quiet')
<1>1. \A i \in 1 .. Len(fwd') : i + 1 \in 1 .. Len(fwd) /\ fwd'[i] = fwd[i + 1]
  BY LineTail
<1>2. Quiet => Quiet'
  BY <1>1 DEF Quiet, TxMayProceed, Granted
<1>3. Begun => /\ Quiet'
               /\ tx'.active => /\ tx.active /\ tx'.payload = tx.payload
                                /\ tx'.offset = tx.offset /\ tx'.sequence = tx.sequence
  BY <1>2 DEF Beginning
<1>4. 1 \in {0, 1} /\ offered' = offered
  OBVIOUS
<1> QED
  BY <1>1, <1>2, <1>3, <1>4, BeginningKept

\* A frame the receiver refuses changes no distance.
LEMMA InvReject ==
  ASSUME Typing, TransferInv, RxReject
  PROVE  TransferInv'
<1>1. Receive /\ UNCHANGED <<tx, bwd, offered>>
  BY DEF RxReject, messageVars
<1>2. Beginning' /\ (Quiet => Quiet')
  BY <1>1, BeginningTail DEF TransferInv
<1>3. CASE RxReset
  BY <1>2, <1>3, RxResetTyping DEF TransferInv
<1>4. CASE RxFeedUnexpected(Head(fwd)) /\ ~rx.active
  BY <1>2, <1>4 DEF RxFeedUnexpected, TransferInv
<1>5. CASE RxFeedUnexpected(Head(fwd)) /\ Head(fwd).type = "FC" /\ rx.active
  <2>1. rx' = rx
    BY <1>5 DEF RxFeedUnexpected
  <2>2. ASSUME Aligned
        PROVE  Aligned'
    <3>1. Expecting' /\ ~Begun'
      BY <1>1, <2>1, <2>2, LineTail DEF Aligned, Expecting
    <3>2. PICK d \in Distances, n \in Nat :
            d[Len(fwd) + 1] = n /\ Ordered(d) /\ Carried(d) /\ Ahead(n)
      BY <2>2 DEF Aligned
    <3>3. PICK e \in Distances' :
            /\ Ordered(e)'
            /\ Len(fwd') + 1 = Len(fwd) /\ e[Len(fwd') + 1] = d[Len(fwd) + 1] - 0
            /\ \A i \in 1 .. Len(fwd) : e[i] = d[i + 1] - 0 /\ d[i + 1] \in Nat /\ 0 <= d[i + 1]
      <4>1. \A j \in 2 .. Len(fwd) + 1 : 0 <= d[j]
        BY <1>1, LineTail DEF Distances
      <4> QED
        BY <1>1, <3>2, <4>1, LineTail, OrderedTail
    <3>4. \A i \in 1 .. Len(fwd') : e[i] = d[i + 1]
      BY <1>1, <3>3, LineTail
    <3>5. Carried(e)'
      <4>1. ASSUME NEW i \in 1 .. Len(fwd'), fwd'[i].type = "CF"
            PROVE  /\ Place(e[i])' < Len(offered')
                   /\ fwd'[i] = ConsecutiveFrame(Number(e[i])', Piece(Place(e[i]))')
        <5>1. i + 1 \in 1 .. Len(fwd) /\ fwd'[i] = fwd[i + 1] /\ e[i] = d[i + 1]
          BY <1>1, <3>4, LineTail
        <5>2. /\ Place(d[i + 1]) < Len(offered)
              /\ fwd[i + 1] = ConsecutiveFrame(Number(d[i + 1]), Piece(Place(d[i + 1])))
          BY <3>2, <4>1, <5>1 DEF Carried
        <5>3. /\ Place(e[i])' = Place(d[i + 1]) /\ Number(e[i])' = Number(d[i + 1])
              /\ Piece(Place(e[i]))' = Piece(Place(d[i + 1]))
          BY <1>1, <2>1, <5>1 DEF Place, Number, Piece
        <5> QED
          BY <1>1, <5>1, <5>2, <5>3
      <4> QED
        BY <4>1 DEF Carried, ConsecutiveFrame
    <3>6. Ahead(n)'
      BY <1>1, <2>1, <3>2 DEF Ahead, TxRemaining, Number, Place, Granted
    <3>7. e[Len(fwd') + 1] = n
      BY <3>2, <3>3
    <3> QED
      BY <3>1, <3>3, <3>5, <3>6, <3>7 DEF Aligned
  <2> QED
    BY <1>2, <2>1, <2>2 DEF TransferInv
<1> QED
  BY <1>3, <1>4, <1>5 DEF RxReject, RxFeedBadLength, RxFeedOutOfSequence, RxFeedUnexpected

\* A receiver that times out is in no message.
LEMMA InvRxTick ==
  ASSUME Typing, TransferInv, RxTick
  PROVE  TransferInv'
<1>0. UNCHANGED <<tx, bwd, fwd, offered>>
  BY DEF RxTick, lineVars, messageVars
<1>1. CASE rx' = rx
  BY <1>0, <1>1, SameLine DEF Granted, TxStays
<1>2. CASE ~rx'.active
  <2>1. Beginning'
    BY <1>0 DEF TransferInv, Beginning, Begun, Quiet, TxMayProceed, Granted, Begins, SingleFrame,
                FirstFrame
  <2> QED
    BY <1>2, <2>1 DEF TransferInv
<1> QED
  BY <1>1, <1>2, RxTickIs DEF RxTick, Typing

\* A single frame is the offered message.
LEMMA InvSingle ==
  ASSUME Typing, TransferInv, RxSingle
  PROVE  /\ TransferInv'
         /\ offered # <<>> /\ delivered' = offered /\ offered' = <<>>
<1>1. Receive /\ Head(fwd).type = "SF" /\ RxReset /\ Deliver(Head(fwd).data)
  BY DEF RxSingle, RxFeedSingle
<1>2. Begins(fwd[1]) /\ Begun /\ ~Begun'
  BY <1>1, LineTail DEF Begins, Begun, TransferInv
<1>3. offered # <<>> /\ fwd[1] = SingleFrame(offered)
  BY <1>1, <1>2, LineTail DEF TransferInv, Beginning, FirstFrame
<1>4. Head(fwd).data = offered
  BY <1>1, <1>3, LineTail DEF SingleFrame
<1> QED
  BY <1>1, <1>2, <1>3, <1>4, RxResetTyping, NothingBegins DEF TransferInv, Deliver

\* A first frame starts the offered message.
LEMMA InvFirst ==
  ASSUME Typing, ShortBlocks, TransferInv, RxData, RxFeedFirst(Head(fwd), now)
  PROVE  TransferInv' /\ UNCHANGED messageVars
<1>1. Receive /\ Head(fwd).type = "FF" /\ Head(fwd).length \in SfBytes + 1 .. MaxPayload
  BY DEF RxData, RxFeedFirst
<1>2. Begins(fwd[1]) /\ Begun /\ ~Begun'
  BY <1>1, LineTail DEF Begins, Begun, TransferInv
<1>3. /\ offered # <<>> /\ fwd[1] = FirstFrame(offered) /\ Len(offered) > SfBytes /\ Quiet
      /\ tx.active => tx.payload = offered /\ tx.offset = FfBytes /\ tx.sequence = 1
  BY <1>1, <1>2, LineTail DEF TransferInv, Beginning, SingleFrame
<1>4. /\ Head(fwd).length = Len(offered) /\ Head(fwd).data = SubSeq(offered, 1, FfBytes)
      /\ offered \in Seq(Bytes) /\ Len(offered) \in Nat /\ FfBytes \in Nat
      /\ FfBytes <= Len(offered) /\ FfBytes < Len(offered)
  <2>1. offered \in Seq(Bytes) /\ Len(offered) \in Nat
    BY MessagesAreData DEF Typing
  <2>2. FfBytes \in Nat /\ FfBytes <= Len(offered) /\ FfBytes < Len(offered)
    BY <1>3, <2>1, Constants
  <2>3. Head(fwd).length = Len(offered) /\ Head(fwd).data = SubSeq(offered, 1, FfBytes)
    BY <1>1, <1>3, LineTail DEF FirstFrame
  <2> QED
    BY <2>1, <2>2, <2>3
<1>5. Len(SubSeq(offered, 1, FfBytes)) = FfBytes
  BY <1>4, PrefixIs
<1>6. /\ RxTyping' /\ rx'.active /\ rx'.sequence = 1 /\ rx'.block = 0
      /\ rx'.expected = Len(offered) /\ rx'.buffer = SubSeq(offered, 1, FfBytes)
      /\ Len(rx'.buffer) = FfBytes
  BY <1>1, <1>4, <1>5, LineTail, RxFirstIs DEF Typing
<1>7. UNCHANGED <<tx, messageVars>>
  BY <1>1 DEF RxData, RxCompletes, RxInSequence
<1>8. Expecting' /\ ~Begun'
  BY <1>2, <1>3, <1>4, <1>6, <1>7, Constants DEF Expecting, ShortBlocks, messageVars
<1>9. PICK e \in Distances' : \A i \in 1 .. Len(fwd') + 1 : e[i] = 0
  <2> DEFINE f == [i \in 1 .. Len(fwd') + 1 |-> 0]
  <2>1. f \in [1 .. Len(fwd') + 1 -> Nat]
    OBVIOUS
  <2> QED
    BY <2>1 DEF Distances
<1>10. \A i \in 1 .. Len(fwd') : fwd'[i].type # "CF"
  BY <1>1, <1>3, LineTail DEF Quiet
<1>11. Len(fwd') \in Nat
  BY <1>1, LineTail
<1>12. Ordered(e)' /\ Carried(e)'
  BY <1>9, <1>10, <1>11 DEF Ordered, Carried
<1>13. Ahead(0)'
  <2>1. Number(0)' = 1
    BY <1>6, NumberWraps, Constants DEF Number
  <2>2. Place(0)' = FfBytes
    BY <1>4, <1>6, Constants DEF Place
  <2>3. tx.active => tx.waiting
    BY <1>3 DEF Quiet, TxMayProceed
  <2>4. rx'.block + 0 = 0 /\ 0 <= BlockSize
    BY <1>6, Constants
  <2> QED
    BY <1>3, <1>7, <2>1, <2>2, <2>3, <2>4 DEF Ahead, messageVars
<1>14. e[Len(fwd') + 1] = 0
  BY <1>9, <1>11
<1>15. Aligned'
  BY <1>8, <1>9, <1>12, <1>13, <1>14 DEF Aligned
<1> QED
  BY <1>2, <1>7, <1>15, NothingBegins DEF TransferInv

\* A consecutive frame in sequence carries the piece the receiver lacks.
LEMMA NextPiece ==
  ASSUME Typing, ShortBlocks, TransferInv, Receive, RxInSequence(Head(fwd))
  PROVE  /\ Aligned
         /\ Head(fwd).data = Piece(Len(rx.buffer))
         /\ \A d \in Distances : Ordered(d) /\ Carried(d) /\ Ahead(d[Len(fwd) + 1]) => d[1] = 0
<1> DEFINE frame == Head(fwd)
<1>0. rx.active /\ frame.type = "CF" /\ frame = fwd[1] /\ frame.sequence = rx.sequence
      /\ 1 \in 1 .. Len(fwd) /\ Len(fwd) \in Nat
  BY LineTail DEF RxInSequence
<1>1. Aligned
  BY <1>0 DEF TransferInv, Quiet
<1>2. ASSUME NEW d \in Distances, Ordered(d), Carried(d), Ahead(d[Len(fwd) + 1])
      PROVE  d[1] = 0 /\ frame.data = Piece(Len(rx.buffer))
  <2>1. d[1] \in Nat /\ d[Len(fwd) + 1] \in Nat /\ d[1] < d[Len(fwd) + 1]
    BY <1>0, <1>2 DEF Distances, Ordered
  <2>2. rx.block \in Nat /\ rx.block + d[Len(fwd) + 1] <= BlockSize /\ BlockSize <= SeqMod
        /\ BlockSize \in Nat /\ SeqMod \in Nat
    BY <1>2, Constants DEF Typing, RxTyping, RxStates, Ahead, ShortBlocks
  <2>3. d[1] < SeqMod
    BY <2>1, <2>2
  <2>4. frame = ConsecutiveFrame(Number(d[1]), Piece(Place(d[1])))
    BY <1>0, <1>2 DEF Carried
  <2>5. Number(d[1]) = rx.sequence /\ frame.data = Piece(Place(d[1]))
    BY <1>0, <2>4 DEF ConsecutiveFrame
  <2>6. d[1] = 0
    BY <2>1, <2>3, <2>5, Numbers DEF Typing
  <2>7. Place(0) = Len(rx.buffer)
    BY Places DEF Typing
  <2> QED
    BY <2>5, <2>6, <2>7
<1>3. PICK d \in Distances, n \in Nat :
        d[Len(fwd) + 1] = n /\ Ordered(d) /\ Carried(d) /\ Ahead(n)
  BY <1>1 DEF Aligned
<1>4. Ahead(d[Len(fwd) + 1])
  BY <1>3
<1> QED
  BY <1>1, <1>2, <1>3, <1>4

\* What the buffer of a receiver within the offered message becomes when the
\* next piece is copied: a longer part of that message, and the whole of it
\* when the code takes it for complete.
LEMMA FilledIs ==
  ASSUME Typing, NEW frame, RxInSequence(frame), frame.data = Piece(Len(rx.buffer)),
         Len(rx.buffer) < Len(offered), rx.buffer = SubSeq(offered, 1, Len(rx.buffer)),
         rx.expected = Len(offered), offered # <<>>
  PROVE  /\ offered \in Seq(Bytes) /\ Len(offered) \in Nat
         /\ RxCompletes(frame) =>
              RxFilled(frame) = offered /\ Len(rx.buffer) + CfBytes >= Len(offered)
         /\ ~RxCompletes(frame) =>
              /\ Len(RxFilled(frame)) < Len(offered)
              /\ Len(RxFilled(frame)) = Len(rx.buffer) + CfBytes
              /\ RxFilled(frame) = SubSeq(offered, 1, Len(RxFilled(frame)))
<1> DEFINE place == Len(rx.buffer)
           piece == Piece(place)
<1>1. /\ place \in Nat /\ place < Len(offered) /\ rx.buffer = SubSeq(offered, 1, place)
      /\ rx.expected = Len(offered) /\ offered # <<>> /\ frame.data = piece
  BY LenProperties DEF Typing, RxTyping, RxStates
<1>2. /\ offered \in Seq(Bytes) /\ Len(offered) \in Nat
      /\ Len(piece) \in 1 .. CfBytes
      /\ place + Len(piece) <= Len(offered)
      /\ place + Len(piece) < Len(offered) => Len(piece) = CfBytes
      /\ SubSeq(offered, 1, place) \o piece = SubSeq(offered, 1, place + Len(piece))
  BY <1>1, PieceIs
<1>3. piece \in Seq(Bytes) /\ Len(piece) \in Nat /\ Len(piece) <= Len(offered) - place
  <2>0. Len(piece) \in Nat /\ Len(piece) <= Len(offered) - place
    <3> HIDE DEF piece, place
    <3> QED
      BY <1>1, <1>2, Constants
  <2>1. piece \in Seq(Bytes)
    <3>1. AtMost(Len(offered) - place, CfBytes) = Len(piece)
      BY <1>1, PieceIs
    <3>2. piece = SubSeq(offered, place + 1, place + Len(piece))
      BY <3>1 DEF Piece
    <3> HIDE DEF piece, place
    <3>3. place <= place + Len(piece) /\ place + Len(piece) \in Nat
      BY <1>1, <2>0
    <3> QED
      BY <1>1, <1>2, <3>2, <3>3, SliceOf
  <2> QED
    BY <2>0, <2>1
<1> HIDE DEF piece, place
<1>4. SubSeq(piece, 1, AtMost(Len(piece), Len(offered) - place)) = piece
  <2>1. AtMost(Len(piece), Len(offered) - place) = Len(piece)
    BY <1>1, <1>2, <1>3 DEF AtMost
  <2> QED
    BY <1>3, <2>1, SubSeqFull
<1>5. RxFilled(frame) = SubSeq(offered, 1, place + Len(piece))
  BY <1>1, <1>2, <1>4 DEF RxFilled, place
<1>6. Len(RxFilled(frame)) = place + Len(piece)
  BY <1>1, <1>2, <1>3, <1>5, PrefixIs
<1>7. RxCompletes(frame) <=> place + Len(piece) >= Len(offered)
  BY <1>1, <1>6 DEF RxCompletes
<1>8. CASE RxCompletes(frame)
  <2>1. place + Len(piece) = Len(offered)
    BY <1>1, <1>2, <1>3, <1>7, <1>8
  <2>2. place + CfBytes >= Len(offered)
    BY <1>1, <1>2, <1>3, <2>1, Constants
  <2> QED
    BY <1>1, <1>2, <1>5, <1>8, <2>1, <2>2, SubSeqFull DEF place
<1>9. CASE ~RxCompletes(frame)
  <2>1. place + Len(piece) < Len(offered)
    BY <1>1, <1>2, <1>3, <1>7, <1>9
  <2> QED
    BY <1>1, <1>2, <1>5, <1>6, <1>9, <2>1 DEF place
<1> QED
  BY <1>8, <1>9

\* What a consecutive frame in sequence makes of it.
LEMMA NextFilled ==
  ASSUME Typing, ShortBlocks, TransferInv, Receive, RxInSequence(Head(fwd))
  PROVE  /\ offered \in Seq(Bytes) /\ Len(offered) \in Nat /\ offered # <<>>
         /\ RxCompletes(Head(fwd)) => RxFilled(Head(fwd)) = offered
         /\ ~RxCompletes(Head(fwd)) =>
              /\ Len(RxFilled(Head(fwd))) < Len(offered)
              /\ Len(RxFilled(Head(fwd))) = Len(rx.buffer) + CfBytes
              /\ RxFilled(Head(fwd)) = SubSeq(offered, 1, Len(RxFilled(Head(fwd))))
BY NextPiece, FilledIs DEF Aligned, Expecting

\* A consecutive frame that completes the message hands over what was offered.
LEMMA InvCompletes ==
  ASSUME Typing, ShortBlocks, TransferInv, RxData, RxCompletes(Head(fwd))
  PROVE  /\ TransferInv'
         /\ offered # <<>> /\ delivered' = offered /\ offered' = <<>>
<1>1. Receive /\ RxInSequence(Head(fwd)) /\ RxFeedConsecutive(Head(fwd), now)
  BY DEF RxData, RxCompletes, RxInSequence, RxFeedFirst
<1>2. RxFilled(Head(fwd)) = offered /\ offered # <<>>
  BY <1>1, NextFilled
<1>3. delivered' = offered /\ offered' = <<>>
  BY <1>2 DEF RxData, Deliver
<1>4. ~rx'.active
  BY <1>1, LineTail, RxConsecutiveIs DEF Typing
<1>5. ~Begun'
  BY <1>1, NextPiece, LineTail DEF Aligned
<1> QED
  BY <1>2, <1>3, <1>4, <1>5, NothingBegins DEF TransferInv

\* One that does not brings the receiver one frame nearer; at the end of a
\* block nothing is left on the line, and the transmitter waits.
LEMMA InvConsecutive ==
  ASSUME Typing, Credit, ShortBlocks, TransferInv, RxData, RxFeedConsecutive(Head(fwd), now),
         ~RxCompletes(Head(fwd))
  PROVE  TransferInv' /\ UNCHANGED messageVars
<1> DEFINE frame == Head(fwd)
<1>1. Receive /\ RxInSequence(frame) /\ UNCHANGED <<tx, messageVars>>
  BY DEF RxData, RxFeedConsecutive
<1>2. /\ RxTyping /\ RxTyping'
      /\ rx'.buffer = RxFilled(frame) /\ rx'.expected = rx.expected
      /\ rx'.sequence = (rx.sequence + 1) % SeqMod
      /\ rx'.block = IF RxBlockEnds THEN 0 ELSE rx.block + 1
      /\ rx'.active
  BY <1>1, LineTail, RxConsecutiveIs DEF Typing
<1>3. /\ Len(rx'.buffer) < Len(offered)
      /\ Len(rx'.buffer) = Len(rx.buffer) + CfBytes
      /\ rx'.buffer = SubSeq(offered, 1, Len(rx'.buffer))
  BY <1>1, <1>2, NextFilled
<1>4. Aligned
  BY <1>1, NextPiece
<1>5. rx.block \in Nat /\ rx.block < BlockSize /\ BlockSize \in Nat /\ BlockSize # 0
      /\ BlockSize <= SeqMod
  BY <1>4, Constants DEF Aligned, Expecting, Typing, RxTyping, RxStates, ShortBlocks
<1>6. rx'.block \in Nat /\ rx'.block < BlockSize
  BY <1>2, <1>5 DEF RxBlockEnds
<1>7. Expecting' /\ ~Begun'
  BY <1>1, <1>2, <1>3, <1>4, <1>6, LineTail DEF Aligned, Expecting, messageVars
<1>8. PICK d \in Distances, n \in Nat :
        d[Len(fwd) + 1] = n /\ Ordered(d) /\ Carried(d) /\ Ahead(n)
  BY <1>4 DEF Aligned
<1>9. d[1] = 0 /\ frame.type = "CF" /\ frame = fwd[1] /\ 1 \in 1 .. Len(fwd) /\ Len(fwd) \in Nat
  <2>1. Ahead(d[Len(fwd) + 1])
    BY <1>8
  <2> QED
    BY <1>1, <1>8, <2>1, NextPiece, LineTail DEF RxInSequence
<1>10. \A j \in 2 .. Len(fwd) + 1 : d[j] \in Nat /\ 1 <= d[j] /\ j \in 1 .. Len(fwd) + 1 /\ 1 < j
  <2>1. \A j \in 2 .. Len(fwd) + 1 : j \in 1 .. Len(fwd) + 1 /\ 1 < j
    BY <1>9
  <2>2. \A j \in 2 .. Len(fwd) + 1 : d[1] < d[j] /\ d[j] \in Nat
    BY <1>8, <1>9, <2>1 DEF Distances, Ordered
  <2> QED
    BY <1>9, <2>1, <2>2
<1>11. PICK e \in Distances' :
         /\ Ordered(e)'
         /\ Len(fwd') + 1 = Len(fwd) /\ e[Len(fwd') + 1] = d[Len(fwd) + 1] - 1
         /\ \A i \in 1 .. Len(fwd) : e[i] = d[i + 1] - 1 /\ d[i + 1] \in Nat /\ 1 <= d[i + 1]
  BY <1>1, <1>8, <1>10, LineTail, OrderedTail
<1>12. n >= 1 /\ rx.block + n <= BlockSize /\ n <= SeqMod
  <2>1. Len(fwd) + 1 \in 2 .. Len(fwd) + 1
    BY <1>9
  <2>2. n >= 1
    BY <1>8, <1>10, <2>1
  <2> QED
    BY <1>5, <1>8, <2>2, Constants DEF Ahead
<1>13. \A i \in 1 .. Len(fwd') : d[i + 1] <= n
  <2>1. ASSUME NEW i \in 1 .. Len(fwd')
        PROVE  d[i + 1] <= n
    <3>1. i + 1 \in 1 .. Len(fwd) /\ Len(fwd) + 1 \in 1 .. Len(fwd) + 1 /\ i + 1 < Len(fwd) + 1
      BY <1>9, <1>11
    <3> QED
      BY <1>8, <3>1 DEF Ordered
  <2> QED
    BY <2>1
<1>14. Carried(e)'
  <2>1. ASSUME NEW i \in 1 .. Len(fwd'), fwd'[i].type = "CF"
        PROVE  /\ Place(e[i])' < Len(offered')
               /\ fwd'[i] = ConsecutiveFrame(Number(e[i])', Piece(Place(e[i]))')
    <3>1. i + 1 \in 1 .. Len(fwd) /\ i \in 1 .. Len(fwd) /\ fwd'[i] = fwd[i + 1]
      BY <1>1, <1>9, <1>11, LineTail
    <3> DEFINE k == d[i + 1]
    <3>2. k \in Nat /\ k > 0 /\ k <= SeqMod /\ e[i] = k - 1
      BY <1>11, <1>12, <1>13, <3>1, Constants
    <3>3. Place(k) < Len(offered) /\ fwd[i + 1] = ConsecutiveFrame(Number(k), Piece(Place(k)))
      BY <1>8, <2>1, <3>1 DEF Carried
    <3> HIDE DEF k
    <3>4. Number(k - 1)' = Number(k) /\ Place(k - 1)' = Place(k)
      BY <1>2, <1>3, <3>2, OneNearer
    <3>5. Piece(Place(k - 1))' = Piece(Place(k))
      BY <1>1, <3>4 DEF Piece, messageVars
    <3> QED
      BY <1>1, <3>1, <3>2, <3>3, <3>4, <3>5 DEF messageVars
  <2> QED
    BY <2>1 DEF Carried, ConsecutiveFrame
<1>15. n - 1 \in Nat /\ Ahead(n - 1)'
  <2>1. Number(n - 1)' = Number(n) /\ Place(n - 1)' = Place(n)
    BY <1>2, <1>3, <1>12, OneNearer
  <2>2. rx'.block + (n - 1) <= BlockSize
    BY <1>2, <1>5, <1>12 DEF RxBlockEnds
  <2>3. ASSUME tx.active, TxRemaining > 0
        PROVE  /\ tx.waiting /\ Granted' => rx'.block + (n - 1) = 0
               /\ ~tx.waiting => tx.block = rx'.block + (n - 1)
    <3>1. /\ tx.waiting /\ Granted => rx.block + n = 0
          /\ ~tx.waiting => tx.block = rx.block + n /\ tx.block < BlockSize
      BY <1>5, <1>8, <2>3 DEF Ahead, Credit, TxMayProceed
    <3>2. CASE RxBlockEnds
      <4>1. n = 1 /\ rx'.block = 0 /\ rx.block + n = BlockSize
        BY <1>2, <1>5, <1>12, <3>2 DEF RxBlockEnds
      <4> QED
        BY <1>5, <3>1, <4>1
    <3>3. CASE ~RxBlockEnds
      <4>1. bwd' = bwd /\ rx'.block + (n - 1) = rx.block + n
        BY <1>1, <1>2, <1>5, <1>12, <3>3 DEF RxData, RxWantsFlowControl, RxInSequence
      <4> QED
        BY <3>1, <4>1 DEF Granted
    <3> QED
      BY <3>2, <3>3
  <2>4. /\ rx'.block + (n - 1) <= BlockSize
        /\ tx'.active /\ TxRemaining' > 0 =>
             /\ tx'.payload = offered' /\ tx'.sequence = Number(n - 1)'
             /\ tx'.offset = Place(n - 1)'
             /\ tx'.waiting /\ Granted' => rx'.block + (n - 1) = 0
             /\ ~tx'.waiting => tx'.block = rx'.block + (n - 1)
    BY <1>1, <1>8, <2>1, <2>2, <2>3 DEF Ahead, TxRemaining, messageVars
  <2> QED
    BY <1>12, <2>4 DEF Ahead
<1> DEFINE m == n - 1
<1>16. m \in Nat /\ Ahead(m)' /\ e[Len(fwd') + 1] = m
  BY <1>8, <1>11, <1>15
<1> HIDE DEF m
<1>17. Aligned'
  BY <1>7, <1>11, <1>14, <1>16 DEF Aligned
<1> QED
  BY <1>1, <1>7, <1>17, NothingBegins DEF TransferInv

-----------------------------------------------------------------------------
(* The peer, and every step *)

\* The peer's flow controls are no grants.
LEMMA InvPeerFlowControl ==
  ASSUME Typing, TransferInv, PeerFlowControl
  PROVE  TransferInv'
<1>1. PICK fc \in {FlowControl("WAIT", BlockSize, StMin), FlowControl("OVERFLOW", 0, "none"),
                   FlowControl("CTS", BlockSize, "reserved"), FlowControl("other", 0, "none")} :
        bwd' = Append(bwd, fc)
  BY DEF PeerFlowControl
<1>2. ~Grants(fc)
  BY <1>1 DEF Grants, FlowControl, StMins
<1>3. \A i \in 1 .. Len(bwd') : bwd'[i] = fc \/ (i \in 1 .. Len(bwd) /\ bwd'[i] = bwd[i])
  BY <1>1, AppendProperties DEF Typing
<1>4. Granted' => Granted
  BY <1>2, <1>3 DEF Granted, Grants
<1>5. fwd' = fwd /\ rx' = rx /\ tx' = tx /\ offered' = offered
  BY DEF PeerFlowControl, messageVars
<1> QED
  BY <1>4, <1>5, SameLine DEF TxStays

\* The peer's frames begin nothing and continue nothing.
LEMMA InvPeerFrame ==
  ASSUME Typing, TransferInv, PeerFrame
  PROVE  TransferInv'
<1>1. PICK frame \in {[type |-> "FF", length |-> MaxPayload + 1, data |-> <<>>], RxFlowControl} :
        fwd' = Append(fwd, frame)
  BY DEF PeerFrame
<1>2. frame \in Frames /\ frame.type # "CF" /\ ~Begins(frame)
  <2>1. CASE frame = [type |-> "FF", length |-> MaxPayload + 1, data |-> <<>>]
    BY <2>1, Constants, EmptySeq DEF Frames, Begins
  <2>2. CASE frame = RxFlowControl
    BY <2>2, FramesSent DEF Frames, Begins
  <2> QED
    BY <1>1, <2>1, <2>2
<1>3. tx' = tx /\ rx' = rx /\ bwd' = bwd /\ offered' = offered
  BY DEF PeerFrame, messageVars
<1>4. \A i \in 1 .. Len(fwd') : \/ i = Len(fwd) + 1 /\ fwd'[i] = frame
                                \/ i \in 1 .. Len(fwd) /\ fwd'[i] = fwd[i]
  BY <1>1, <1>2, AppendProperties DEF Typing
<1>5. Quiet => Quiet'
  BY <1>2, <1>3, <1>4 DEF Quiet, TxMayProceed, Granted
<1>6. Beginning'
  <2>1. \A i \in 1 .. Len(fwd') : Begins(fwd'[i]) =>
          i + 0 \in 1 .. Len(fwd) /\ fwd'[i] = fwd[i + 0]
    BY <1>2, <1>4 DEF Begins
  <2>2. /\ 0 \in {0, 1} /\ Beginning /\ offered' = offered
        /\ Begun => /\ Quiet'
                    /\ tx'.active => /\ tx.active /\ tx'.payload = tx.payload
                                     /\ tx'.offset = tx.offset /\ tx'.sequence = tx.sequence
    BY <1>3, <1>5 DEF TransferInv, Beginning
  <2> QED
    BY <2>1, <2>2, BeginningKept
<1>7. ASSUME Aligned
      PROVE  Aligned'
  <2>1. Expecting' /\ ~Begun'
    BY <1>2, <1>3, <1>4, <1>7 DEF Aligned, Expecting, Begun, Begins
  <2>2. PICK d \in Distances, n \in Nat :
          d[Len(fwd) + 1] = n /\ Ordered(d) /\ Carried(d) /\ Ahead(n)
    BY <1>7 DEF Aligned
  <2>3. PICK e \in Distances' :
          /\ Ordered(e)' /\ Len(fwd') = Len(fwd) + 1 /\ e[Len(fwd') + 1] = n
          /\ \A i \in 1 .. Len(fwd) + 1 : e[i] = d[i]
    BY <1>1, <1>2, <2>2, OrderedAppend
  <2>4. Carried(e)'
    <3>1. ASSUME NEW i \in 1 .. Len(fwd'), fwd'[i].type = "CF"
          PROVE  /\ Place(e[i])' < Len(offered')
                 /\ fwd'[i] = ConsecutiveFrame(Number(e[i])', Piece(Place(e[i]))')
      <4>1. i \in 1 .. Len(fwd) /\ fwd'[i] = fwd[i]
        BY <1>2, <1>4, <3>1
      <4>2. Place(d[i]) < Len(offered) /\ fwd[i] = ConsecutiveFrame(Number(d[i]), Piece(Place(d[i])))
        BY <2>2, <3>1, <4>1 DEF Carried
      <4>3. e[i] = d[i]
        BY <2>3, <4>1
      <4>4. /\ Place(e[i])' = Place(d[i]) /\ Number(e[i])' = Number(d[i])
            /\ Piece(Place(e[i]))' = Piece(Place(d[i]))
        BY <1>3, <4>3 DEF Place, Number, Piece
      <4> QED
        BY <1>3, <4>1, <4>2, <4>4
    <3> QED
      BY <3>1 DEF Carried, ConsecutiveFrame
  <2>5. Ahead(n)'
    BY <1>3, <2>2 DEF Ahead, TxRemaining, Number, Place, Granted
  <2> QED
    BY <2>1, <2>2, <2>3, <2>4, <2>5 DEF Aligned
<1> QED
  BY <1>3, <1>5, <1>6, <1>7 DEF TransferInv

\* Every step keeps the transfer in order.
LEMMA InvNext ==
  ASSUME ShortBlocks, Typing, Credit, TransferInv, [Next]_vars
  PROVE  TransferInv' /\ [Transfer!Next]_<<offered, delivered>>
<1>1. ASSUME NEW p \in Payloads, Start(p)
      PROVE  TransferInv' /\ [Transfer!Next]_<<offered, delivered>>
  BY <1>1, InvStart DEF Start, Transfer!Next, Transfer!Offer
<1>2. CASE TxFeed \/ TxSend
  BY <1>2, InvFeed, InvSend DEF TxFeed, TxSend, messageVars
<1>3. CASE TxNext \/ TxTick
  <2>1. UNCHANGED <<fwd, bwd, rx, messageVars>>
    BY <1>3 DEF TxNext, TxTick, lineVars
  <2>2. tx' = tx \/ ~tx'.active
    BY <1>3, TxResetTyping DEF TxNext, TxTick, TxNextNothing, TxNextComplete, TxNextTimeout,
                               TxTickNothing, TxTickTimeout
  <2>3. TransferInv'
    BY <2>1, <2>2, SameLine DEF TxStays, Granted, messageVars
  <2> QED
    BY <2>1, <2>3 DEF messageVars
<1>4. CASE RxSingle
  BY <1>4, InvSingle DEF Transfer!Next, Transfer!Deliver
<1>5. CASE RxData
  <2>1. CASE RxCompletes(Head(fwd))
    BY <1>5, <2>1, InvCompletes DEF Transfer!Next, Transfer!Deliver
  <2>2. CASE ~RxCompletes(Head(fwd))
    BY <1>5, <2>2, InvFirst, InvConsecutive DEF RxData, messageVars
  <2> QED
    BY <2>1, <2>2
<1>6. CASE RxReject \/ RxTick
  BY <1>6, InvReject, InvRxTick DEF RxReject, RxTick, messageVars
<1>7. CASE PeerFlowControl \/ PeerFrame
  BY <1>7, InvPeerFlowControl, InvPeerFrame DEF PeerFlowControl, PeerFrame, messageVars
<1>8. CASE Tick \/ UNCHANGED vars
  <2>1. UNCHANGED <<tx, rx, fwd, bwd, offered, delivered>>
    BY <1>8 DEF Tick, vars, lineVars, messageVars
  <2>2. TransferInv'
    BY <2>1, SameLine DEF TxStays, Granted
  <2> QED
    BY <2>1, <2>2
<1> QED
  BY <1>1, <1>2, <1>3, <1>4, <1>5, <1>6, <1>7, <1>8 DEF Next, TxPass, RxPass

\* With blocks of at most SeqMod frames the link implements the abstract
\* transfer: whatever is lost, late or foreign, a message isotp_rx_feed hands
\* over is the one under way, byte for byte, and it hands it over once.
THEOREM LinkImplementsTransfer ==
  ASSUME ShortBlocks
  PROVE  Spec => DeliversWhatWasSent
<1>1. Init => TransferInv /\ Transfer!Init
  <2>1. Init => ~Begun /\ ~rx.active /\ offered = <<>> /\ delivered = <<>>
    BY EmptySeq DEF Init, Begun, RxIdle
  <2> QED
    BY <2>1 DEF TransferInv, Beginning, Begun, Transfer!Init
<1>2. Typing /\ Credit /\ TransferInv /\ [Next]_vars =>
        TransferInv' /\ [Transfer!Next]_(Transfer!vars)
  BY InvNext DEF Transfer!vars
<1>3. Spec => []TransferInv
  BY <1>1, <1>2, CreditAlways, PTL DEF Spec
<1> QED
  BY <1>1, <1>2, <1>3, CreditAlways, PTL DEF Spec, DeliversWhatWasSent, Transfer!Spec

-----------------------------------------------------------------------------
(* The clock *)

\* Below twice the range the remainder is a subtraction.
LEMMA ClockWraps ==
  ASSUME NEW x \in Nat, x < 2 * TickMod
  PROVE  x % TickMod = IF x < TickMod THEN x ELSE x - TickMod
<1> USE TickModAssumption
<1>1. CASE x < TickMod
  BY <1>1
<1>2. CASE ~(x < TickMod)
  <2>1. x - TickMod \in Nat /\ x - TickMod < TickMod
    BY <1>2
  <2>2. (x - TickMod) % TickMod = x - TickMod
    BY <2>1
  <2>3. x % TickMod = (x - TickMod) % TickMod
    BY <1>2, <2>1
  <2> QED
    BY <1>2, <2>2, <2>3
<1> QED
  BY <1>1, <1>2

\* Timeouts are shorter than half the range of the clock, which is even.
LEMMA HalfRange ==
  /\ TickMod \in Nat /\ TickMod \div 2 \in Nat \ {0} /\ TickMod = 2 * (TickMod \div 2)
  /\ TxTimeoutMs < TickMod \div 2 /\ RxTimeoutMs < TickMod \div 2
BY TickModAssumption, TxAssumption, RxAssumption

\* A later tick, and ...
LEMMA AfterIs ==
  ASSUME NEW t \in Ticks, NEW ms \in 0 .. TickMod
  PROVE  /\ After(t, ms) = IF t + ms < TickMod THEN t + ms ELSE t + ms - TickMod
         /\ After(t, ms) \in Ticks
<1>1. t \in 0 .. TickMod - 1 /\ TickMod \in Nat
  BY HalfRange DEF Ticks
<1>2. After(t, ms) = IF t + ms < TickMod THEN t + ms ELSE t + ms - TickMod
  <2> DEFINE sum == t + ms
  <2>1. sum \in Nat /\ sum < 2 * TickMod /\ After(t, ms) = sum % TickMod
    BY <1>1 DEF After
  <2>2. After(t, ms) = IF sum < TickMod THEN sum ELSE sum - TickMod
    <3> HIDE DEF sum
    <3> QED
      BY <2>1, ClockWraps
  <2> QED
    BY <1>1, <2>2
<1>3. (IF t + ms < TickMod THEN t + ms ELSE t + ms - TickMod) \in 0 .. TickMod - 1
  BY <1>1
<1> QED
  BY <1>2, <1>3 DEF Ticks

\* ... the time between two, without the remainder.
LEMMA SinceIs ==
  ASSUME NEW t \in Ticks, NEW e \in Ticks
  PROVE  /\ Since(t, e) = IF t >= e THEN t - e ELSE t + TickMod - e
         /\ Since(t, e) \in Nat /\ Since(t, e) < TickMod
<1>0. t \in 0 .. TickMod - 1 /\ e \in 0 .. TickMod - 1 /\ TickMod \in Nat
  BY HalfRange DEF Ticks
<1>1. t + TickMod - e \in Nat /\ t + TickMod - e < 2 * TickMod
  BY <1>0
<1>2. Since(t, e) = IF t >= e THEN t - e ELSE t + TickMod - e
  BY <1>0, <1>1, ClockWraps DEF Since
<1> QED
  BY <1>0, <1>2

\* A deadline is as far away as it was set, and from anything set before it.
LEMMA DeadlineSet ==
  ASSUME NEW t \in Ticks, NEW ms \in Nat, ms < TickMod, NEW less \in 0 .. ms
  PROVE  Since(After(t, ms), t) = ms /\ Since(After(t, ms), After(t, less)) = ms - less
<1>0. ms \in 0 .. TickMod /\ less \in 0 .. TickMod /\ t \in 0 .. TickMod - 1 /\ TickMod \in Nat
  BY HalfRange DEF Ticks
<1>1. /\ After(t, ms) = IF t + ms < TickMod THEN t + ms ELSE t + ms - TickMod
      /\ After(t, less) = IF t + less < TickMod THEN t + less ELSE t + less - TickMod
      /\ After(t, ms) \in Ticks /\ After(t, less) \in Ticks
  BY <1>0, AfterIs
<1>2. Since(After(t, ms), t) = ms
  <2>1. Since(After(t, ms), t) = IF After(t, ms) >= t THEN After(t, ms) - t
                                 ELSE After(t, ms) + TickMod - t
    BY <1>1, SinceIs
  <2> QED
    BY <1>0, <1>1, <2>1
<1>3. Since(After(t, ms), After(t, less)) = ms - less
  <2>1. Since(After(t, ms), After(t, less)) =
          IF After(t, ms) >= After(t, less) THEN After(t, ms) - After(t, less)
          ELSE After(t, ms) + TickMod - After(t, less)
    BY <1>1, SinceIs
  <2> QED
    BY <1>0, <1>1, <2>1
<1> QED
  BY <1>2, <1>3

\* A millisecond brings it one nearer.
LEMMA DeadlineNears ==
  ASSUME NEW t \in Ticks, NEW e \in Ticks, Since(e, t) >= 1
  PROVE  Since(e, After(t, 1)) = Since(e, t) - 1
<1>0. t \in 0 .. TickMod - 1 /\ e \in 0 .. TickMod - 1 /\ TickMod \in Nat /\ 1 \in 0 .. TickMod
  BY HalfRange DEF Ticks
<1>1. After(t, 1) = (IF t + 1 < TickMod THEN t + 1 ELSE t + 1 - TickMod) /\ After(t, 1) \in Ticks
  BY <1>0, AfterIs
<1>2. /\ Since(e, t) = IF e >= t THEN e - t ELSE e + TickMod - t
      /\ Since(e, After(t, 1)) = IF e >= After(t, 1) THEN e - After(t, 1)
                                 ELSE e + TickMod - After(t, 1)
  BY <1>1, SinceIs
<1> QED
  BY <1>0, <1>1, <1>2

\* A deadline still ahead has not expired ...
LEMMA DeadlineAhead ==
  ASSUME NEW t \in Ticks, NEW e \in Ticks, Since(e, t) >= 1, Since(e, t) < TickMod \div 2
  PROVE  ~Expired(t, e)
<1>0. t \in 0 .. TickMod - 1 /\ e \in 0 .. TickMod - 1 /\ TickMod \in Nat
  BY HalfRange DEF Ticks
<1>1. /\ Since(e, t) = IF e >= t THEN e - t ELSE e + TickMod - t
      /\ Since(t, e) = IF t >= e THEN t - e ELSE t + TickMod - e
  BY SinceIs
<1>2. Since(t, e) = TickMod - Since(e, t)
  BY <1>0, <1>1
<1> QED
  BY <1>0, <1>1, <1>2, HalfRange DEF Expired

\* ... and what comes no nearer to a deadline than now has.
LEMMA TimeReached ==
  ASSUME NEW t \in Ticks, NEW e \in Ticks, NEW f \in Ticks,
         Since(e, f) < TickMod \div 2, Since(e, t) <= Since(e, f)
  PROVE  Expired(t, f)
<1>0. /\ t \in 0 .. TickMod - 1 /\ e \in 0 .. TickMod - 1 /\ f \in 0 .. TickMod - 1
      /\ TickMod \in Nat
  BY HalfRange DEF Ticks
<1>1. /\ Since(e, t) = IF e >= t THEN e - t ELSE e + TickMod - t
      /\ Since(e, f) = IF e >= f THEN e - f ELSE e + TickMod - f
      /\ Since(t, f) = IF t >= f THEN t - f ELSE t + TickMod - f
  BY SinceIs
<1>2. Since(t, f) = Since(e, f) - Since(e, t)
  BY <1>0, <1>1
<1> QED
  BY <1>0, <1>1, <1>2, HalfRange DEF Expired

-----------------------------------------------------------------------------
(* A transfer without faults *)

\* The longest time from one consecutive frame to the next.
Pace == IF StMinToMs(StMin) > 1 THEN StMinToMs(StMin) ELSE 1

\* The timeouts are longer: the firmware's are a second, and no separation time
\* is above 127 ms.
Timely == Pace < TxTimeoutMs /\ Pace < RxTimeoutMs

\* The milliseconds since each end set its deadline.
TxAge == TxTimeoutMs - Since(tx.deadline, now)
RxAge == RxTimeoutMs - Since(rx.deadline, now)

\* The receiver is within the offered message.
Within ==
  /\ rx.active
  /\ offered # <<>> /\ rx.expected = Len(offered) /\ Len(rx.buffer) < Len(offered)
  /\ rx.buffer = SubSeq(offered, 1, Len(rx.buffer))

\* Nothing is under way.
AtRest ==
  /\ offered = <<>> /\ ~rx.active /\ fwd = <<>> /\ bwd = <<>>
  /\ tx.active => ~tx.waiting /\ TxRemaining <= 0

\* The offered message's only or first frame is.
SingleOut ==
  /\ fwd = <<SingleFrame(offered)>> /\ bwd = <<>> /\ ~tx.active /\ ~rx.active
  /\ offered # <<>>

FirstOut ==
  /\ fwd = <<FirstFrame(offered)>> /\ bwd = <<>> /\ ~rx.active
  /\ Len(offered) > SfBytes /\ offered # <<>>
  /\ tx.active /\ tx.waiting
  /\ tx.payload = offered /\ tx.offset = FfBytes /\ tx.sequence = 1

\* A flow control is.
Asked ==
  /\ fwd = <<>> /\ bwd = <<RxFlowControl>> /\ Within /\ rx.block = 0
  /\ tx.active /\ tx.waiting
  /\ tx.payload = offered /\ tx.offset = Len(rx.buffer) /\ tx.sequence = rx.sequence

\* The receiver empties the line every millisecond, in which one frame is sent.
Room == (IF rxDone THEN 0 ELSE 1) + (IF txStage = "feed" THEN 0 ELSE 1)

\* The consecutive frames on the line are the next pieces of the message.
Pieces ==
  /\ \A i \in 1 .. Len(fwd) :
       /\ Place(i - 1) < Len(offered)
       /\ fwd[i] = ConsecutiveFrame(Number(i - 1), Piece(Place(i - 1)))
  /\ Len(fwd) <= Room
  /\ BlockSize # 0 => rx.block + Len(fwd) <= BlockSize

\* The transmitter goes on where they end, at the end of a block or within one.
GoesOn ==
  /\ tx.active /\ TxRemaining > 0
  /\ tx.payload = offered /\ tx.sequence = Number(Len(fwd)) /\ tx.offset = Place(Len(fwd))
  /\ tx.waiting => BlockSize # 0 /\ rx.block + Len(fwd) = BlockSize /\ fwd # <<>>
  /\ ~tx.waiting =>
       /\ tx.blockSize = BlockSize /\ tx.stMin = StMin
       /\ BlockSize # 0 => tx.block = rx.block + Len(fwd) /\ tx.block < BlockSize

\* Or they are the last.
LastOut ==
  /\ fwd # <<>> /\ Place(Len(fwd)) >= Len(offered)
  /\ tx.active => ~tx.waiting /\ TxRemaining <= 0

Sending == bwd = <<>> /\ Within /\ Pieces /\ (GoesOn \/ LastOut)

Phase == AtRest \/ (starts = 1 /\ (SingleOut \/ FirstOut \/ Asked \/ Sending))

\* A flow control has just been taken.
Just == TxAge = 0 /\ txStage = "feed" /\ tx.nextFrame = now

\* An answer comes within two milliseconds, and before that millisecond's pass
\* looks at the clock; a frame is sent no later than the pace.
TxTimely ==
  tx.active =>
    /\ tx.waiting =>
         /\ TxAge \in 0 .. 2
         /\ TxAge = 2 => bwd # <<>> /\ txStage = "feed"
         /\ TxAge = 1 /\ fwd # <<>> => ~rxDone
    /\ ~tx.waiting =>
         /\ TxAge \in 0 .. Pace
         /\ TxAge = Pace => txStage = "feed"
         /\ Just \/ Since(tx.deadline, tx.nextFrame) = TxTimeoutMs - StMinToMs(StMin)

\* The receiver that waits for a frame has not waited longer than the
\* transmitter has.
RxTimely ==
  rx.active /\ fwd = <<>> =>
    /\ RxAge \in 0 .. Pace
    /\ tx.waiting => RxAge = 0 \/ (RxAge = 1 /\ txStage = "feed")
    /\ ~tx.waiting => RxAge <= TxAge \/ (Just /\ RxAge <= 1)

Smooth == ~failed /\ Phase /\ TxTimely /\ RxTimely

Faultless == faults = 0 /\ starts <= 1

\* The pace is within the timeouts, and those within half the clock.
LEMMA PaceIs ==
  ASSUME Timely
  PROVE  /\ StMinToMs(StMin) \in Nat /\ Pace \in Nat \ {0} /\ StMinToMs(StMin) <= Pace
         /\ Pace < TxTimeoutMs /\ Pace < RxTimeoutMs
         /\ TxTimeoutMs < TickMod \div 2 /\ RxTimeoutMs < TickMod \div 2
         /\ TxTimeoutMs \in Nat /\ RxTimeoutMs \in Nat /\ TickMod \div 2 \in Nat
         /\ TickMod \div 2 <= TickMod /\ TickMod \in Nat
<1>1. StMinToMs(StMin) \in Nat
  BY ClockValues, Constants
<1>2. /\ TickMod \div 2 \in Nat /\ TickMod \div 2 <= TickMod /\ TickMod \in Nat
      /\ TxTimeoutMs < TickMod \div 2 /\ RxTimeoutMs < TickMod \div 2
  BY HalfRange
<1> QED
  BY <1>1, <1>2, Constants DEF Timely, Pace

\* A transmitter that keeps time does not expire, and one whose time has come
\* sends.
LEMMA TxKeepsTime ==
  ASSUME Typing, Timely, TxTimely, tx.active
  PROVE  /\ TxAge \in Int
         /\ txStage # "feed" \/ ~tx.waiting => ~TxExpired(now)
         /\ ~tx.waiting /\ (Just \/ TxAge = Pace) => TxDue(now)
<1>1. now \in Ticks /\ tx.deadline \in Ticks /\ tx.nextFrame \in Ticks
      /\ tx.waiting \in BOOLEAN /\ tx.active \in BOOLEAN
  BY DEF Typing, TxTyping, TxStates
<1>2. Since(tx.deadline, now) \in Nat /\ TxAge \in Int
      /\ Since(tx.deadline, now) = TxTimeoutMs - TxAge
  BY <1>1, SinceIs, Constants DEF TxAge
<1>3. ASSUME txStage # "feed" \/ ~tx.waiting
      PROVE  ~TxExpired(now)
  <2>1. TxAge <= Pace /\ TxAge >= 0
    BY <1>1, <1>2, <1>3, PaceIs DEF TxTimely
  <2>2. Since(tx.deadline, now) >= 1 /\ Since(tx.deadline, now) < TickMod \div 2
    BY <1>2, <2>1, PaceIs
  <2> QED
    BY <1>1, <2>2, DeadlineAhead DEF TxExpired
<1>4. ASSUME ~tx.waiting, Just
      PROVE  Expired(now, tx.nextFrame)
  <2>1. Since(now, now) = 0
    BY <1>1, SinceIs DEF Ticks
  <2> QED
    BY <1>4, <2>1, HalfRange DEF Just, Expired
<1>5. ASSUME ~tx.waiting, ~Just, TxAge = Pace
      PROVE  Expired(now, tx.nextFrame)
  <2>1. Since(tx.deadline, tx.nextFrame) = TxTimeoutMs - StMinToMs(StMin)
    BY <1>5 DEF TxTimely
  <2>2. Since(tx.deadline, now) <= Since(tx.deadline, tx.nextFrame)
        /\ Since(tx.deadline, tx.nextFrame) < TickMod \div 2
    BY <1>2, <1>5, <2>1, PaceIs
  <2> QED
    BY <1>1, <2>2, TimeReached
<1> QED
  BY <1>2, <1>3, <1>4, <1>5 DEF TxDue, TxMayProceed

\* Deadlines that have just been set.
LEMMA Fresh ==
  ASSUME Typing, now' = now
  PROVE  /\ tx'.deadline = After(now, TxTimeoutMs) => TxAge' = 0
         /\ rx'.deadline = After(now, RxTimeoutMs) => RxAge' = 0
<1>1. now \in Ticks /\ TxTimeoutMs \in Nat /\ RxTimeoutMs \in Nat /\ TickMod \in Nat
      /\ TxTimeoutMs < TickMod /\ RxTimeoutMs < TickMod
      /\ 0 \in 0 .. TxTimeoutMs /\ 0 \in 0 .. RxTimeoutMs
  BY HalfRange, Constants DEF Typing
<1>2. /\ Since(After(now, TxTimeoutMs), now) = TxTimeoutMs
      /\ Since(After(now, RxTimeoutMs), now) = RxTimeoutMs
  BY <1>1, DeadlineSet
<1> QED
  BY <1>1, <1>2 DEF TxAge, RxAge

\* Without a fault nothing is lost.
LEMMA NothingLost ==
  ASSUME Typing, Faultless, Faultless'
  PROVE  /\ ~Fault
         /\ \A frame : Send(frame) => fwd' = Append(fwd, frame)
         /\ \A frame : Answer(frame) => bwd' = Append(bwd, frame)
<1>1. ~Fault
  BY DEF Faultless, Fault
<1> QED
  BY <1>1 DEF Send, Answer

\* What the line says of the phase.
LEMMA PhaseFacts ==
  ASSUME Typing, Smooth
  PROVE  /\ bwd # <<>> => Asked
         /\ TxMayProceed /\ TxRemaining > 0 => Sending /\ GoesOn
         /\ tx.active /\ tx.waiting /\ bwd = <<>> => fwd # <<>>
         /\ rx.active /\ fwd = <<>> => tx.active /\ (tx.waiting => bwd # <<>>)
         /\ TxRemaining \in Int
<1>1. TxRemaining \in Int
  BY MessagesAreData DEF Typing, TxTyping, TxStates, TxRemaining
<1>2. bwd # <<>> => Asked
  BY DEF Smooth, Phase, AtRest, SingleOut, FirstOut, Sending
<1>3. TxMayProceed /\ TxRemaining > 0 => Sending /\ GoesOn
  <2> SUFFICES ASSUME TxMayProceed, TxRemaining > 0
               PROVE  Sending /\ GoesOn
    OBVIOUS
  <2>1. ~(TxRemaining <= 0) /\ tx.active /\ ~tx.waiting
    BY <1>1 DEF TxMayProceed
  <2>2. ~AtRest /\ ~SingleOut /\ ~FirstOut /\ ~Asked /\ ~LastOut
    BY <2>1 DEF AtRest, SingleOut, FirstOut, Asked, LastOut
  <2> QED
    BY <2>2 DEF Smooth, Phase, Sending
<1>4. tx.active /\ tx.waiting /\ bwd = <<>> => fwd # <<>>
  <2> SUFFICES ASSUME tx.active, tx.waiting, bwd = <<>>, fwd = <<>>
               PROVE  FALSE
    OBVIOUS
  <2>1. ~AtRest /\ ~SingleOut /\ ~Asked
    BY DEF AtRest, SingleOut, Asked
  <2>2. ~FirstOut
    BY DEF FirstOut
  <2>3. ~Sending
    BY DEF Sending, GoesOn, LastOut
  <2> QED
    BY <2>1, <2>2, <2>3 DEF Smooth, Phase
<1>5. rx.active /\ fwd = <<>> => tx.active /\ (tx.waiting => bwd # <<>>)
  <2> SUFFICES ASSUME rx.active, fwd = <<>>
               PROVE  tx.active /\ (tx.waiting => bwd # <<>>)
    OBVIOUS
  <2>1. ~AtRest /\ ~SingleOut /\ ~FirstOut
    BY DEF AtRest, SingleOut, FirstOut
  <2>2. Asked => bwd # <<>> /\ tx.active
    BY DEF Asked
  <2>3. Sending => tx.active /\ ~tx.waiting
    BY DEF Sending, GoesOn, LastOut
  <2> QED
    BY <2>1, <2>2, <2>3 DEF Smooth, Phase
<1> QED
  BY <1>1, <1>2, <1>3, <1>4, <1>5

\* A step that leaves the line and both ends alone leaves the phase.
LEMMA PhaseKept ==
  ASSUME Phase, UNCHANGED <<tx, rx, fwd, bwd, offered, starts>>,
         Len(fwd) <= Room => Len(fwd) <= Room'
  PROVE  Phase'
<1>1. CASE AtRest
  BY <1>1 DEF AtRest, Phase, TxRemaining
<1>2. CASE starts = 1 /\ SingleOut
  BY <1>2 DEF SingleOut, SingleFrame, Phase
<1>3. CASE starts = 1 /\ FirstOut
  BY <1>3 DEF FirstOut, FirstFrame, Phase
<1>4. CASE starts = 1 /\ Asked
  BY <1>4 DEF Asked, Within, Phase
<1>5. CASE starts = 1 /\ Sending
  <2>1. Within' /\ bwd' = <<>>
    BY <1>5 DEF Sending, Within
  <2>2. Pieces'
    BY <1>5 DEF Sending, Pieces, Place, Number, Piece, ConsecutiveFrame
  <2>3. GoesOn => GoesOn'
    BY DEF GoesOn, Place, Number, TxRemaining
  <2>4. LastOut => LastOut'
    BY DEF LastOut, Place, TxRemaining
  <2> QED
    BY <1>5, <2>1, <2>2, <2>3, <2>4 DEF Sending, Phase
<1> QED
  BY <1>1, <1>2, <1>3, <1>4, <1>5 DEF Phase

\* The one message puts its single or first frame on the line.
LEMMA SmoothStart ==
  ASSUME Typing, Timely, Smooth, Faultless, Faultless', NEW p \in Payloads, Start(p)
  PROVE  Smooth'
<1>1. starts = 0 /\ starts' = 1
  BY DEF Faultless, Start, Typing
<1>2. /\ AtRest /\ bwd' = <<>> /\ rx' = rx /\ now' = now /\ offered' = p /\ p # <<>>
      /\ ~failed' /\ fwd = <<>>
  <2>1. AtRest
    BY <1>1 DEF Smooth, Phase
  <2>2. p # <<>>
    BY LinkAssumption
  <2> QED
    BY <2>1, <2>2 DEF Start, AtRest
<1>3. ~rx'.active
  BY <1>2 DEF AtRest
<1>4. CASE TxStartSingle(p) /\ Send(SingleFrame(p))
  <2>1. fwd' = <<SingleFrame(p)>>
    BY <1>2, <1>4, NothingLost
  <2>2. ~tx'.active
    BY <1>4, TxResetTyping DEF TxStartSingle
  <2>3. SingleOut'
    BY <1>2, <1>3, <2>1, <2>2 DEF SingleOut, SingleFrame
  <2> QED
    BY <1>1, <1>2, <1>3, <2>2, <2>3 DEF Smooth, Phase, TxTimely, RxTimely
<1>5. CASE TxStartFirst(p, now) /\ Send(FirstFrame(p))
  <2>1. fwd' = <<FirstFrame(p)>> /\ Len(p) > SfBytes
    BY <1>2, <1>5, NothingLost, Constants DEF TxStartFirst
  <2>2. /\ tx'.active /\ tx'.waiting /\ tx'.payload = p /\ tx'.offset = FfBytes
        /\ tx'.sequence = 1 /\ tx'.deadline = After(now, TxTimeoutMs)
    <3>1. ~TxStartSingle(p)
      BY <1>5, Constants, MessagesAreData DEF TxStartSingle, TxStartFirst, Messages
    <3> QED
      BY <1>5, <3>1, TxStartIs DEF Typing
  <2>3. FirstOut'
    BY <1>2, <1>3, <2>1, <2>2 DEF FirstOut, FirstFrame
  <2>4. TxAge' = 0
    BY <1>2, <2>2, Fresh
  <2>5. TxTimely'
    BY <2>2, <2>4 DEF TxTimely
  <2> QED
    BY <1>1, <1>2, <1>3, <2>3, <2>5 DEF Smooth, Phase, RxTimely
<1> QED
  BY <1>4, <1>5 DEF Start

\* The flow control the transmitter waits for is the receiver's, and lets it
\* go on.
LEMMA SmoothFeed ==
  ASSUME Typing, Timely, Smooth, Faultless, Faultless', TxFeed
  PROVE  Smooth'
<1>1. /\ Asked /\ txStage = "feed" /\ txStage' = "feed" /\ starts' = starts
      /\ UNCHANGED <<rx, now, fwd, offered, rxDone>> /\ bwd' = Tail(bwd)
  BY PhaseFacts DEF TxFeed, stageVars, boundVars, messageVars
<1>2. Head(bwd) = RxFlowControl /\ bwd' = <<>> /\ bwd # <<>> /\ fwd = <<>>
  BY <1>1 DEF Asked
<1>3. TxFeedContinue(RxFlowControl, now) /\ UNCHANGED failed
  <2>1. /\ TxExpectsFlowControl /\ RxFlowControl.status = "CTS" /\ RxFlowControl.stMin = StMin
        /\ StMin \in StMins
    BY <1>1, Constants DEF Asked, TxExpectsFlowControl, RxFlowControl, FlowControl
  <2> QED
    BY <1>2, <2>1
       DEF TxFeed, TxFeedUnexpected, TxFeedUnknown, TxFeedAbort, TxFeedWait
<1>4. /\ tx'.payload = tx.payload /\ tx'.offset = tx.offset /\ tx'.sequence = tx.sequence
      /\ tx'.active /\ ~tx'.waiting /\ tx'.block = 0 /\ tx'.nextFrame = now
      /\ tx'.blockSize = BlockSize /\ tx'.stMin = StMin
      /\ tx'.deadline = After(now, TxTimeoutMs)
  <2>1. RxFlowControl.blockSize = BlockSize /\ RxFlowControl.stMin = StMin
    BY DEF RxFlowControl, FlowControl
  <2>2. tx' = [tx EXCEPT !.blockSize = BlockSize, !.stMin = StMin,
                         !.deadline = After(now, TxTimeoutMs), !.waits = 0,
                         !.waiting = FALSE, !.block = 0, !.nextFrame = now]
    BY <1>3, <2>1 DEF TxFeedContinue, TxHeard, Typing, TxTyping, TxStates
  <2> QED
    BY <1>1, <2>2 DEF Asked, Typing, TxTyping, TxStates
<1>5. Within /\ Within' /\ rx.block = 0 /\ starts = 1 /\ Len(fwd) = 0 /\ Len(fwd') = 0
  BY <1>1, <1>2, EmptySeq DEF Asked, Within, Smooth, Phase, AtRest
<1>6. Number(0)' = rx.sequence /\ Place(0)' = Len(rx.buffer) /\ Len(rx.buffer) \in Nat
  <2>1. Number(0) = rx.sequence /\ Place(0) = Len(rx.buffer) /\ Len(rx.buffer) \in Nat
    BY Numbers, Places, Constants, LenProperties DEF Typing, RxTyping, RxStates
  <2>2. Number(0)' = Number(0) /\ Place(0)' = Place(0)
    BY <1>1 DEF Number, Place
  <2> QED
    BY <2>1, <2>2
<1>7. Pieces'
  <2>1. Room' \in Nat
    BY <1>1 DEF Room
  <2> QED
    BY <1>1, <1>5, <2>1, Constants DEF Pieces
<1>8. GoesOn'
  <2>1. TxRemaining' > 0
    <3>1. Len(offered) \in Nat
      BY MessagesAreData DEF Typing
    <3> QED
      BY <1>1, <1>4, <1>5, <1>6, <3>1 DEF TxRemaining, Asked, Within
  <2>2. tx'.payload = offered' /\ tx'.sequence = Number(0)' /\ tx'.offset = Place(0)'
    BY <1>1, <1>4, <1>6 DEF Asked
  <2>3. BlockSize # 0 => tx'.block = rx'.block + 0 /\ tx'.block < BlockSize
    BY <1>1, <1>4, <1>5, Constants
  <2>4. GoesOn' = /\ tx'.active /\ TxRemaining' > 0
                  /\ tx'.payload = offered' /\ tx'.sequence = Number(Len(fwd))'
                  /\ tx'.offset = Place(Len(fwd))'
                  /\ tx'.waiting => BlockSize # 0 /\ rx'.block + Len(fwd') = BlockSize /\ fwd' # <<>>
                  /\ ~tx'.waiting =>
                       /\ tx'.blockSize = BlockSize /\ tx'.stMin = StMin
                       /\ BlockSize # 0 => tx'.block = rx'.block + Len(fwd') /\ tx'.block < BlockSize
    BY DEF GoesOn
  <2>5. Number(Len(fwd))' = Number(0)' /\ Place(Len(fwd))' = Place(0)'
    BY <1>5 DEF Number, Place
  <2> QED
    BY <1>4, <1>5, <2>1, <2>2, <2>3, <2>4, <2>5
<1>9. TxAge' = 0 /\ Just'
  BY <1>1, <1>4, Fresh DEF Just
<1>10. TxTimely'
  BY <1>4, <1>9, PaceIs DEF TxTimely
<1>11. RxTimely'
  <2>1. RxAge' = RxAge
    BY <1>1 DEF RxAge
  <2>2. RxAge \in 0 .. Pace /\ RxAge <= 1
    BY <1>1, <1>2, <1>5 DEF Smooth, RxTimely, Within, Asked
  <2> QED
    BY <1>4, <1>9, <2>1, <2>2 DEF RxTimely
<1> QED
  BY <1>1, <1>2, <1>3, <1>5, <1>7, <1>8, <1>10, <1>11 DEF Smooth, Phase, Sending

\* A consecutive frame goes behind those on the line, as the next piece of the
\* message; the transmitter waits after it exactly at the end of a block.
LEMMA SmoothSend ==
  ASSUME Typing, Timely, Smooth, Faultless, Faultless', TxSend
  PROVE  Smooth'
<1> DEFINE k == Len(fwd)
<1>1. /\ TxMayProceed /\ TxRemaining > 0
      /\ tx'.offset = tx.offset + Len(TxNextData)
      /\ tx'.payload = tx.payload /\ tx'.active = tx.active
      /\ tx'.blockSize = tx.blockSize /\ tx'.stMin = tx.stMin
      /\ tx'.sequence = (tx.sequence + 1) % SeqMod
      /\ tx'.waiting = TxBlockEnds(tx'.offset)
      /\ tx'.block = IF TxBlockEnds(tx'.offset) THEN 0 ELSE tx.block + 1
      /\ tx'.deadline = After(now, TxTimeoutMs)
      /\ tx'.nextFrame = After(now, StMinToMs(tx.stMin))
      /\ TxTyping'
  BY TxSendIs DEF TxSend, Typing
<1>2. /\ bwd' = <<>> /\ txStage = "feed" /\ txStage' = "tick" /\ starts' = starts
      /\ UNCHANGED <<rx, now, offered, rxDone, failed>>
  BY DEF TxSend, messageVars
<1>3. /\ Sending /\ starts = 1 /\ Within /\ Pieces
      /\ tx.active /\ ~tx.waiting /\ tx.payload = offered
      /\ tx.sequence = Number(k) /\ tx.offset = Place(k)
      /\ tx.blockSize = BlockSize /\ tx.stMin = StMin
      /\ BlockSize # 0 => tx.block = rx.block + k /\ tx.block < BlockSize
  <2>1. Sending /\ GoesOn
    BY <1>1, PhaseFacts
  <2>2. starts = 1
    BY <2>1 DEF Smooth, Phase, AtRest, Sending, Within
  <2> QED
    BY <1>1, <2>1, <2>2 DEF Sending, GoesOn, TxMayProceed
<1>4. /\ k \in Nat /\ k < SeqMod /\ rxDone \in BOOLEAN /\ k <= IF rxDone THEN 0 ELSE 1
      /\ rx.block \in Nat /\ tx.block \in Nat /\ BlockSize \in Nat
  BY <1>2, <1>3, Constants, LenProperties
     DEF Typing, TxTyping, RxTyping, TxStates, RxStates, Pieces, Room
<1>5. /\ Place(k) \in Nat /\ Place(k) < Len(offered) /\ TxNextData = Piece(Place(k))
      /\ Len(offered) \in Nat /\ Place(k + 1) = Place(k) + CfBytes /\ CfBytes \in Nat
      /\ Place(k + 1) \in Nat
  <2>1. /\ Place(k) \in Nat /\ Place(k + 1) = Place(k) + CfBytes /\ Place(k + 1) \in Nat
        /\ CfBytes \in Nat
    <3>1. k + 1 \in Nat
      BY <1>4
    <3> QED
      BY <1>4, <3>1, Places, Constants DEF Typing
  <2>2. Len(offered) \in Nat
    BY MessagesAreData DEF Typing
  <2> QED
    BY <1>1, <1>3, <2>1, <2>2 DEF TxRemaining, TxNextData, Piece
<1>6. fwd' = Append(fwd, ConsecutiveFrame(Number(k), Piece(Place(k))))
  BY <1>3, <1>5, NothingLost DEF TxSend, TxNextFrame
<1>7. /\ Len(fwd') = k + 1
      /\ \A i \in 1 .. k : fwd'[i] = fwd[i]
      /\ fwd'[k + 1] = ConsecutiveFrame(Number(k), Piece(Place(k)))
      /\ fwd' # <<>>
  <2> DEFINE frame == ConsecutiveFrame(Number(k), Piece(Place(k)))
  <2>1. frame \in Frames
    BY <1>1, <1>3, <1>5, FramesSent DEF Typing, TxNextFrame
  <2> HIDE DEF frame
  <2>2. fwd \in Seq(Frames) /\ fwd' = Append(fwd, frame)
    BY <1>6 DEF Typing, frame
  <2> QED
    BY <1>4, <2>1, <2>2, AppendProperties, EmptySeq DEF frame
<1>8. /\ \A j : Place(j)' = Place(j) /\ Number(j)' = Number(j) /\ Piece(j)' = Piece(j)
  BY <1>2 DEF Place, Number, Piece
<1>9. Pieces'
  <2>1. ASSUME NEW i \in 1 .. k + 1
        PROVE  /\ Place(i - 1) < Len(offered)
               /\ fwd'[i] = ConsecutiveFrame(Number(i - 1), Piece(Place(i - 1)))
    <3>1. CASE i \in 1 .. k
      BY <1>3, <1>7, <3>1 DEF Pieces
    <3>2. CASE i = k + 1
      <4>1. i - 1 = k
        BY <1>4, <3>2
      <4> QED
        BY <1>5, <1>7, <3>2, <4>1
    <3> QED
      BY <1>4, <3>1, <3>2
  <2>2. k + 1 <= Room'
    BY <1>2, <1>4 DEF Room
  <2>3. BlockSize # 0 => rx.block + (k + 1) <= BlockSize
    BY <1>3, <1>4
  <2>4. \A i \in 1 .. k + 1 :
          /\ Place(i - 1)' < Len(offered')
          /\ fwd'[i] = ConsecutiveFrame(Number(i - 1)', Piece(Place(i - 1))')
    BY <1>2, <2>1 DEF Place, Number, Piece
  <2>5. Len(fwd') <= Room' /\ (BlockSize # 0 => rx'.block + Len(fwd') <= BlockSize)
    BY <1>2, <1>7, <2>2, <2>3
  <2>6. \A i \in 1 .. Len(fwd') :
          /\ Place(i - 1)' < Len(offered')
          /\ fwd'[i] = ConsecutiveFrame(Number(i - 1)', Piece(Place(i - 1))')
    BY <1>7, <2>4
  <2> QED
    BY <2>5, <2>6 DEF Pieces, ConsecutiveFrame
<1> DEFINE piece == Piece(Place(k))
<1>10. /\ Len(piece) \in Nat /\ Len(piece) <= CfBytes
       /\ Place(k) + Len(piece) < Len(offered) => Len(piece) = CfBytes
       /\ tx'.offset = Place(k) + Len(piece) /\ tx'.offset \in Nat
       /\ TxRemaining' = Len(offered) - tx'.offset
  <2>1. /\ Len(piece) \in 1 .. CfBytes
        /\ Place(k) + Len(piece) < Len(offered) => Len(piece) = CfBytes
    BY <1>5, PieceIs
  <2>2. tx'.offset = Place(k) + Len(piece) /\ TxRemaining' = Len(offered) - tx'.offset
    BY <1>1, <1>3, <1>5 DEF TxRemaining
  <2> HIDE DEF piece
  <2> QED
    BY <1>5, <2>1, <2>2
<1> HIDE DEF piece
<1>11. Place(Len(fwd))' = Place(k + 1) /\ Number(Len(fwd))' = Number(k + 1)
  BY <1>2, <1>7 DEF Place, Number
<1> DEFINE ends == BlockSize # 0 /\ tx.block + 1 >= BlockSize /\ tx'.offset < Len(offered)
<1>17. (tx'.waiting <=> ends) /\ tx'.block = IF ends THEN 0 ELSE tx.block + 1
  <2>1. TxBlockEnds(tx'.offset) <=> ends
    BY <1>3 DEF TxBlockEnds
  <2> HIDE DEF ends
  <2> QED
    BY <1>1, <2>1
<1>12. ASSUME TxRemaining' > 0
       PROVE  GoesOn'
  <2>1. tx'.offset < Len(offered) /\ tx'.offset = Place(k + 1)
    BY <1>5, <1>10, <1>12
  <2>2. tx'.sequence = Number(k + 1)
    BY <1>1, <1>3, <1>4, Numbers DEF Typing
  <2>3. tx'.waiting => BlockSize # 0 /\ rx'.block + Len(fwd') = BlockSize
    BY <1>2, <1>3, <1>4, <1>7, <1>17
  <2>4. ~tx'.waiting =>
          /\ tx'.blockSize = BlockSize /\ tx'.stMin = StMin
          /\ BlockSize # 0 => tx'.block = rx'.block + Len(fwd') /\ tx'.block < BlockSize
    BY <1>1, <1>2, <1>3, <1>4, <1>7, <1>17, <2>1
  <2>5. /\ tx'.active /\ tx'.payload = offered' /\ tx'.sequence = Number(Len(fwd))'
        /\ tx'.offset = Place(Len(fwd))'
    BY <1>1, <1>2, <1>3, <1>11, <2>1, <2>2
  <2>6. GoesOn'
    BY <1>7, <1>12, <2>3, <2>4, <2>5 DEF GoesOn
  <2> QED
    BY <2>6
<1>13. ASSUME ~(TxRemaining' > 0)
       PROVE  LastOut'
  <2>1. tx'.offset >= Len(offered) /\ Place(k + 1) >= Len(offered) /\ TxRemaining' <= 0
    BY <1>5, <1>10, <1>13
  <2>2. ~tx'.waiting
    BY <1>5, <1>10, <1>17, <2>1
  <2>3. Place(Len(fwd))' >= Len(offered')
    BY <1>2, <1>11, <2>1
  <2>4. LastOut'
    BY <1>7, <2>1, <2>2, <2>3 DEF LastOut
  <2> QED
    BY <2>4
<1>14. TxTimely'
  <2>1. TxAge' = 0
    BY <1>1, <1>2, Fresh
  <2>2. Since(tx'.deadline, tx'.nextFrame) = TxTimeoutMs - StMinToMs(StMin)
    <3>1. StMinToMs(StMin) \in 0 .. TxTimeoutMs /\ now \in Ticks /\ TxTimeoutMs < TickMod
          /\ TxTimeoutMs \in Nat
      BY PaceIs DEF Typing
    <3> QED
      BY <1>1, <1>3, <3>1, DeadlineSet
  <2>3. 0 \in 0 .. 2 /\ 0 \in 0 .. Pace /\ Pace # 0
    BY PaceIs
  <2> QED
    BY <2>1, <2>2, <2>3 DEF TxTimely
<1>15. RxTimely'
  BY <1>7 DEF RxTimely
<1>16. Within'
  BY <1>2, <1>3 DEF Within
<1> QED
  BY <1>2, <1>3, <1>9, <1>12, <1>13, <1>14, <1>15, <1>16 DEF Smooth, Phase, Sending

\* When isotp_tx_next sends nothing, no frame is due, or all are sent.
LEMMA SmoothNext ==
  ASSUME Typing, Timely, Smooth, TxNext
  PROVE  Smooth'
<1>1. /\ txStage = "feed" /\ txStage' = "tick" /\ bwd = <<>>
      /\ UNCHANGED <<rx, now, fwd, bwd, offered, starts, rxDone>>
  BY DEF TxNext, lineVars, boundVars, messageVars
<1>2. ~failed /\ Phase /\ TxTimely /\ RxTimely
  BY DEF Smooth
<1>3. CASE TxNextNothing(now) /\ UNCHANGED failed
  <2>1. tx' = tx /\ TxAge' = TxAge /\ RxAge' = RxAge
    BY <1>1, <1>3 DEF TxNextNothing, TxAge, RxAge
  <2>2. tx.active /\ ~tx.waiting => ~Just /\ TxAge # Pace
    BY <1>2, <1>3, TxKeepsTime DEF TxNextNothing, TxDue, TxMayProceed
  <2>3. Phase'
    <3>1. Room \in Nat /\ Room' \in Nat /\ Room <= Room'
      BY <1>1 DEF Room
    <3>2. Len(fwd) \in Nat
      BY LenProperties DEF Typing
    <3>3. Len(fwd) <= Room => Len(fwd) <= Room'
      BY <3>1, <3>2
    <3> QED
      BY <1>1, <1>2, <2>1, <3>3, PhaseKept
  <2>4. TxTimely'
    <3>1. TxAge # 2 \/ ~tx.active \/ ~tx.waiting
      BY <1>1, <1>2 DEF TxTimely
    <3> QED
      BY <1>1, <1>2, <2>1, <2>2, <3>1 DEF TxTimely
  <2>5. RxTimely'
    <3>1. rx.active /\ fwd = <<>> => tx.active /\ ~tx.waiting
      BY <1>1, PhaseFacts
    <3> QED
      BY <1>1, <1>2, <2>1, <2>2, <3>1 DEF RxTimely
  <2> QED
    BY <1>2, <1>3, <2>3, <2>4, <2>5 DEF Smooth
<1>4. CASE TxNextComplete(now) /\ UNCHANGED failed
  <2>1. tx.active /\ ~tx.waiting /\ ~(TxRemaining > 0) /\ ~tx'.active
    BY <1>4, PhaseFacts, TxResetTyping DEF TxNextComplete, TxDue, TxMayProceed
  <2>2. AtRest \/ (starts = 1 /\ Sending /\ LastOut)
    BY <1>2, <2>1 DEF Phase, SingleOut, FirstOut, Asked, Sending, GoesOn
  <2>3. AtRest => AtRest'
    BY <1>1, <2>1 DEF AtRest
  <2>4. Sending /\ LastOut => Sending'
    <3>1. Within => Within'
      BY <1>1 DEF Within
    <3>2. Pieces => Pieces'
      <4>1. Len(fwd) <= Room => Len(fwd) <= Room'
        <5>1. Room \in Nat /\ Room' \in Nat /\ Room <= Room' /\ Len(fwd) \in Nat
          BY <1>1, LenProperties DEF Room, Typing
        <5> QED
          BY <5>1
      <4> QED
        BY <1>1, <4>1 DEF Pieces, Place, Number, Piece, ConsecutiveFrame
    <3>3. LastOut => LastOut'
      BY <1>1, <2>1 DEF LastOut, Place
    <3> QED
      BY <1>1, <3>1, <3>2, <3>3 DEF Sending
  <2>5. Phase'
    BY <1>1, <2>2, <2>3, <2>4 DEF Phase
  <2>6. ~(rx.active /\ fwd = <<>>)
    BY <2>2 DEF AtRest, LastOut
  <2> QED
    BY <1>1, <1>2, <1>4, <2>1, <2>5, <2>6 DEF Smooth, TxTimely, RxTimely
<1>5. ~TxNextTimeout(now)
  BY <1>2, TxKeepsTime DEF TxNextTimeout, TxMayProceed
<1> QED
  BY <1>3, <1>4, <1>5 DEF TxNext

\* The transmitter does not time out ...
LEMMA SmoothTxTick ==
  ASSUME Typing, Timely, Smooth, TxTick
  PROVE  Smooth'
<1>1. /\ txStage = "tick" /\ txStage' = "done"
      /\ UNCHANGED <<rx, now, fwd, bwd, offered, starts, rxDone>>
  BY DEF TxTick, lineVars, boundVars, messageVars
<1>2. ~failed /\ Phase /\ TxTimely /\ RxTimely
  BY DEF Smooth
<1>3. TxTickNothing(now) /\ UNCHANGED failed
  BY <1>1, <1>2, TxKeepsTime DEF TxTick, TxTickTimeout
<1>4. tx' = tx /\ TxAge' = TxAge /\ RxAge' = RxAge /\ ~Just
  BY <1>1, <1>3 DEF TxTickNothing, TxAge, RxAge, Just
<1>5. Phase'
  <2>1. Room' = Room
    BY <1>1 DEF Room
  <2> QED
    BY <1>1, <1>2, <1>4, <2>1, PhaseKept
<1>6. TxTimely'
  BY <1>1, <1>2, <1>4 DEF TxTimely
<1>7. RxTimely'
  BY <1>1, <1>2, <1>4 DEF RxTimely
<1> QED
  BY <1>2, <1>3, <1>5, <1>6, <1>7 DEF Smooth

\* ... and neither does the receiver.
LEMMA SmoothRxTick ==
  ASSUME Typing, Timely, Smooth, RxTick
  PROVE  Smooth'
<1>1. /\ ~rxDone /\ rxDone' = TRUE /\ fwd = <<>>
      /\ UNCHANGED <<tx, now, fwd, bwd, offered, starts, txStage>>
  BY DEF RxTick, lineVars, boundVars, messageVars
<1>2. ~failed /\ Phase /\ TxTimely /\ RxTimely
  BY DEF Smooth
<1>3. ~RxTickTimeout(now)
  <2> SUFFICES ASSUME rx.active
               PROVE  ~Expired(now, rx.deadline)
    BY DEF RxTickTimeout, RxExpired
  <2>1. now \in Ticks /\ rx.deadline \in Ticks
    BY DEF Typing, RxTyping, RxStates
  <2>2. Since(rx.deadline, now) \in Nat
    BY <2>1, SinceIs
  <2>3. RxAge \in 0 .. Pace
    BY <1>1, <1>2 DEF RxTimely
  <2>4. Since(rx.deadline, now) >= 1 /\ Since(rx.deadline, now) < TickMod \div 2
    BY <2>2, <2>3, PaceIs DEF RxAge
  <2> QED
    BY <2>1, <2>4, DeadlineAhead
<1>4. rx' = rx /\ UNCHANGED failed /\ TxAge' = TxAge /\ RxAge' = RxAge /\ (Just' <=> Just)
  BY <1>1, <1>3 DEF RxTick, RxTickNothing, TxAge, RxAge, Just
<1>5. Phase'
  <2>1. Len(fwd) <= Room => Len(fwd) <= Room'
    <3>1. Len(fwd) = 0 /\ Room' \in Nat
      BY <1>1, EmptySeq DEF Room
    <3> QED
      BY <3>1
  <2> QED
    BY <1>1, <1>2, <1>4, <2>1, PhaseKept
<1>6. TxTimely'
  BY <1>1, <1>2, <1>4 DEF TxTimely
<1>7. RxTimely'
  BY <1>1, <1>2, <1>4 DEF RxTimely
<1> QED
  BY <1>2, <1>4, <1>5, <1>6, <1>7 DEF Smooth

\* A millisecond passes: whoever waits for an answer has one on its way.
LEMMA SmoothTick ==
  ASSUME Typing, Timely, Smooth, Tick
  PROVE  Smooth'
<1>1. /\ txStage = "done" /\ txStage' = "feed" /\ rxDone /\ ~rxDone'
      /\ now' = After(now, 1)
      /\ UNCHANGED <<tx, rx, fwd, bwd, offered, starts, failed>>
  BY DEF Tick, lineVars, boundVars, messageVars
<1>2. ~failed /\ Phase /\ TxTimely /\ RxTimely /\ ~Just
  BY <1>1 DEF Smooth, Just
<1>3. now \in Ticks /\ tx.deadline \in Ticks /\ rx.deadline \in Ticks
      /\ tx.waiting \in BOOLEAN /\ tx.active \in BOOLEAN
  BY DEF Typing, TxTyping, TxStates, RxTyping, RxStates
<1>4. /\ Since(tx.deadline, now) \in Nat /\ Since(rx.deadline, now) \in Nat
      /\ TxAge = TxTimeoutMs - Since(tx.deadline, now) /\ TxAge \in Int
      /\ RxAge = RxTimeoutMs - Since(rx.deadline, now) /\ RxAge \in Int
  BY <1>3, SinceIs, Constants DEF TxAge, RxAge
<1>5. ASSUME tx.active
      PROVE  /\ tx.waiting => TxAge \in 0 .. 1 /\ (TxAge = 1 => bwd # <<>>)
             /\ ~tx.waiting => TxAge \in 0 .. Pace - 1
             /\ TxAge' = TxAge + 1
  <2>1. tx.waiting => TxAge \in 0 .. 2 /\ TxAge # 2 /\ (TxAge = 1 => fwd = <<>>)
    BY <1>1, <1>2, <1>5 DEF TxTimely
  <2>2. tx.waiting => TxAge \in 0 .. 1 /\ (TxAge = 1 => bwd # <<>>)
    BY <1>5, <2>1, PhaseFacts
  <2>3. ~tx.waiting => TxAge \in 0 .. Pace /\ TxAge # Pace
    BY <1>1, <1>2, <1>5 DEF TxTimely
  <2>4. ~tx.waiting => TxAge \in 0 .. Pace - 1
    BY <2>3, PaceIs
  <2>5. TxAge <= Pace
    BY <1>3, <2>2, <2>4, PaceIs
  <2>6. Since(tx.deadline, now) >= 1
    BY <1>4, <2>5, PaceIs
  <2>7. Since(tx.deadline, now') = Since(tx.deadline, now) - 1
    BY <1>1, <1>3, <2>6, DeadlineNears
  <2>8. TxAge' = TxTimeoutMs - Since(tx.deadline, now')
    BY <1>1 DEF TxAge
  <2>9. TxAge' = TxAge + 1
    BY <1>4, <2>7, <2>8, PaceIs
  <2> QED
    BY <2>2, <2>4, <2>9
<1>6. ASSUME rx.active, fwd = <<>>
      PROVE  /\ RxAge' = RxAge + 1 /\ RxAge \in 0 .. Pace - 1 /\ tx.active
             /\ tx.waiting => RxAge = 0
             /\ ~tx.waiting => RxAge <= TxAge
  <2>1. tx.active
    BY <1>6, PhaseFacts
  <2>2. RxAge \in 0 .. Pace /\ (tx.waiting => RxAge = 0) /\ (~tx.waiting => RxAge <= TxAge)
    BY <1>1, <1>2, <1>6 DEF RxTimely
  <2>3. RxAge \in 0 .. Pace - 1
    <3>1. CASE tx.waiting
      BY <1>4, <2>2, <3>1, PaceIs
    <3>2. CASE ~tx.waiting
      <4>1. RxAge <= TxAge /\ TxAge \in 0 .. Pace - 1
        BY <1>5, <2>1, <2>2, <3>2
      <4> QED
        BY <1>4, <2>2, <4>1, PaceIs
    <3> QED
      BY <3>1, <3>2
  <2>4. Since(rx.deadline, now) >= 1
    BY <1>4, <2>3, PaceIs
  <2>5. Since(rx.deadline, now') = Since(rx.deadline, now) - 1
    BY <1>1, <1>3, <2>4, DeadlineNears
  <2>6. RxAge' = RxTimeoutMs - Since(rx.deadline, now')
    BY <1>1 DEF RxAge
  <2>7. RxAge' = RxAge + 1
    BY <1>4, <2>5, <2>6, PaceIs
  <2> QED
    BY <2>1, <2>2, <2>3, <2>7
<1>7. Phase'
  <2>1. Room' = Room
    BY <1>1 DEF Room
  <2> QED
    BY <1>1, <1>2, <2>1, PhaseKept
<1>8. TxTimely'
  <2> SUFFICES ASSUME tx.active
               PROVE  TxTimely'
    BY <1>1 DEF TxTimely
  <2>1. ASSUME tx.waiting
        PROVE  TxAge' \in 0 .. 2 /\ (TxAge' = 2 => bwd # <<>>)
    BY <1>4, <1>5, <2>1
  <2>2. ASSUME ~tx.waiting
        PROVE  /\ TxAge' \in 0 .. Pace
               /\ Since(tx.deadline, tx.nextFrame) = TxTimeoutMs - StMinToMs(StMin)
    <3>1. TxAge' \in 0 .. Pace
      <4>1. TxAge' = TxAge + 1 /\ TxAge \in 0 .. Pace - 1
        BY <1>5, <2>2
      <4>2. Pace \in Nat
        BY PaceIs
      <4> QED
        BY <4>1, <4>2
    <3>2. Since(tx.deadline, tx.nextFrame) = TxTimeoutMs - StMinToMs(StMin)
      BY <1>2, <2>2 DEF TxTimely
    <3> QED
      BY <3>1, <3>2
  <2> QED
    BY <1>1, <2>1, <2>2 DEF TxTimely
<1>9. RxTimely'
  <2> SUFFICES ASSUME rx.active, fwd = <<>>
               PROVE  RxTimely'
    BY <1>1 DEF RxTimely
  <2>1. RxAge' \in 0 .. Pace
    <3>1. RxAge' = RxAge + 1 /\ RxAge \in 0 .. Pace - 1
      BY <1>6
    <3>2. Pace \in Nat
      BY PaceIs
    <3> QED
      BY <3>1, <3>2
  <2>2. ~tx.waiting => RxAge' <= TxAge'
    <3>1. RxAge' = RxAge + 1 /\ TxAge' = TxAge + 1 /\ (~tx.waiting => RxAge <= TxAge)
      BY <1>5, <1>6
    <3> QED
      BY <1>4, <3>1
  <2>3. tx.waiting => RxAge' = 1
    BY <1>6
  <2> QED
    BY <1>1, <2>1, <2>2, <2>3 DEF RxTimely
<1> QED
  BY <1>1, <1>2, <1>7, <1>8, <1>9 DEF Smooth

-----------------------------------------------------------------------------
(* The receiver, without faults *)

\* What the receiver reads is what the phase says.
LEMMA HeadIs ==
  ASSUME Typing, Smooth, Receive
  PROVE  /\ starts = 1 /\ bwd = <<>>
         /\ \/ SingleOut /\ Head(fwd) = SingleFrame(offered) /\ fwd' = <<>>
            \/ FirstOut /\ Head(fwd) = FirstFrame(offered) /\ fwd' = <<>>
            \/ /\ Sending
               /\ Head(fwd) = ConsecutiveFrame(rx.sequence, Piece(Len(rx.buffer)))
<1>1. fwd # <<>> /\ fwd' = Tail(fwd) /\ Head(fwd) = fwd[1] /\ 1 \in 1 .. Len(fwd)
  BY LineTail
<1>2. Phase /\ ~AtRest /\ ~Asked
  BY <1>1 DEF Smooth, AtRest, Asked
<1>3. CASE SingleOut
  <2> DEFINE frame == SingleFrame(offered)
  <2>1. fwd = <<frame>>
    BY <1>3 DEF SingleOut
  <2> HIDE DEF frame
  <2>2. Head(fwd) = frame /\ Tail(fwd) = <<>>
    BY <2>1
  <2>3. bwd = <<>>
    BY <1>3 DEF SingleOut
  <2> QED
    BY <1>1, <1>2, <1>3, <2>2, <2>3 DEF Phase, frame
<1>4. CASE FirstOut
  <2> DEFINE frame == FirstFrame(offered)
  <2>1. fwd = <<frame>>
    BY <1>4 DEF FirstOut
  <2> HIDE DEF frame
  <2>2. Head(fwd) = frame /\ Tail(fwd) = <<>>
    BY <2>1
  <2>3. bwd = <<>>
    BY <1>4 DEF FirstOut
  <2> QED
    BY <1>1, <1>2, <1>4, <2>2, <2>3 DEF Phase, frame
<1>5. CASE Sending
  <2>1. fwd[1] = ConsecutiveFrame(Number(1 - 1), Piece(Place(1 - 1)))
    BY <1>1, <1>5 DEF Sending, Pieces
  <2>2. Number(0) = rx.sequence /\ Place(0) = Len(rx.buffer)
    BY Numbers, Places, Constants DEF Typing
  <2>3. bwd = <<>>
    BY <1>5 DEF Sending
  <2> QED
    BY <1>1, <1>2, <1>5, <2>1, <2>2, <2>3 DEF Phase
<1> QED
  BY <1>2, <1>3, <1>4, <1>5 DEF Phase

\* A single frame is delivered.
LEMMA SmoothSingle ==
  ASSUME Typing, Smooth, RxSingle
  PROVE  Smooth'
<1>1. /\ Receive /\ RxReset /\ Head(fwd).type = "SF" /\ Deliver(Head(fwd).data)
      /\ UNCHANGED <<tx, now, bwd, starts, failed>>
  BY DEF RxSingle, RxFeedSingle, stageVars, boundVars
<1>2. SingleOut /\ Head(fwd) = SingleFrame(offered) /\ fwd' = <<>> /\ bwd = <<>>
  BY <1>1, HeadIs DEF FirstFrame, ConsecutiveFrame
<1>3. offered' = <<>>
  BY <1>1, <1>2 DEF Deliver, SingleFrame
<1>4. ~rx'.active /\ ~tx'.active
  BY <1>1, <1>2, RxResetTyping DEF SingleOut
<1>5. AtRest'
  BY <1>1, <1>2, <1>3, <1>4 DEF AtRest
<1> QED
  BY <1>1, <1>4, <1>5 DEF Smooth, Phase, TxTimely, RxTimely

\* The receiver refuses nothing.
LEMMA SmoothReject ==
  ASSUME Typing, Smooth, RxReject
  PROVE  FALSE
<1>1. Receive /\ (RxFeedBadLength(Head(fwd)) \/ RxFeedUnexpected(Head(fwd))
                  \/ RxFeedOutOfSequence(Head(fwd)))
  BY DEF RxReject
<1>2. CASE Head(fwd).type = "FF"
  <2>1. FirstOut /\ Head(fwd) = FirstFrame(offered)
    BY <1>1, <1>2, HeadIs DEF SingleFrame, ConsecutiveFrame
  <2>2. Len(offered) \in SfBytes + 1 .. MaxPayload
    BY <2>1, MessagesAreData, Constants DEF FirstOut, Typing
  <2>3. Head(fwd).length = Len(offered)
    BY <2>1 DEF FirstFrame
  <2> QED
    BY <1>1, <1>2, <2>2, <2>3 DEF RxFeedBadLength, RxFeedUnexpected, RxFeedOutOfSequence
<1>3. CASE Head(fwd).type # "FF"
  <2>1. Head(fwd).type \in {"FC", "CF"}
    BY <1>1, <1>3 DEF RxFeedBadLength, RxFeedUnexpected, RxFeedOutOfSequence
  <2>2. Sending /\ Head(fwd) = ConsecutiveFrame(rx.sequence, Piece(Len(rx.buffer)))
    BY <1>1, <1>3, <2>1, HeadIs DEF SingleFrame, FirstFrame
  <2>3. rx.active /\ Head(fwd).type = "CF" /\ Head(fwd).sequence = rx.sequence
    BY <2>2 DEF Sending, Within, ConsecutiveFrame
  <2> QED
    BY <1>1, <2>3 DEF RxFeedBadLength, RxFeedUnexpected, RxFeedOutOfSequence
<1> QED
  BY <1>2, <1>3

\* The first frame is answered with a flow control.
LEMMA SmoothFirst ==
  ASSUME Typing, Timely, Smooth, Faultless, Faultless', RxData, RxFeedFirst(Head(fwd), now)
  PROVE  Smooth'
<1>1. /\ Receive /\ Head(fwd).type = "FF" /\ Head(fwd).length \in SfBytes + 1 .. MaxPayload
      /\ UNCHANGED <<tx, now, starts, failed, txStage>>
  BY DEF RxData, RxFeedFirst, stageVars
<1>2. /\ FirstOut /\ Head(fwd) = FirstFrame(offered) /\ fwd' = <<>> /\ bwd = <<>>
      /\ starts = 1
  BY <1>1, HeadIs DEF SingleFrame, ConsecutiveFrame
<1>3. offered' = offered /\ bwd' = <<RxFlowControl>>
  <2>1. Answer(RxFlowControl) /\ offered' = offered
    BY <1>1 DEF RxData, RxCompletes, RxInSequence, RxWantsFlowControl, messageVars
  <2>2. bwd' = Append(bwd, RxFlowControl)
    BY <2>1, NothingLost
  <2> QED
    BY <1>2, <2>1, <2>2
<1>4. /\ offered \in Seq(Bytes) /\ Len(offered) \in Nat /\ FfBytes \in Nat
      /\ FfBytes <= Len(offered) /\ FfBytes < Len(offered) /\ offered # <<>>
      /\ Head(fwd).length = Len(offered) /\ Head(fwd).data = SubSeq(offered, 1, FfBytes)
      /\ Len(SubSeq(offered, 1, FfBytes)) = FfBytes
  <2>1. offered \in Seq(Bytes) /\ Len(offered) \in Nat
    BY MessagesAreData DEF Typing
  <2>2. FfBytes \in Nat /\ FfBytes <= Len(offered) /\ FfBytes < Len(offered)
    BY <1>2, <2>1, Constants DEF FirstOut
  <2>3. Head(fwd).length = Len(offered) /\ Head(fwd).data = SubSeq(offered, 1, FfBytes)
    BY <1>2 DEF FirstFrame
  <2> QED
    BY <1>2, <2>1, <2>2, <2>3, PrefixIs DEF FirstOut
<1>5. /\ rx'.active /\ rx'.sequence = 1 /\ rx'.block = 0
      /\ rx'.expected = Len(offered) /\ rx'.buffer = SubSeq(offered, 1, FfBytes)
      /\ Len(rx'.buffer) = FfBytes /\ rx'.deadline = After(now, RxTimeoutMs)
  BY <1>1, <1>4, LineTail, RxFirstIs DEF Typing
<1>6. Asked'
  <2>1. Within'
    BY <1>3, <1>4, <1>5 DEF Within
  <2>2. bwd' = <<RxFlowControl>>'
    BY <1>3 DEF RxFlowControl, FlowControl
  <2> QED
    BY <1>1, <1>2, <1>3, <1>5, <2>1, <2>2 DEF Asked, FirstOut
<1>7. TxTimely' /\ RxTimely'
  <2>1. tx.active /\ tx.waiting /\ TxAge' = TxAge
    BY <1>1, <1>2 DEF FirstOut, TxAge
  <2>2. TxTimely'
    BY <1>1, <1>2, <2>1 DEF Smooth, TxTimely
  <2>3. RxAge' = 0 /\ 0 \in 0 .. Pace
    BY <1>1, <1>5, Fresh, PaceIs
  <2> QED
    BY <1>1, <2>1, <2>2, <2>3 DEF RxTimely
<1> QED
  BY <1>1, <1>2, <1>6, <1>7 DEF Smooth, Phase

\* A consecutive frame completes the message, ends a block and is answered, or
\* brings everything one frame nearer.
LEMMA SmoothConsecutive ==
  ASSUME Typing, Timely, Smooth, Faultless, Faultless', RxData,
         RxFeedConsecutive(Head(fwd), now)
  PROVE  Smooth'
<1> DEFINE frame == Head(fwd)
           k == Len(fwd)
<1>1. /\ Receive /\ RxInSequence(frame) /\ frame.type = "CF" /\ ~rxDone
      /\ UNCHANGED <<tx, now, starts, failed, txStage, rxDone>>
  BY DEF RxData, RxFeedConsecutive, RxInSequence, Receive, stageVars
<1>2. /\ Sending /\ frame.data = Piece(Len(rx.buffer)) /\ bwd = <<>> /\ starts = 1
      /\ Within /\ Pieces /\ (GoesOn \/ LastOut)
  BY <1>1, HeadIs DEF SingleFrame, FirstFrame, ConsecutiveFrame, Sending
<1>3. /\ RxTyping /\ RxTyping'
      /\ rx'.buffer = RxFilled(frame) /\ rx'.expected = rx.expected
      /\ rx'.sequence = (rx.sequence + 1) % SeqMod
      /\ rx'.block = IF RxBlockEnds /\ ~RxCompletes(frame) THEN 0 ELSE rx.block + 1
      /\ rx'.active = ~RxCompletes(frame)
      /\ rx'.deadline = After(now, RxTimeoutMs)
  BY <1>1, LineTail, RxConsecutiveIs DEF Typing
<1>4. /\ offered \in Seq(Bytes) /\ Len(offered) \in Nat
      /\ RxCompletes(frame) =>
           RxFilled(frame) = offered /\ Len(rx.buffer) + CfBytes >= Len(offered)
      /\ ~RxCompletes(frame) =>
           /\ Len(RxFilled(frame)) < Len(offered)
           /\ Len(RxFilled(frame)) = Len(rx.buffer) + CfBytes
           /\ RxFilled(frame) = SubSeq(offered, 1, Len(RxFilled(frame)))
  BY <1>1, <1>2, FilledIs DEF Within
<1>5. /\ k \in Nat \ {0} /\ k <= 2 /\ k <= SeqMod /\ fwd' = Tail(fwd) /\ Len(fwd') = k - 1
      /\ \A i \in 1 .. k - 1 : i + 1 \in 1 .. k /\ fwd'[i] = fwd[i + 1]
  <2>1. /\ k \in Nat \ {0} /\ fwd' = Tail(fwd) /\ Len(fwd') = k - 1
        /\ \A i \in 1 .. k - 1 : i + 1 \in 1 .. k /\ fwd'[i] = fwd[i + 1]
    BY <1>1, LineTail
  <2>2. k <= 2
    BY <1>2, <2>1 DEF Pieces, Room
  <2> QED
    BY <2>1, <2>2, Constants
<1>6. /\ rx.block \in Nat /\ BlockSize \in Nat /\ tx.block \in Nat
      /\ BlockSize # 0 => rx.block + k <= BlockSize
  BY <1>2, Constants DEF Typing, RxTyping, RxStates, TxTyping, TxStates, Pieces
<1>7. Place(1) = Len(rx.buffer) + CfBytes /\ Place(1) \in Nat
  <2>1. 0 \in Nat /\ CfBytes \in Nat /\ Len(rx.buffer) \in Nat
    BY <1>3, Constants, LenProperties DEF RxTyping, RxStates
  <2>2. Place(0) = Len(rx.buffer) /\ Place(0 + 1) = Place(0) + CfBytes
    BY <1>3, <2>1, Places
  <2> QED
    BY <2>1, <2>2
<1>8. k # 1 => Place(1) < Len(offered)
  <2>1. k # 1 => 2 \in 1 .. Len(fwd)
    BY <1>5
  <2> QED
    BY <1>2, <2>1 DEF Pieces
<1>9. TxAge' = TxAge /\ (Just' <=> Just) /\ RxAge' = 0
  BY <1>1, <1>3, Fresh DEF TxAge, Just
<1>10. TxTimely'
  BY <1>1, <1>2, <1>9 DEF Smooth, TxTimely
<1>11. RxCompletes(frame) => offered' = <<>>
  BY <1>4 DEF RxData, Deliver
<1>12. ~RxCompletes(frame) => offered' = offered
  BY DEF RxData, messageVars
<1>13. CASE RxCompletes(frame)
  <2>1. k = 1 /\ Place(1) >= Len(offered)
    BY <1>4, <1>7, <1>8, <1>13
  <2>2. fwd' = <<>>
    BY <1>5, <2>1, LineTail, <1>1, EmptySeq DEF Typing
  <2>3. bwd' = <<>>
    BY <1>1, <1>2, <1>13 DEF RxData, RxWantsFlowControl
  <2>4. LastOut
    <3>1. ASSUME GoesOn
          PROVE  FALSE
      <4>1. TxRemaining = Len(offered) - Place(1) /\ TxRemaining > 0
        BY <2>1, <3>1 DEF GoesOn, TxRemaining
      <4> QED
        BY <1>4, <1>7, <2>1, <4>1
    <3> QED
      BY <1>2, <3>1
  <2>5. AtRest'
    BY <1>1, <1>3, <1>11, <1>13, <2>2, <2>3, <2>4 DEF AtRest, LastOut, TxRemaining
  <2> QED
    BY <1>1, <1>3, <1>10, <1>13, <2>5 DEF Smooth, Phase, RxTimely
<1>14. CASE ~RxCompletes(frame)
  <2>0. RxBlockEnds <=> BlockSize # 0 /\ rx.block + 1 >= BlockSize
    BY DEF RxBlockEnds
  <2>1. Place(1) < Len(offered) /\ Len(rx'.buffer) = Place(1)
    BY <1>3, <1>4, <1>7, <1>14
  <2>2. Within'
    BY <1>2, <1>3, <1>4, <1>12, <1>14 DEF Within
  <2>3. ASSUME NEW j \in Nat, j > 0, j <= SeqMod
        PROVE  Number(j - 1)' = Number(j) /\ Place(j - 1)' = Place(j)
    <3>1. Len(rx'.buffer) = Len(rx.buffer) + CfBytes
      BY <1>3, <1>4, <1>14
    <3> QED
      BY <1>3, <2>3, <3>1, OneNearer
  <2>4. LastOut => k # 1
    <3> SUFFICES ASSUME LastOut, k = 1 PROVE FALSE
      OBVIOUS
    <3>1. Place(1) >= Len(offered)
      BY DEF LastOut
    <3> QED
      BY <1>4, <1>7, <2>1, <3>1
  <2>5. CASE RxBlockEnds
    <3>1. k = 1 /\ rx'.block = 0 /\ rx.block + k = BlockSize /\ BlockSize # 0
      BY <1>3, <1>5, <1>6, <1>14, <2>0, <2>5
    <3>2. fwd' = <<>>
      BY <1>5, <3>1, LineTail, <1>1, EmptySeq DEF Typing
    <3>3. GoesOn
      BY <1>2, <2>4, <3>1
    <3>4. tx.waiting
      BY <1>6, <3>1, <3>3 DEF GoesOn
    <3>5. bwd' = <<RxFlowControl>>
      <4>1. Answer(RxFlowControl)
        BY <1>1, <1>14, <2>5 DEF RxData, RxWantsFlowControl
      <4> QED
        BY <1>2, <4>1, NothingLost
    <3>6. tx.sequence = rx'.sequence /\ tx.offset = Len(rx'.buffer)
      <4>1. Number(1) = (rx.sequence + 1) % SeqMod
        BY DEF Number
      <4> QED
        BY <1>3, <2>1, <3>1, <3>3, <4>1 DEF GoesOn
    <3>7. Asked'
      <4>1. bwd' = <<RxFlowControl>>'
        BY <3>5 DEF RxFlowControl, FlowControl
      <4> QED
        BY <1>1, <1>12, <1>14, <2>2, <3>1, <3>2, <3>3, <3>4, <3>6, <4>1 DEF Asked, GoesOn
    <3>8. RxTimely'
      BY <1>1, <1>9, <3>4, PaceIs DEF RxTimely
    <3> QED
      BY <1>1, <1>2, <1>10, <3>7, <3>8 DEF Smooth, Phase
  <2>6. CASE ~RxBlockEnds
    <3>1. rx'.block = rx.block + 1 /\ bwd' = <<>> /\ offered' = offered
      BY <1>1, <1>2, <1>3, <1>12, <1>14, <2>6 DEF RxData, RxWantsFlowControl
    <3>2. Pieces'
      <4>1. ASSUME NEW i \in 1 .. k - 1
            PROVE  /\ Place(i - 1)' < Len(offered')
                   /\ fwd'[i] = ConsecutiveFrame(Number(i - 1)', Piece(Place(i - 1))')
        <5>1. i \in Nat /\ i > 0 /\ i <= SeqMod /\ i + 1 \in 1 .. k /\ fwd'[i] = fwd[i + 1]
              /\ (i + 1) - 1 = i
          BY <1>5, Constants
        <5>2. Number(i - 1)' = Number(i) /\ Place(i - 1)' = Place(i)
          BY <2>3, <5>1
        <5>3. Place(i) < Len(offered) /\ fwd[i + 1] = ConsecutiveFrame(Number(i), Piece(Place(i)))
          BY <1>2, <5>1 DEF Pieces
        <5>4. Piece(Place(i - 1))' = Piece(Place(i))
          BY <3>1, <5>2 DEF Piece
        <5> QED
          BY <3>1, <5>1, <5>2, <5>3, <5>4
      <4>2. \A i \in 1 .. Len(fwd') :
              /\ Place(i - 1)' < Len(offered')
              /\ fwd'[i] = ConsecutiveFrame(Number(i - 1)', Piece(Place(i - 1))')
        BY <1>5, <4>1
      <4>3. Len(fwd') <= Room'
        BY <1>1, <1>2, <1>5 DEF Pieces, Room
      <4>4. BlockSize # 0 => rx'.block + Len(fwd') <= BlockSize
        BY <1>5, <1>6, <3>1
      <4> QED
        BY <4>2, <4>3, <4>4 DEF Pieces, ConsecutiveFrame
    <3>3. Number(Len(fwd))' = Number(k) /\ Place(Len(fwd))' = Place(k)
      <4>1. PICK n \in Nat : n = k /\ n > 0 /\ n <= SeqMod
        <5>1. k \in Nat /\ k > 0 /\ k <= SeqMod
          BY <1>5, Constants
        <5> QED
          BY <5>1
      <4>2. Number(n - 1)' = Number(n) /\ Place(n - 1)' = Place(n)
        BY <2>3, <4>1
      <4>3. Number(Len(fwd))' = Number(n - 1)' /\ Place(Len(fwd))' = Place(n - 1)'
        BY <1>5, <4>1 DEF Number, Place
      <4> QED
        BY <4>1, <4>2, <4>3
    <3>4. k # 1 => fwd' # <<>>
      <4>1. k # 1 => Len(fwd') # 0
        BY <1>5
      <4> QED
        BY <4>1, EmptySeq
    <3>5. GoesOn => GoesOn'
      <4> SUFFICES ASSUME GoesOn PROVE GoesOn'
        OBVIOUS
      <4>1. tx.waiting => BlockSize # 0 /\ rx'.block + Len(fwd') = BlockSize /\ k # 1
        BY <1>5, <1>6, <2>0, <2>6, <3>1 DEF GoesOn
      <4>2. ~tx.waiting =>
              /\ tx.blockSize = BlockSize /\ tx.stMin = StMin
              /\ BlockSize # 0 => tx.block = rx'.block + Len(fwd') /\ tx.block < BlockSize
        BY <1>5, <1>6, <3>1 DEF GoesOn
      <4>3. /\ tx.active /\ TxRemaining' > 0 /\ tx.payload = offered'
            /\ tx.sequence = Number(Len(fwd))' /\ tx.offset = Place(Len(fwd))'
        BY <1>1, <3>1, <3>3 DEF GoesOn, TxRemaining
      <4> QED
        BY <1>1, <3>4, <4>1, <4>2, <4>3 DEF GoesOn
    <3>6. LastOut => LastOut'
      BY <1>1, <2>4, <3>1, <3>3, <3>4 DEF LastOut, TxRemaining
    <3>7. Sending'
      BY <1>2, <2>2, <3>1, <3>2, <3>5, <3>6 DEF Sending
    <3>8. RxTimely'
      <4> SUFFICES ASSUME fwd' = <<>> PROVE RxTimely'
        BY DEF RxTimely
      <4>1. tx.active
        BY <1>2, <2>4, <3>4 DEF GoesOn
      <4>2. ~tx.waiting => 0 <= TxAge
        BY <1>1, <4>1, PaceIs DEF Smooth, TxTimely
      <4> QED
        BY <1>1, <1>9, <4>2, PaceIs DEF RxTimely
    <3> QED
      BY <1>1, <1>2, <1>10, <3>7, <3>8 DEF Smooth, Phase
  <2> QED
    BY <2>5, <2>6
<1> QED
  BY <1>13, <1>14

-----------------------------------------------------------------------------
(* Every step *)

\* The system starts at rest.
LEMMA SmoothInit == Init => Smooth
<1> SUFFICES ASSUME Init PROVE Smooth
  OBVIOUS
<1>1. AtRest
  BY DEF Init, TxIdle, RxIdle, AtRest
<1>2. ~tx.active /\ ~rx.active
  BY DEF Init, TxIdle, RxIdle
<1> QED
  BY <1>1, <1>2 DEF Smooth, Phase, TxTimely, RxTimely, Init

\* What is faultless has been so.
LEMMA FaultlessBefore ==
  ASSUME Typing, Next, Faultless'
  PROVE  Faultless
<1>1. faults \in Nat /\ starts \in Nat
  BY DEF Typing
<1>2. faults' = faults \/ faults' = faults + 1
  BY DEF Next, Start, TxPass, TxFeed, TxSend, TxNext, TxTick, RxPass, RxSingle, RxData, RxReject,
         RxTick, PeerFlowControl, PeerFrame, Tick, Fault, Send, Answer, boundVars
<1>3. starts' = starts \/ starts' = starts + 1
  BY DEF Next, Start, TxPass, TxFeed, TxSend, TxNext, TxTick, RxPass, RxSingle, RxData, RxReject,
         RxTick, PeerFlowControl, PeerFrame, Tick, boundVars
<1> QED
  BY <1>1, <1>2, <1>3 DEF Faultless

\* Every step keeps a transfer smooth.
LEMMA SmoothNextStep ==
  ASSUME Typing, Timely, Faultless => Smooth, [Next]_vars
  PROVE  (Faultless => Smooth)'
<1> SUFFICES ASSUME Faultless' PROVE Smooth'
  OBVIOUS
<1>1. CASE Next
  <2>1. Faultless /\ Smooth
    BY <1>1, FaultlessBefore
  <2>2. ~Fault
    BY <2>1, NothingLost
  <2>3. ASSUME NEW p \in Payloads, Start(p)
        PROVE  Smooth'
    BY <2>1, <2>3, SmoothStart
  <2>4. CASE TxFeed
    BY <2>1, <2>4, SmoothFeed
  <2>5. CASE TxSend
    BY <2>1, <2>5, SmoothSend
  <2>6. CASE TxNext
    BY <2>1, <2>6, SmoothNext
  <2>7. CASE TxTick
    BY <2>1, <2>7, SmoothTxTick
  <2>8. CASE RxSingle
    BY <2>1, <2>8, SmoothSingle
  <2>9. CASE RxData
    BY <2>1, <2>9, SmoothFirst, SmoothConsecutive DEF RxData
  <2>10. CASE RxReject
    BY <2>1, <2>10, SmoothReject
  <2>11. CASE RxTick
    BY <2>1, <2>11, SmoothRxTick
  <2>12. CASE Tick
    BY <2>1, <2>12, SmoothTick
  <2> QED
    BY <1>1, <2>2, <2>3, <2>4, <2>5, <2>6, <2>7, <2>8, <2>9, <2>10, <2>11, <2>12
       DEF Next, TxPass, RxPass, PeerFlowControl, PeerFrame
<1>2. CASE UNCHANGED vars
  <2>1. /\ UNCHANGED <<tx, rx, now, fwd, bwd, txStage, rxDone, starts, faults, offered, failed>>
    BY <1>2 DEF vars, lineVars, stageVars, boundVars, messageVars
  <2>2. Faultless
    BY <2>1 DEF Faultless
  <2>3. Phase'
    <3>1. Room' = Room
      BY <2>1 DEF Room
    <3> QED
      BY <2>1, <2>2, <3>1, PhaseKept DEF Smooth
  <2>4. TxAge' = TxAge /\ RxAge' = RxAge /\ (Just' <=> Just)
    BY <2>1 DEF TxAge, RxAge, Just
  <2>5. TxTimely' /\ RxTimely'
    BY <2>1, <2>2, <2>4 DEF Smooth, TxTimely, RxTimely
  <2> QED
    BY <2>1, <2>2, <2>3, <2>5 DEF Smooth
<1> QED
  BY <1>1, <1>2

\* Without a fault no end reports an error, and a transfer the transmitter has
\* done with is delivered once the line is empty, with any block size, as long
\* as the separation time is shorter than both timeouts.
THEOREM TransfersSucceed ==
  ASSUME Timely
  PROVE  Spec => []FaultlessTransferSucceeds
<1>1. Init => Typing /\ (Faultless => Smooth)
  BY TypingInit, SmoothInit
<1>2. Typing /\ (Faultless => Smooth) /\ [Next]_vars => (Typing /\ (Faultless => Smooth))'
  BY TypingNext, SmoothNextStep
<1>3. Typing /\ (Faultless => Smooth) => FaultlessTransferSucceeds
  <2> SUFFICES ASSUME Typing, Faultless => Smooth, faults = 0, starts = 1
               PROVE  ~failed /\ (~tx.active /\ fwd = <<>> => offered = <<>>)
    BY DEF FaultlessTransferSucceeds
  <2>1. Smooth
    BY DEF Faultless
  <2>2. ~tx.active /\ fwd = <<>> => AtRest
    BY <2>1 DEF Smooth, Phase, SingleOut, FirstOut, Asked, Sending, GoesOn, LastOut
  <2> QED
    BY <2>1, <2>2 DEF Smooth, AtRest
<1> QED
  BY <1>1, <1>2, <1>3, PTL DEF Spec

=============================================================================
