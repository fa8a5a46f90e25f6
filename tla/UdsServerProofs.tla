-------------------------- MODULE UdsServerProofs --------------------------
(***************************************************************************)
(* What UdsServer guarantees for every tick range, timeout, lockout,       *)
(* memory map and set of builds: the safety properties that its run checks *)
(* on one instance.                                                        *)
(*                                                                         *)
(* They follow from one invariant.  SessionClock and LockClock say what    *)
(* the two deadlines are in terms of the time that has really passed, so   *)
(* that comparing them over the wrap of the tick cannot go wrong.  DlInv   *)
(* says which part of the flash the download has to itself and that what   *)
(* it was given is in it.  Tied says what the server and the tester may    *)
(* conclude from the download's state.                                     *)
(***************************************************************************)
EXTENDS UdsServer, Integers, TLAPS

\* While there is a session, its deadline is as far away as the quiet leaves it.
SessionClock ==
  srv.session # "default" \/ srv.level > 0 \/ srv.active =>
    quiet < S3Ms /\ Since(now, srv.last) = quiet

\* So is the deadline of a lockout that is not over.
LockClock == sinceLock < LockoutMs => sec.until = After(now, LockoutMs - sinceLock)

\* The image lies in the memory and touches nothing protected, and the blocks
\* received so far are in the flash.
Download ==
  dl.state \in {"ERASING", "RECEIVING", "COMPLETE"} =>
    /\ dl.address + dl.length < MemMod
    /\ \A r \in Protected : ~Overlaps(dl.address, dl.length, r)
    /\ Len(dl.stream) = dl.received /\ dl.received <= dl.length
    /\ FlashHolds(dl.stream)

\* Nothing is received before the erase is over, and a mark stands for a
\* complete image.
DlShape ==
  /\ dl.state = "ERASING" => dl.block = 1 /\ dl.stream = <<>>
  /\ dl.pending => dl.state = "COMPLETE" /\ dl.received = dl.length

DlInv == dl \in Downloads /\ flash \in Flashes /\ Download /\ DlShape

\* The two block counters are equal, and the CRC given with an image that is
\* marked is that image's.
Tied ==
  /\ srv.active /\ dl.state \in {"ERASING", "RECEIVING"} => srv.next = dl.block
  /\ dl.pending /\ claimed # NoCrc => claimed = dl.stream

ServerInv == TypeOK /\ SessionClock /\ LockClock /\ DlInv /\ Tied

-----------------------------------------------------------------------------
(* The clock *)

\* Below twice the range the remainder is a subtraction.
LEMMA Wrap ==
  ASSUME NEW x \in Nat, x < 2 * TickMod
  PROVE  x % TickMod = IF x < TickMod THEN x ELSE x - TickMod
<1> USE TickModAssumption
<1>1. CASE x < TickMod
  BY <1>1
<1>2. CASE ~(x < TickMod)
  <2>1. x - TickMod \in Nat /\ x - TickMod < TickMod
    BY <1>2
  <2>2. (x - TickMod) % TickMod = x - TickMod
    BY <2>1
  <2>3. x % TickMod = (x - TickMod) % TickMod
    BY <1>2, <2>1
  <2> QED
    BY <1>2, <2>2, <2>3
<1> QED
  BY <1>1, <1>2

\* Half the range is a whole number.
LEMMA Half ==
  TickMod \div 2 \in Nat \ {0} /\ TickMod = 2 * (TickMod \div 2)
BY TickModAssumption

\* What After is, without the remainder.
LEMMA AfterIs ==
  ASSUME NEW t \in Ticks, NEW d \in 0 .. TickMod
  PROVE  /\ After(t, d) = IF t + d < TickMod THEN t + d ELSE t + d - TickMod
         /\ After(t, d) \in Ticks
<1>1. t + d \in Nat /\ t + d < 2 * TickMod
  BY TickModAssumption DEF Ticks
<1>2. After(t, d) = IF t + d < TickMod THEN t + d ELSE t + d - TickMod
  BY <1>1, Wrap, TickModAssumption DEF After, Ticks
<1>3. t \in 0 .. TickMod - 1 /\ TickMod \in Nat
  BY TickModAssumption DEF Ticks
<1>4. (IF t + d < TickMod THEN t + d ELSE t + d - TickMod) \in 0 .. TickMod - 1
  BY <1>3
<1> QED
  BY <1>2, <1>4 DEF Ticks

\* What Since is, without the remainder.
LEMMA SinceIs ==
  ASSUME NEW t \in Ticks, NEW e \in Ticks
  PROVE  /\ Since(t, e) = IF t >= e THEN t - e ELSE t + TickMod - e
         /\ Since(t, e) \in Ticks
<1>1. t + TickMod - e \in Nat /\ t + TickMod - e < 2 * TickMod
  BY TickModAssumption DEF Ticks
<1>2. Since(t, e) = IF t >= e THEN t - e ELSE t + TickMod - e
  BY <1>1, Wrap, TickModAssumption DEF Since, Ticks
<1>3. t \in 0 .. TickMod - 1 /\ e \in 0 .. TickMod - 1 /\ TickMod \in Nat
  BY TickModAssumption DEF Ticks
<1>4. (IF t >= e THEN t - e ELSE t + TickMod - e) \in 0 .. TickMod - 1
  BY <1>3
<1> QED
  BY <1>2, <1>4 DEF Ticks

\* Time that passes adds to the time since, while that fits into the range.
LEMMA TimePasses ==
  ASSUME NEW t \in Ticks, NEW e \in Ticks, NEW ms \in Nat,
         Since(t, e) + ms < TickMod
  PROVE  Since(After(t, ms), e) = Since(t, e) + ms
<1>0. Since(t, e) \in 0 .. TickMod - 1
  BY SinceIs DEF Ticks
<1>1. ms \in 0 .. TickMod
  BY <1>0, TickModAssumption
<1>2. After(t, ms) \in Ticks
  BY <1>1, AfterIs
<1>3. /\ Since(t, e) = IF t >= e THEN t - e ELSE t + TickMod - e
      /\ After(t, ms) = IF t + ms < TickMod THEN t + ms ELSE t + ms - TickMod
      /\ Since(After(t, ms), e) = IF After(t, ms) >= e THEN After(t, ms) - e
                                  ELSE After(t, ms) + TickMod - e
  BY <1>1, <1>2, AfterIs, SinceIs
<1> QED
  BY <1>3, TickModAssumption DEF Ticks

\* A deadline d after e has expired at t just when d has passed since, if
\* neither d nor what has passed beyond it is more than half the range.
LEMMA DeadlineIsRight ==
  ASSUME NEW t \in Ticks, NEW e \in Ticks, NEW d \in 0 .. TickMod \div 2,
         Since(t, e) < d + TickMod \div 2
  PROVE  Expired(t, After(e, d)) <=> Since(t, e) >= d
<1> DEFINE half == TickMod \div 2
<1>1. half \in Nat \ {0} /\ TickMod = 2 * half
  BY Half
<1>2. d \in 0 .. TickMod /\ After(e, d) \in Ticks
  BY <1>1, AfterIs
<1>3. /\ Since(t, e) = IF t >= e THEN t - e ELSE t + TickMod - e
      /\ After(e, d) = IF e + d < TickMod THEN e + d ELSE e + d - TickMod
      /\ Since(t, After(e, d)) = IF t >= After(e, d) THEN t - After(e, d)
                                 ELSE t + TickMod - After(e, d)
  BY <1>2, AfterIs, SinceIs
<1>4. Since(t, e) < d + half /\ (Expired(t, After(e, d)) <=> Since(t, After(e, d)) < half)
  BY DEF Expired
<1> HIDE DEF half
<1> QED
  BY <1>1, <1>2, <1>3, <1>4 DEF Ticks

\* A deadline ahead of the tick, by half the range at most, has not expired.
LEMMA AheadIsNotExpired ==
  ASSUME NEW t \in Ticks, NEW d \in 1 .. TickMod \div 2
  PROVE  ~Expired(t, After(t, d))
<1>1. Since(t, t) = 0
  BY SinceIs DEF Ticks
<1>2. d \in 0 .. TickMod \div 2 /\ 0 < d + TickMod \div 2 /\ ~(0 >= d)
  BY Half
<1> QED
  BY <1>1, <1>2, DeadlineIsRight

\* What is left of a time that began before is a time that begins now.
LEMMA TimeIsLeft ==
  ASSUME NEW t \in Ticks, NEW d \in 0 .. TickMod, NEW ms \in 0 .. d
  PROVE  After(After(t, ms), d - ms) = After(t, d)
<1>1. ms \in 0 .. TickMod /\ d - ms \in 0 .. TickMod
  BY TickModAssumption
<1>2. /\ After(t, ms) = IF t + ms < TickMod THEN t + ms ELSE t + ms - TickMod
      /\ After(t, ms) \in Ticks
      /\ After(t, d) = IF t + d < TickMod THEN t + d ELSE t + d - TickMod
  BY <1>1, AfterIs
<1>3. After(After(t, ms), d - ms) =
        IF After(t, ms) + (d - ms) < TickMod THEN After(t, ms) + (d - ms)
        ELSE After(t, ms) + (d - ms) - TickMod
  BY <1>1, <1>2, AfterIs
<1> QED
  BY <1>1, <1>2, <1>3, TickModAssumption DEF Ticks

-----------------------------------------------------------------------------
(* The download *)

\* What a step of the download leaves of the protected regions.
Untouched == \A r \in Protected : \A a \in r[1] .. r[2] - 1 : flash'[a] = flash[a]

\* A download that is not begun has nothing to answer for.
LEMMA DlStarts ==
  /\ DlInit \in Downloads /\ DlInit.state = "IDLE" /\ ~DlInit.pending
<1>1. 0 \in Ticks /\ 1 \in 0 .. BlockMod - 1 /\ <<>> \in Seq(Units)
  BY TickModAssumption, DownloadAssumption DEF Ticks
<1> QED
  BY <1>1 DEF DlInit, Downloads, DlStates

\* uds_download_abort leaves a download that claims nothing.
LEMMA DlAborts ==
  ASSUME DlInv, DlAbort, flash' = flash
  PROVE  DlInv' /\ dl'.state = "ABORTED" /\ ~dl'.pending /\ Untouched
<1>1. dl' \in Downloads /\ dl'.state = "ABORTED" /\ ~dl'.pending
  BY DEF DlInv, DlAbort, Downloads, DlStates
<1> QED
  BY <1>1 DEF DlInv, Download, DlShape, Untouched

\* uds_download_begin, accepted: a fresh download of a range that touches nothing
\* protected.
LEMMA DlBegins ==
  ASSUME DlInv, NEW address \in Addresses, NEW length \in Nat, NEW t \in Ticks,
         DlBegin(address, length, t)
  PROVE  /\ DlInv' /\ dl'.state = "ERASING" /\ dl'.block = 1 /\ ~dl'.pending
         /\ Untouched
<1>1. After(t, DlTimeoutMs) \in Ticks
  BY AfterIs, DownloadAssumption, Half DEF Ticks
<1>2. /\ dl' \in Downloads
      /\ dl'.state = "ERASING" /\ dl'.block = 1 /\ dl'.stream = <<>> /\ ~dl'.pending
      /\ dl'.address = address /\ dl'.length = length /\ dl'.received = 0
  <2>1. /\ address \in Nat /\ 0 \in Nat /\ 1 \in 0 .. BlockMod - 1
        /\ <<>> \in Seq(Units) /\ "ERASING" \in DlStates
    BY DownloadAssumption DEF Addresses, DlStates
  <2>2. dl' = [state |-> "ERASING", address |-> address, length |-> length,
               received |-> 0, block |-> 1, deadline |-> After(t, DlTimeoutMs),
               stream |-> <<>>, pending |-> FALSE]
    BY DEF DlBegin, DlInit
  <2>3. dl' \in Downloads
    BY <1>1, <2>1, <2>2 DEF Downloads
  <2> QED
    BY <2>2, <2>3
<1>3. flash' \in Flashes
  BY DEF DlBegin, DlInv, Flashes
<1>4. address + length < MemMod /\ \A r \in Protected : ~Overlaps(address, length, r)
  BY DEF DlBegin, BeginAccepts
<1>5. Untouched
  <2> SUFFICES ASSUME NEW r \in Protected, NEW a \in r[1] .. r[2] - 1
               PROVE  flash'[a] = flash[a]
    BY DEF Untouched
  <2>1. /\ r[1] \in 0 .. MemMod - 1 /\ r[2] \in 0 .. MemMod - 1 /\ MemMod \in Nat
        /\ address \in Nat
    BY DownloadAssumption DEF Addresses
  <2>2. a \in Addresses
    BY <2>1 DEF Addresses
  <2>3. a \notin ImageRange(address, length)
    BY <1>4, <2>1 DEF Overlaps, ImageRange
  <2> QED
    BY <2>2, <2>3 DEF DlBegin
<1>6. Download'
  <2>1. Len(dl'.stream) = 0
    BY <1>2
  <2> QED
    BY <1>2, <1>4, <2>1 DEF Download, FlashHolds
<1> QED
  BY <1>2, <1>3, <1>5, <1>6 DEF DlInv, DlShape

\* Programming goes behind what has been received, and stays in the image.
LEMMA Programming ==
  ASSUME DlInv, dl.state = "RECEIVING", NEW data \in Seq(Units),
         Len(data) <= dl.length - dl.received, flash' = Programmed(data)
  PROVE  /\ flash' \in Flashes /\ Untouched
         /\ \A i \in 1 .. dl.received :
              flash'[dl.address + i - 1] = flash[dl.address + i - 1]
         /\ \A i \in 1 .. Len(data) :
              flash'[dl.address + dl.received + i - 1] = data[i]
<1> DEFINE start == dl.address + dl.received
<1>1. /\ dl.address \in Nat /\ dl.length \in Nat /\ dl.received \in Nat
      /\ Len(data) \in Nat /\ start \in Nat
      /\ start + Len(data) <= dl.address + dl.length
      /\ dl.address + dl.length < MemMod /\ MemMod \in Nat
      /\ \A r \in Protected : ~Overlaps(dl.address, dl.length, r)
  BY DownloadAssumption DEF DlInv, Downloads, Download
<1>2. flash' = [a \in Addresses |->
                  IF a \in start .. start + Len(data) - 1
                  THEN data[a - start + 1] ELSE flash[a]]
  BY DEF Programmed, ImageRange
<1> HIDE DEF start
<1>3. flash' \in Flashes
  <2>1. \A a \in start .. start + Len(data) - 1 : data[a - start + 1] \in Units
    <3> SUFFICES ASSUME NEW a \in start .. start + Len(data) - 1
                 PROVE  data[a - start + 1] \in Units
      OBVIOUS
    <3>1. a - start + 1 \in 1 .. Len(data)
      BY <1>1
    <3> QED
      BY <3>1
  <2>2. flash \in Flashes
    BY DEF DlInv
  <2> QED
    BY <1>2, <2>1, <2>2 DEF Flashes
<1>4. Untouched
  <2> SUFFICES ASSUME NEW r \in Protected, NEW a \in r[1] .. r[2] - 1
               PROVE  flash'[a] = flash[a]
    BY DEF Untouched
  <2>1. /\ r[1] \in 0 .. MemMod - 1 /\ r[2] \in 0 .. MemMod - 1
        /\ ~(dl.address < r[2] /\ r[1] < dl.address + dl.length)
    BY <1>1, DownloadAssumption DEF Overlaps
  <2>2. dl.address <= start /\ a \in Int /\ r[1] <= a /\ a < r[2]
    BY <1>1, <2>1 DEF start
  <2>3. a \in 0 .. MemMod - 1
    BY <1>1, <2>1, <2>2
  <2>4. ~(start <= a /\ a <= start + Len(data) - 1)
    BY <1>1, <2>1, <2>2
  <2>5. a \in Addresses /\ a \notin start .. start + Len(data) - 1
    BY <2>3, <2>4 DEF Addresses
  <2> QED
    BY <1>2, <2>5
<1>5. ASSUME NEW i \in 1 .. dl.received
      PROVE  flash'[dl.address + i - 1] = flash[dl.address + i - 1]
  <2>1. dl.received <= dl.length
    BY DEF DlInv, Download
  <2>2. /\ dl.address + i - 1 \in Int /\ dl.address + i - 1 >= 0
        /\ dl.address + i - 1 < start /\ start <= dl.address + dl.length
    BY <1>1, <2>1 DEF start
  <2>3. dl.address + i - 1 \in 0 .. MemMod - 1
    BY <1>1, <2>2
  <2>4. dl.address + i - 1 \notin start .. start + Len(data) - 1
    BY <1>1, <2>2
  <2> QED
    BY <1>2, <2>3, <2>4 DEF Addresses
<1>6. ASSUME NEW i \in 1 .. Len(data)
      PROVE  flash'[start + i - 1] = data[i]
  <2> DEFINE a == start + i - 1
  <2>1. a \in 0 .. MemMod - 1 /\ a \in start .. start + Len(data) - 1
    BY <1>1
  <2>2. a - start + 1 = i
    BY <1>1
  <2> HIDE DEF a
  <2>3. flash'[a] = data[a - start + 1]
    BY <1>2, <2>1 DEF Addresses
  <2> QED
    BY <2>2, <2>3 DEF a
<1> QED
  BY <1>3, <1>4, <1>5, <1>6 DEF start

\* A program callback that fails has written behind what was received, if at all.
LEMMA DlWriteFailing ==
  ASSUME DlInv, NEW block, NEW data \in Seq(Units), NEW t \in Ticks,
         DlWriteFails(block, data, t)
  PROVE  DlInv' /\ dl' = dl /\ Untouched
<1>1. PICK n \in 0 .. Len(data) : flash' = Programmed(SubSeq(data, 1, n))
  BY DEF DlWriteFails
<1>2. dl' = dl /\ dl.state = "RECEIVING" /\ Len(data) <= dl.length - dl.received
  BY DEF DlWriteFails, DlMayWrite, WriteFits
<1>3. SubSeq(data, 1, n) \in Seq(Units) /\ Len(SubSeq(data, 1, n)) = n
  OBVIOUS
<1>4. dl.length \in Nat /\ dl.received \in Nat
  BY DEF DlInv, Downloads
<1>5. n <= dl.length - dl.received
  BY <1>2, <1>4
<1>6. /\ flash' \in Flashes /\ Untouched
      /\ \A i \in 1 .. dl.received :
           flash'[dl.address + i - 1] = flash[dl.address + i - 1]
  BY <1>1, <1>2, <1>3, <1>5, Programming
<1>7. Download'
  BY <1>2, <1>6 DEF DlInv, Download, FlashHolds
<1> QED
  BY <1>2, <1>6, <1>7 DEF DlInv, DlShape

\* uds_download_write: the block is in the flash behind those before it.
LEMMA DlWriting ==
  ASSUME DlInv, NEW block, NEW data \in Seq(Units), NEW t \in Ticks,
         DlWrite(block, data, t)
  PROVE  /\ DlInv' /\ Untouched
         /\ dl.state = "RECEIVING" /\ dl'.state = "RECEIVING"
         /\ dl'.block = (dl.block + 1) % BlockMod /\ dl'.pending = dl.pending
<1>1. /\ dl.state = "RECEIVING" /\ Len(data) <= dl.length - dl.received
      /\ flash' = Programmed(data)
  BY DEF DlWrite, DlMayWrite, WriteFits
<1>2. /\ dl.length \in Nat /\ dl.received \in Nat /\ dl.address \in Nat
      /\ dl.stream \in Seq(Units) /\ dl.block \in 0 .. BlockMod - 1
      /\ Len(dl.stream) = dl.received /\ Len(data) \in Nat
  BY <1>1 DEF DlInv, Downloads, Download
<1>3. After(t, DlTimeoutMs) \in Ticks /\ (dl.block + 1) % BlockMod \in 0 .. BlockMod - 1
  <2>1. After(t, DlTimeoutMs) \in Ticks
    BY AfterIs, DownloadAssumption, Half DEF Ticks
  <2>2. (dl.block + 1) % BlockMod \in 0 .. BlockMod - 1
    BY <1>2, DownloadAssumption
  <2> QED
    BY <2>1, <2>2
<1>4. dl.stream \o data \in Seq(Units) /\ dl.received + Len(data) \in Nat
  BY <1>2
<1>5. /\ dl' \in Downloads /\ dl'.state = "RECEIVING"
      /\ dl'.address = dl.address /\ dl'.length = dl.length
      /\ dl'.received = dl.received + Len(data) /\ dl'.stream = dl.stream \o data
      /\ dl'.block = (dl.block + 1) % BlockMod /\ dl'.pending = dl.pending
  BY <1>1, <1>3, <1>4 DEF DlWrite, DlInv, Downloads
<1>6. /\ flash' \in Flashes /\ Untouched
      /\ \A i \in 1 .. dl.received :
           flash'[dl.address + i - 1] = flash[dl.address + i - 1]
      /\ \A i \in 1 .. Len(data) :
           flash'[dl.address + dl.received + i - 1] = data[i]
  BY <1>1, Programming
<1>7. FlashHolds(dl.stream)
  BY <1>1 DEF DlInv, Download
<1>8. \A i \in 1 .. Len(dl.stream \o data) :
        flash'[dl.address + i - 1] = (dl.stream \o data)[i]
  <2> SUFFICES ASSUME NEW i \in 1 .. Len(dl.stream \o data)
               PROVE  flash'[dl.address + i - 1] = (dl.stream \o data)[i]
    OBVIOUS
  <2>1. CASE i <= dl.received
    <3>1. i \in 1 .. dl.received /\ (dl.stream \o data)[i] = dl.stream[i]
      BY <1>2, <2>1
    <3> QED
      BY <1>2, <1>6, <1>7, <3>1 DEF FlashHolds
  <2>2. CASE ~(i <= dl.received)
    <3> DEFINE j == i - dl.received
    <3>1. j \in 1 .. Len(data) /\ (dl.stream \o data)[i] = data[j]
      BY <1>2, <2>2
    <3>2. dl.address + dl.received + j - 1 = dl.address + i - 1
      BY <1>2
    <3> HIDE DEF j
    <3> QED
      BY <1>6, <3>1, <3>2
  <2> QED
    BY <2>1, <2>2
<1>9. Download'
  <2>1. Len(dl'.stream) = dl'.received /\ dl'.received <= dl'.length
    BY <1>1, <1>2, <1>5
  <2>2. FlashHolds(dl.stream)'
    BY <1>5, <1>8 DEF FlashHolds
  <2>3. /\ dl'.address + dl'.length < MemMod
        /\ \A r \in Protected : ~Overlaps(dl'.address, dl'.length, r)
    BY <1>1, <1>5 DEF DlInv, Download
  <2> QED
    BY <2>1, <2>2, <2>3 DEF Download
<1>10. DlShape'
  BY <1>1, <1>5 DEF DlInv, DlShape
<1> QED
  BY <1>1, <1>5, <1>6, <1>9, <1>10 DEF DlInv

\* uds_download_poll_erase, done: the download begins to receive.
LEMMA DlErased ==
  ASSUME DlInv, NEW t \in Ticks, DlPollErased(t)
  PROVE  /\ DlInv' /\ Untouched /\ dl.state = "ERASING"
         /\ dl'.block = dl.block /\ ~dl'.pending
<1>1. After(t, DlTimeoutMs) \in Ticks
  BY AfterIs, DownloadAssumption, Half DEF Ticks
<1>2. /\ dl' \in Downloads /\ dl.state = "ERASING" /\ dl'.state = "RECEIVING"
      /\ dl'.address = dl.address /\ dl'.length = dl.length
      /\ dl'.received = dl.received /\ dl'.stream = dl.stream
      /\ dl'.block = dl.block /\ dl'.pending = dl.pending
      /\ flash' = flash
  BY <1>1 DEF DlPollErased, DlInv, Downloads, DlStates
<1> QED
  BY <1>2 DEF DlInv, DlShape, Download, FlashHolds, Untouched

\* uds_download_finish: the image is whole, and the CRC given is its own.
LEMMA DlFinishing ==
  ASSUME DlInv, NEW crc, NEW t \in Ticks, DlFinish(crc, t)
  PROVE  /\ DlInv' /\ Untouched /\ dl'.state = "COMPLETE"
         /\ crc # NoCrc => crc = dl'.stream
<1>1. /\ dl' \in Downloads /\ dl.state = "RECEIVING" /\ dl'.state = "COMPLETE"
      /\ dl.received = dl.length
      /\ dl'.address = dl.address /\ dl'.length = dl.length
      /\ dl'.received = dl.received /\ dl'.stream = dl.stream
      /\ flash' = flash
      /\ crc # NoCrc => crc = dl.stream
  BY DEF DlFinish, DlMayFinish, DlInv, Downloads, DlStates
<1> QED
  BY <1>1 DEF DlInv, DlShape, Download, FlashHolds, Untouched

\* A step that is not about the download leaves its part of the invariant.
LEMMA DlStays ==
  ASSUME DlInv, UNCHANGED <<dl, flash>>
  PROVE  DlInv' /\ Untouched
BY DEF DlInv, DlShape, Download, FlashHolds, Untouched

-----------------------------------------------------------------------------
(* The requests *)

\* What a request that was heard makes of the server, and of its deadline.
LEMMA HeardIs ==
  ASSUME TypeOK, NEW s \in Servers, Heard(s), now' = now
  PROVE  /\ srv' \in Servers /\ srv'.active = s.active /\ srv'.next = s.next
         /\ quiet' \in 0 .. S3Ms /\ SessionClock'
<1>1. now \in Ticks /\ quiet' = 0 /\ 0 < S3Ms /\ S3Ms \in Nat
  BY ServerAssumption DEF TypeOK, Heard
<1>2. srv' = [s EXCEPT !.last = now]
  BY DEF Heard
<1>3. srv' \in Servers /\ srv'.active = s.active /\ srv'.next = s.next /\ srv'.last = now
  BY <1>1, <1>2 DEF Servers
<1>4. Since(now, now) = 0
  BY <1>1, SinceIs DEF Ticks
<1> QED
  BY <1>1, <1>3, <1>4 DEF SessionClock

\* A request preserves the invariant if it keeps the parts that it is about.
LEMMA Answered ==
  ASSUME ServerInv, NEW s \in Servers, Heard(s), UNCHANGED <<now, services>>,
         sec' \in Securities, sinceLock' \in 0 .. LockoutMs, LockClock',
         DlInv', claimed' \in Seq(Units), Tied'
  PROVE  ServerInv'
<1>1. TypeOK /\ now' = now /\ services' = services
  BY DEF ServerInv
<1>2. srv' \in Servers /\ quiet' \in 0 .. S3Ms /\ SessionClock'
  BY <1>1, HeardIs
<1>3. now' \in Ticks /\ services' \in Builds
  BY <1>1 DEF TypeOK
<1>4. dl' \in Downloads /\ flash' \in Flashes
  BY DEF DlInv
<1> QED
  BY <1>2, <1>3, <1>4 DEF ServerInv, TypeOK

\* A request that is not about the download.
LEMMA PlainRequest ==
  ASSUME ServerInv, NEW s \in Servers, Heard(s),
         s.active = srv.active, s.next = srv.next,
         UNCHANGED <<now, services, dl, flash, claimed>>,
         sec' \in Securities, sinceLock' \in 0 .. LockoutMs, LockClock'
  PROVE  ServerInv' /\ Untouched
<1>1. TypeOK /\ DlInv /\ Tied /\ now' = now
  BY DEF ServerInv
<1>2. DlInv' /\ Untouched
  BY <1>1, DlStays
<1>3. srv'.active = srv.active /\ srv'.next = srv.next
  BY <1>1, HeardIs
<1>4. Tied'
  BY <1>1, <1>3 DEF Tied, NoCrc
<1>5. claimed' \in Seq(Units)
  BY <1>1 DEF TypeOK
<1> QED
  BY <1>2, <1>4, <1>5, Answered

\* A request that leaves the provider alone leaves its deadline alone.
LEMMA ProviderStays ==
  ASSUME ServerInv, UNCHANGED <<now, sec, sinceLock>>
  PROVE  sec' \in Securities /\ sinceLock' \in 0 .. LockoutMs /\ LockClock'
BY DEF ServerInv, TypeOK, LockClock

\* While the lockout is not over, the provider takes itself to be locked.
LEMMA LockedStays ==
  ASSUME TypeOK, LockClock, sinceLock < LockoutMs
  PROVE  IsLocked(now)
<1>1. LockoutMs - sinceLock \in 1 .. TickMod \div 2 /\ now \in Ticks
  BY SecurityAssumption, Half DEF TypeOK
<1> QED
  BY <1>1, AheadIsNotExpired DEF LockClock, IsLocked

\* The requests for a seed or with a key.
LEMMA SeedKeeps ==
  ASSUME ServerInv, SecuritySeed
  PROVE  sec' \in Securities /\ sinceLock' \in 0 .. LockoutMs /\ LockClock'
<1>1. TypeOK /\ LockClock /\ UNCHANGED <<now, sinceLock>>
  BY DEF ServerInv, SecuritySeed
<1>2. CASE SecSeedDelayed(now)
  BY <1>1, <1>2, ProviderStays DEF SecSeedDelayed
<1>3. CASE SecSeed(now)
  BY <1>1, <1>3 DEF SecSeed, TypeOK, Securities, LockClock
<1> QED
  BY <1>2, <1>3 DEF SecuritySeed

\* A key that is refused, be it the one too many that locks the provider.
LEMMA RefusalKeeps ==
  ASSUME ServerInv, SecurityKeyRefused
  PROVE  sec' \in Securities /\ sinceLock' \in 0 .. LockoutMs /\ LockClock'
<1>1. /\ TypeOK /\ LockClock /\ now' = now /\ now \in Ticks /\ sec \in Securities
      /\ sinceLock \in 0 .. LockoutMs
  BY DEF ServerInv, SecurityKeyRefused, TypeOK
<1>2. CASE (SecKeyRefused(now) \/ SecKeyOutOfSequence(now)) /\ UNCHANGED sinceLock
  BY <1>1, <1>2, ProviderStays DEF SecKeyRefused, SecKeyOutOfSequence
<1>3. CASE SecKeyWrong(now) /\ UNCHANGED sinceLock
  <2>1. Attempts \in 0 .. MaxAttempts - 1
    BY <1>1, <1>3, SecurityAssumption DEF SecKeyWrong, Attempts, Securities
  <2> QED
    BY <1>1, <1>3, <2>1 DEF SecKeyWrong, Securities, LockClock
<1>4. CASE SecKeyLocks(now) /\ sinceLock' = 0
  <2>1. After(now, LockoutMs) \in Ticks
    BY <1>1, AfterIs, SecurityAssumption, Half DEF Ticks
  <2>2. 0 \in 0 .. MaxAttempts - 1 /\ 0 \in 0 .. LockoutMs /\ LockoutMs - 0 = LockoutMs
    BY SecurityAssumption
  <2>3. sec' \in Securities /\ sec'.until = After(now, LockoutMs)
    BY <1>4, <2>1, <2>2 DEF SecKeyLocks, Securities
  <2> QED
    BY <1>1, <1>4, <2>2, <2>3 DEF LockClock
<1> QED
  BY <1>2, <1>3, <1>4 DEF SecurityKeyRefused

\* The right key forgets the wrong ones.
LEMMA RightKeyKeeps ==
  ASSUME ServerInv, NEW l, SecurityKey(l)
  PROVE  sec' \in Securities /\ sinceLock' \in 0 .. LockoutMs /\ LockClock'
<1>1. /\ LockClock /\ now' = now /\ sec \in Securities /\ sinceLock' = sinceLock
      /\ sinceLock \in 0 .. LockoutMs
  BY DEF ServerInv, SecurityKey, TypeOK
<1>2. 0 \in 0 .. MaxAttempts - 1
  BY SecurityAssumption
<1>3. sec' \in Securities /\ sec'.until = sec.until
  BY <1>1, <1>2 DEF SecurityKey, SecKeyRight, Securities
<1> QED
  BY <1>1, <1>3 DEF LockClock

\* RequestDownload: refused, or both counters begin at 1.
LEMMA RequestDownloadKeeps ==
  ASSUME ServerInv, NEW i \in Images, RequestDownload(i[1], i[2])
  PROVE  ServerInv' /\ Untouched
<1>1. /\ TypeOK /\ DlInv /\ Tied /\ srv \in Servers /\ now \in Ticks
      /\ UNCHANGED <<now, services, sec, sinceLock>>
      /\ i[1] \in Addresses /\ i[2] \in Nat
  BY ServerAssumption DEF ServerInv, TypeOK, RequestDownload
<1>2. sec' \in Securities /\ sinceLock' \in 0 .. LockoutMs /\ LockClock'
  BY <1>1, ProviderStays
<1>3. CASE DlBeginRefused /\ Heard(srv) /\ UNCHANGED claimed
  BY <1>1, <1>2, <1>3, PlainRequest DEF DlBeginRefused
<1>4. CASE /\ DlBegin(i[1], i[2], now) /\ Heard([srv EXCEPT !.active = TRUE, !.next = 1])
           /\ claimed' = NoCrc
  <2> DEFINE s == [srv EXCEPT !.active = TRUE, !.next = 1]
  <2>0. 1 \in 0 .. BlockMod - 1
    BY DownloadAssumption
  <2>1. s \in Servers /\ s.next = 1
    BY <1>1, <2>0 DEF Servers
  <2>2. DlInv' /\ Untouched /\ dl'.state = "ERASING" /\ dl'.block = 1 /\ ~dl'.pending
    BY <1>1, <1>4, DlBegins
  <2>3. srv'.next = 1
    BY <1>1, <1>4, <2>1, HeardIs
  <2>4. Tied' /\ claimed' \in Seq(Units)
    BY <1>4, <2>2, <2>3 DEF Tied, NoCrc
  <2> QED
    BY <1>1, <1>2, <1>4, <2>1, <2>2, <2>4, Answered
<1> QED
  BY <1>3, <1>4 DEF RequestDownload

\* What a tester may send as a block or as a CRC is a sequence of units.
LEMMA BlockData == Blocks \subseteq Seq(Units)
<1>1. ASSUME NEW u \in Units PROVE <<u>> \in Seq(Units)
  OBVIOUS
<1>2. ASSUME NEW p \in Units \X Units PROVE p \in Seq(Units)
  <2>1. PICK u \in Units, v \in Units : p = <<u, v>>
    OBVIOUS
  <2> QED
    BY <2>1
<1>3. <<>> \in Seq(Units)
  OBVIOUS
<1> QED
  BY <1>1, <1>2, <1>3 DEF Blocks

\* TransferData: both counters go on, or neither does.
LEMMA TransferDataKeeps ==
  ASSUME ServerInv, NEW data \in Blocks, TransferData(data)
  PROVE  ServerInv' /\ Untouched
<1>1. /\ TypeOK /\ DlInv /\ Tied /\ srv \in Servers /\ now \in Ticks /\ srv.active
      /\ UNCHANGED <<now, services, sec, sinceLock, claimed>>
      /\ claimed \in Seq(Units) /\ data \in Seq(Units)
  BY BlockData DEF ServerInv, TypeOK, TransferData
<1>2. sec' \in Securities /\ sinceLock' \in 0 .. LockoutMs /\ LockClock'
  BY <1>1, ProviderStays
<1>3. CASE (DlWriteNotReady \/ DlWriteRefused(srv.next, data, now)) /\ Heard(srv)
  BY <1>1, <1>2, <1>3, PlainRequest DEF DlWriteNotReady, DlWriteRefused
<1>4. CASE DlWriteTimeout(now) /\ Heard(srv)
  <2>1. DlInv' /\ Untouched /\ dl'.state = "ABORTED" /\ ~dl'.pending
    BY <1>1, <1>4, DlAborts DEF DlWriteTimeout
  <2>2. Tied'
    BY <2>1 DEF Tied
  <2> QED
    BY <1>1, <1>2, <1>4, <2>1, <2>2, Answered
<1>5. CASE DlWriteFails(srv.next, data, now) /\ Heard(srv)
  <2>1. DlInv' /\ Untouched /\ dl' = dl
    BY <1>1, <1>5, DlWriteFailing
  <2>2. srv'.active = srv.active /\ srv'.next = srv.next
    BY <1>1, <1>5, HeardIs
  <2>3. Tied'
    BY <1>1, <2>1, <2>2 DEF Tied, NoCrc
  <2> QED
    BY <1>1, <1>2, <1>5, <2>1, <2>3, Answered
<1>6. CASE /\ DlWrite(srv.next, data, now)
           /\ Heard([srv EXCEPT !.next = (@ + 1) % BlockMod])
  <2> DEFINE s == [srv EXCEPT !.next = (@ + 1) % BlockMod]
  <2>1. (srv.next + 1) % BlockMod \in 0 .. BlockMod - 1
    BY <1>1, DownloadAssumption DEF Servers
  <2>2. s \in Servers /\ s.next = (srv.next + 1) % BlockMod
    BY <1>1, <2>1 DEF Servers
  <2>3. /\ DlInv' /\ Untouched /\ dl.state = "RECEIVING" /\ dl'.state = "RECEIVING"
        /\ dl'.block = (dl.block + 1) % BlockMod /\ dl'.pending = dl.pending
    BY <1>1, <1>6, DlWriting
  <2>4. srv'.next = (srv.next + 1) % BlockMod
    BY <1>1, <1>6, <2>2, HeardIs
  <2>5. srv.next = dl.block /\ ~dl'.pending
    BY <1>1, <2>3 DEF Tied, DlInv, DlShape, Downloads
  <2>6. Tied'
    BY <2>3, <2>4, <2>5 DEF Tied
  <2> QED
    BY <1>1, <1>2, <1>6, <2>2, <2>3, <2>6, Answered
<1> QED
  BY <1>3, <1>4, <1>5, <1>6 DEF TransferData

\* RequestTransferExit: a mark comes only with the CRC that matched.
LEMMA TransferExitKeeps ==
  ASSUME ServerInv, NEW crc \in Crcs, TransferExit(crc)
  PROVE  ServerInv' /\ Untouched
<1>1. /\ TypeOK /\ DlInv /\ Tied /\ srv \in Servers /\ now \in Ticks
      /\ UNCHANGED <<now, services, sec, sinceLock>>
      /\ claimed \in Seq(Units) /\ crc \in Seq(Units)
  BY BlockData DEF ServerInv, TypeOK, TransferExit, Crcs
<1>2. sec' \in Securities /\ sinceLock' \in 0 .. LockoutMs /\ LockClock'
  BY <1>1, ProviderStays
<1>3. CASE DlFinishNotReady /\ Heard(srv) /\ UNCHANGED claimed
  BY <1>1, <1>2, <1>3, PlainRequest DEF DlFinishNotReady
<1>4. CASE DlFinishAborts /\ Heard(srv) /\ UNCHANGED claimed
  <2>1. DlInv' /\ Untouched /\ dl'.state = "ABORTED" /\ ~dl'.pending
    BY <1>1, <1>4, DlAborts DEF DlFinishAborts
  <2>2. Tied'
    BY <2>1 DEF Tied
  <2> QED
    BY <1>1, <1>2, <1>4, <2>1, <2>2, Answered
<1>5. CASE DlFinish(crc, now) /\ Heard([srv EXCEPT !.active = FALSE]) /\ claimed' = crc
  <2>1. [srv EXCEPT !.active = FALSE] \in Servers
    BY <1>1 DEF Servers
  <2>2. /\ DlInv' /\ Untouched /\ dl'.state = "COMPLETE"
        /\ crc # NoCrc => crc = dl'.stream
    BY <1>1, <1>5, DlFinishing
  <2>3. Tied'
    BY <1>5, <2>2 DEF Tied, NoCrc
  <2> QED
    BY <1>1, <1>2, <1>5, <2>1, <2>2, <2>3, Answered
<1> QED
  BY <1>3, <1>4, <1>5 DEF TransferExit

-----------------------------------------------------------------------------
(* The passes *)

\* What a pass makes of the server: the S3 time is over, and nothing of the
\* session is left, or it is not, and all of it is.
LEMMA PassTicks ==
  ASSUME ServerInv, NEW ms \in 1 .. MaxStallMs, now' = After(now, ms),
         srv' = SrvTicked(now'), quiet' = Later(quiet, ms, S3Ms)
  PROVE  /\ now' \in Ticks /\ srv' \in Servers /\ quiet' \in 0 .. S3Ms /\ SessionClock'
         /\ \/ srv' = srv
            \/ /\ srv'.session = "default" /\ ~srv'.active
               /\ srv.session # "default" => quiet' = S3Ms
<1>1. /\ now \in Ticks /\ srv \in Servers /\ quiet \in 0 .. S3Ms /\ srv.last \in Ticks
      /\ S3Ms \in Nat \ {0} /\ MaxStallMs \in Nat /\ S3Ms + MaxStallMs <= TickMod \div 2
      /\ ms \in 0 .. TickMod
  BY ServerAssumption, Half DEF ServerInv, TypeOK, Servers
<1>2. now' \in Ticks /\ quiet' \in 0 .. S3Ms
  BY <1>1, AfterIs DEF Later
<1> DEFINE alive == srv.session # "default" \/ srv.level > 0 \/ srv.active
           expired == Expired(now', After(srv.last, S3Ms))
<1>3. /\ expired => srv' = [srv EXCEPT !.session = "default", !.level = 0,
                                       !.active = FALSE, !.next = 1]
      /\ ~expired => srv' = srv
  BY DEF SrvTicked
<1>4. alive => /\ Since(now', srv.last) = quiet + ms /\ (expired <=> quiet + ms >= S3Ms)
               /\ quiet < S3Ms
  <2> SUFFICES ASSUME alive
               PROVE  /\ Since(now', srv.last) = quiet + ms /\ (expired <=> quiet + ms >= S3Ms)
                      /\ quiet < S3Ms
    OBVIOUS
  <2>1. quiet < S3Ms /\ Since(now, srv.last) = quiet
    BY DEF ServerInv, SessionClock
  <2>2. Since(now, srv.last) + ms < TickMod
    BY <1>1, <2>1, Half
  <2>3. Since(now', srv.last) = quiet + ms
    BY <1>1, <2>1, <2>2, TimePasses
  <2>4. S3Ms \in 0 .. TickMod \div 2 /\ quiet + ms < S3Ms + TickMod \div 2
    BY <1>1, <2>1, Half
  <2>5. expired <=> quiet + ms >= S3Ms
    BY <1>1, <1>2, <2>3, <2>4, DeadlineIsRight
  <2> QED
    BY <2>1, <2>3, <2>5
<1> HIDE DEF expired
<1>5. CASE expired
  <2>1. 1 \in 0 .. BlockMod - 1 /\ 0 \in 0 .. MaxLevel /\ "default" \in Sessions
    BY DownloadAssumption, ServerAssumption DEF Sessions
  <2>2. /\ srv' \in Servers /\ srv'.session = "default" /\ srv'.level = 0 /\ ~srv'.active
    BY <1>1, <1>3, <1>5, <2>1 DEF Servers
  <2>3. srv.session # "default" => quiet' = S3Ms
    BY <1>1, <1>4, <1>5 DEF Later
  <2> QED
    BY <1>2, <2>2, <2>3 DEF SessionClock
<1>6. CASE ~expired
  <2>1. srv' = srv
    BY <1>3, <1>6
  <2>2. alive => quiet' = quiet + ms /\ quiet' < S3Ms
    BY <1>1, <1>4, <1>6 DEF Later
  <2> QED
    BY <1>1, <1>2, <1>4, <2>1, <2>2 DEF SessionClock
<1> QED
  BY <1>5, <1>6

\* A pass brings the end of a lockout nearer.
LEMMA LockTicks ==
  ASSUME ServerInv, NEW ms \in 1 .. MaxStallMs, now' = After(now, ms),
         sec' = sec, sinceLock' = Later(sinceLock, ms, LockoutMs)
  PROVE  sinceLock' \in 0 .. LockoutMs /\ LockClock'
<1>1. /\ now \in Ticks /\ sinceLock \in 0 .. LockoutMs /\ LockClock
      /\ MaxStallMs \in Nat /\ LockoutMs \in Nat /\ LockoutMs < TickMod
  BY ServerAssumption, SecurityAssumption, Half DEF ServerInv, TypeOK
<1>2. sinceLock' \in 0 .. LockoutMs
  BY <1>1 DEF Later
<1>3. ASSUME sinceLock' < LockoutMs
      PROVE  sec.until = After(now', LockoutMs - sinceLock')
  <2>1. sinceLock' = sinceLock + ms /\ sinceLock < LockoutMs
    BY <1>1, <1>3 DEF Later
  <2>2. sec.until = After(now, LockoutMs - sinceLock)
    BY <1>1, <2>1 DEF LockClock
  <2>3. /\ LockoutMs - sinceLock \in 0 .. TickMod /\ ms \in 0 .. LockoutMs - sinceLock
        /\ LockoutMs - sinceLock' = (LockoutMs - sinceLock) - ms
    BY <1>1, <1>3, <2>1, TickModAssumption
  <2> QED
    BY <1>1, <2>2, <2>3, TimeIsLeft
<1> QED
  BY <1>2, <1>3 DEF LockClock

\* A pass of CANopenReference_UDS_Process preserves the invariant.
LEMMA PassKeeps ==
  ASSUME ServerInv, PassStart
  PROVE  ServerInv' /\ Untouched
<1>1. PICK ms \in 1 .. MaxStallMs :
        /\ now' = After(now, ms) /\ srv' = SrvTicked(now') /\ DlTick(now')
        /\ quiet' = Later(quiet, ms, S3Ms) /\ sinceLock' = Later(sinceLock, ms, LockoutMs)
        /\ UNCHANGED <<services, sec, claimed>>
  BY DEF PassStart
<1>2. TypeOK /\ DlInv /\ Tied
  BY DEF ServerInv
<1>3. /\ now' \in Ticks /\ srv' \in Servers /\ quiet' \in 0 .. S3Ms /\ SessionClock'
      /\ srv' = srv \/ ~srv'.active
  BY <1>1, PassTicks
<1>4. sinceLock' \in 0 .. LockoutMs /\ LockClock'
  BY <1>1, LockTicks
<1>5. DlInv' /\ Untouched /\ (dl' = dl \/ (dl'.state = "ABORTED" /\ ~dl'.pending))
  <2>1. CASE UNCHANGED dl
    BY <1>1, <1>2, <2>1, DlStays DEF DlTick
  <2>2. CASE DlAbort
    BY <1>1, <1>2, <2>2, DlAborts DEF DlTick
  <2> QED
    BY <1>1, <2>1, <2>2 DEF DlTick
<1>6. Tied'
  BY <1>1, <1>2, <1>3, <1>5 DEF Tied, NoCrc
<1>7. TypeOK'
  BY <1>1, <1>2, <1>3, <1>4, <1>5 DEF TypeOK, DlInv
<1> QED
  BY <1>3, <1>4, <1>5, <1>6, <1>7 DEF ServerInv

\* So does polling the erase.
LEMMA PollKeeps ==
  ASSUME ServerInv, PollErase
  PROVE  ServerInv' /\ Untouched
<1>1. /\ TypeOK /\ SessionClock /\ LockClock /\ DlInv /\ Tied /\ now \in Ticks
      /\ UNCHANGED <<now, srv, services, sec, quiet, sinceLock, claimed>>
  BY DEF ServerInv, TypeOK, PollErase
<1>2. CASE DlPollTimeout(now)
  <2>1. DlInv' /\ Untouched /\ dl'.state = "ABORTED" /\ ~dl'.pending
    BY <1>1, <1>2, DlAborts DEF DlPollTimeout
  <2> QED
    BY <1>1, <2>1 DEF ServerInv, TypeOK, SessionClock, LockClock, DlInv, Tied
<1>3. CASE DlPollErased(now)
  <2>1. /\ DlInv' /\ Untouched /\ dl.state = "ERASING" /\ dl'.block = dl.block
        /\ ~dl'.pending
    BY <1>1, <1>3, DlErased
  <2> QED
    BY <1>1, <2>1 DEF ServerInv, TypeOK, SessionClock, LockClock, DlInv, Tied
<1> QED
  BY <1>2, <1>3 DEF PollErase

\* The state after CANopenReference_UDS_Init is one to start from.
LEMMA Begins ==
  ASSUME NEW tick \in Ticks
  PROVE  /\ SrvInit(tick) \in Servers /\ SrvInit(tick).session = "default"
         /\ SrvInit(tick).level = 0 /\ ~SrvInit(tick).active
         /\ SecInit \in Securities /\ NoCrc \in Seq(Units)
         /\ 0 \in 0 .. S3Ms /\ LockoutMs \in 0 .. LockoutMs
<1>1. 1 \in 0 .. BlockMod - 1 /\ 0 \in 0 .. MaxLevel /\ "default" \in Sessions
  BY DownloadAssumption, ServerAssumption DEF Sessions
<1>2. /\ 0 \in 0 .. MaxAttempts - 1 /\ 0 \in Ticks
      /\ LockoutMs \in 0 .. LockoutMs /\ 0 \in 0 .. S3Ms
  BY SecurityAssumption, ServerAssumption, TickModAssumption DEF Ticks
<1> QED
  BY <1>1, <1>2 DEF SrvInit, Servers, SecInit, Securities, NoCrc

\* And so does CANopenReference_UDS_Init, at any tick.
LEMMA InitialiseKeeps ==
  ASSUME ServerInv, NEW tick \in Ticks, Initialise(tick)
  PROVE  ServerInv' /\ Untouched
<1>1. /\ now' = tick /\ srv' = SrvInit(tick) /\ sec' = SecInit /\ dl' = DlInit
      /\ quiet' = 0 /\ sinceLock' = LockoutMs /\ claimed' = NoCrc
      /\ services' = services /\ flash' = flash
      /\ services \in Builds /\ flash \in Flashes
  BY DEF Initialise, ServerInv, TypeOK, DlInv
<1>2. TypeOK'
  BY <1>1, Begins, DlStarts DEF TypeOK
<1>3. DlInv' /\ Tied' /\ Untouched
  BY <1>1, DlStarts, Begins DEF DlInv, Download, DlShape, Tied, Untouched
<1>4. SessionClock' /\ LockClock'
  BY <1>1, Begins, SecurityAssumption DEF SessionClock, LockClock
<1> QED
  BY <1>2, <1>3, <1>4 DEF ServerInv

-----------------------------------------------------------------------------
(* The theorems *)

\* The invariant holds at power-up.
LEMMA ServerStarts == Init => ServerInv
<1> SUFFICES ASSUME Init PROVE ServerInv
  OBVIOUS
<1>1. 0 \in Ticks
  BY TickModAssumption DEF Ticks
<1>2. /\ now \in Ticks /\ srv = SrvInit(0) /\ sec = SecInit /\ dl = DlInit
      /\ services \in Builds /\ flash \in Flashes
      /\ quiet = 0 /\ sinceLock = LockoutMs /\ claimed = NoCrc
  BY <1>1 DEF Init, Flashes
<1>3. TypeOK
  BY <1>1, <1>2, Begins, DlStarts DEF TypeOK
<1>4. DlInv /\ Tied
  BY <1>1, <1>2, DlStarts, Begins DEF DlInv, Download, DlShape, Tied
<1>5. SessionClock /\ LockClock
  BY <1>1, <1>2, Begins, SecurityAssumption DEF SessionClock, LockClock
<1> QED
  BY <1>3, <1>4, <1>5 DEF ServerInv

\* Every step preserves the invariant, and leaves the protected regions alone.
LEMMA ServerSteps ==
  ASSUME ServerInv, [Next]_vars
  PROVE  ServerInv' /\ Untouched
<1>1. /\ TypeOK /\ srv \in Servers /\ now \in Ticks
  BY DEF ServerInv, TypeOK
<1>2. CASE OtherRequest
  BY <1>1, <1>2, ProviderStays, PlainRequest DEF OtherRequest
<1>3. CASE EcuReset
  <2>1. [srv EXCEPT !.resetPending = TRUE] \in Servers
    BY <1>1 DEF Servers
  <2>2. /\ [srv EXCEPT !.resetPending = TRUE].active = srv.active
        /\ [srv EXCEPT !.resetPending = TRUE].next = srv.next
    BY <1>1 DEF Servers
  <2> QED
    BY <1>3, <2>1, <2>2, ProviderStays, PlainRequest DEF EcuReset
<1>4. CASE SecuritySeed
  BY <1>1, <1>4, SeedKeeps, PlainRequest DEF SecuritySeed
<1>5. CASE SecurityKeyRefused
  BY <1>1, <1>5, RefusalKeeps, PlainRequest DEF SecurityKeyRefused
<1>6. ASSUME NEW x \in Sessions, SessionControl(x)
      PROVE  ServerInv' /\ Untouched
  <2> DEFINE s == [srv EXCEPT !.session = x, !.level = 0]
  <2>1. 0 \in 0 .. MaxLevel
    BY ServerAssumption
  <2>2. s \in Servers /\ s.active = srv.active /\ s.next = srv.next
    BY <1>1, <2>1 DEF Servers
  <2> QED
    BY <1>6, <2>2, ProviderStays, PlainRequest DEF SessionControl
<1>7. ASSUME NEW on \in BOOLEAN, ControlDtcSetting(on)
      PROVE  ServerInv' /\ Untouched
  <2> DEFINE s == [srv EXCEPT !.dtcSetting = on]
  <2>1. s \in Servers /\ s.active = srv.active /\ s.next = srv.next
    BY <1>1 DEF Servers
  <2> QED
    BY <1>7, <2>1, ProviderStays, PlainRequest DEF ControlDtcSetting
<1>8. ASSUME NEW l \in 1 .. MaxLevel, SecurityKey(l)
      PROVE  ServerInv' /\ Untouched
  <2> DEFINE s == [srv EXCEPT !.level = l]
  <2>1. l \in 0 .. MaxLevel
    BY ServerAssumption
  <2>2. s \in Servers /\ s.active = srv.active /\ s.next = srv.next
    BY <1>1, <2>1 DEF Servers
  <2> QED
    BY <1>8, <2>2, RightKeyKeeps, PlainRequest DEF SecurityKey
<1>9. CASE \E i \in Images : RequestDownload(i[1], i[2])
  BY <1>9, RequestDownloadKeeps
<1>10. CASE \E data \in Blocks : TransferData(data)
  BY <1>10, TransferDataKeeps
<1>11. CASE \E crc \in Crcs : TransferExit(crc)
  BY <1>11, TransferExitKeeps
<1>12. CASE PassStart
  BY <1>12, PassKeeps
<1>13. CASE PollErase
  BY <1>13, PollKeeps
<1>14. CASE Reinit \/ Restart
  <2>1. 0 \in Ticks
    BY TickModAssumption DEF Ticks
  <2> QED
    BY <1>1, <1>14, <2>1, InitialiseKeeps DEF Reinit, Restart
<1>15. CASE UNCHANGED vars
  BY <1>15, DlStays DEF vars, ServerInv, TypeOK, SessionClock, LockClock, Tied, NoCrc
<1> QED
  BY <1>2, <1>3, <1>4, <1>5, <1>6, <1>7, <1>8, <1>9, <1>10, <1>11, <1>12, <1>13,
     <1>14, <1>15 DEF Next

\* The invariant that the others follow from.
THEOREM ServerInvariant == Spec => []ServerInv
BY ServerStarts, ServerSteps, PTL DEF Spec

\* The state always has its types, whatever is asked and however late the
\* passes of CANopenReference_UDS_Process are.
THEOREM ServerTyping == Spec => []TypeOK
<1>1. ServerInv => TypeOK
  BY DEF ServerInv
<1> QED
  BY <1>1, ServerInvariant, PTL

\* uds_server_tick: what the server lets continue has had a request within the
\* S3 time, over any wrap of the tick.
THEOREM ActivityIsNeeded == Spec => []SessionNeedsActivity
<1>1. ServerInv => SessionNeedsActivity
  BY DEF ServerInv, SessionClock, SessionNeedsActivity
<1> QED
  BY <1>1, ServerInvariant, PTL

\* uds_server_tick: a pass takes a session away only when the S3 time is over.
THEOREM SessionsAreKept == Spec => SessionIsKept
<1>1. ASSUME ServerInv, PassStart, srv'.session # srv.session
      PROVE  quiet' = S3Ms
  <2>1. PICK ms \in 1 .. MaxStallMs :
          now' = After(now, ms) /\ srv' = SrvTicked(now') /\ quiet' = Later(quiet, ms, S3Ms)
    BY <1>1 DEF PassStart
  <2>2. \/ srv' = srv
        \/ srv'.session = "default" /\ (srv.session # "default" => quiet' = S3Ms)
    BY <1>1, <2>1, PassTicks
  <2> QED
    BY <1>1, <2>2
<1>2. ServerInv /\ [Next]_vars =>
        [PassStart /\ srv'.session # srv.session => quiet' = S3Ms]_vars
  BY <1>1
<1> QED
  BY <1>2, ServerInvariant, PTL DEF Spec, SessionIsKept

\* uds_server_handle and uds_download_write: their block counters never part
\* while blocks come in.
THEOREM BlockCountersAgree == Spec => []CountersAgree
<1>1. ServerInv => CountersAgree
  BY DEF ServerInv, Tied, CountersAgree
<1> QED
  BY <1>1, ServerInvariant, PTL

\* uds_download_finish: an image that is marked for activation is whole, in the
\* flash, and the one the tester gave the CRC of.
THEOREM PendingImagesAreWhole == Spec => []PendingImageIsWhole
<1>1. ServerInv => PendingImageIsWhole
  BY DEF ServerInv, DlInv, Download, DlShape, Tied, PendingImageIsWhole
<1> QED
  BY <1>1, ServerInvariant, PTL

\* uds_download_begin: the protected regions keep what they hold, for any
\* memory map and any address and length that a tester asks for.
THEOREM ProtectedRegionsUntouched == Spec => ProtectedUntouched
<1>1. ServerInv /\ [Next]_vars => Untouched
  BY ServerSteps
<1>2. ServerInv /\ [Next]_vars =>
        [\A r \in Protected : \A a \in r[1] .. r[2] - 1 : flash'[a] = flash[a]]_vars
  BY <1>1 DEF Untouched
<1> QED
  BY <1>2, ServerInvariant, PTL DEF Spec, ProtectedUntouched

\* uds_security_provider_verify_key: a lockout lasts its time, over any wrap of
\* the tick, unless the server is initialised again.
THEOREM LockoutsHold == Spec => LockoutHolds
<1>1. ASSUME ServerInv, Next, sinceLock < LockoutMs, ~Reinit, ~Restart
      PROVE  sec' = sec
  <2>1. IsLocked(now)
    BY <1>1, LockedStays DEF ServerInv
  <2>2. CASE SecuritySeed
    BY <2>1, <2>2 DEF SecuritySeed, SecSeed, SecSeedDelayed
  <2>3. CASE SecurityKeyRefused
    BY <2>1, <2>3 DEF SecurityKeyRefused, SecKeyRefused, SecKeyOutOfSequence,
                      SecKeyWrong, SecKeyLocks
  <2>4. ASSUME NEW l, SecurityKey(l) PROVE FALSE
    BY <2>1, <2>4 DEF SecurityKey, SecKeyRight
  <2> QED
    BY <1>1, <2>2, <2>3, <2>4
       DEF Next, OtherRequest, EcuReset, SessionControl, ControlDtcSetting,
           RequestDownload, TransferData, TransferExit, PassStart, PollErase
<1>2. ServerInv /\ [Next]_vars =>
        [sinceLock < LockoutMs /\ ~Reinit /\ ~Restart => sec' = sec]_vars
  BY <1>1
<1> QED
  BY <1>2, ServerInvariant, PTL DEF Spec, LockoutHolds
=============================================================================
