--------------------------- MODULE UdsCanTxProofs ---------------------------
(***************************************************************************)
(* For every ring capacity, budget and set of mailboxes, the transmit ring *)
(* of the UDS adapter implements FrameFifo: what the run of UdsCanTx       *)
(* checks on one ring.  The invariant that carries the proof says that     *)
(* what the ring holds between its indices are frames, never the zeroes of *)
(* a slot nobody has written, and that the mainline submits only while it  *)
(* holds one.                                                              *)
(***************************************************************************)
EXTENDS UdsCanTx, TLAPS

-----------------------------------------------------------------------------
(* The ring of uds_stm32.c: its index arithmetic implements a first-in     *)
(* first-out queue, for every capacity.  The lemmas are those of           *)
(* UdsCanRxProofs: the two rings are one code, but the two modules have    *)
(* constants and variables of the same names and cannot be extended        *)
(* together.                                                               *)

\* Indices stay within the ring, and the two comparisons the code makes
\* (next = tail, tail = head) mean full and empty.
LEMMA RingIndices ==
  ASSUME NEW capacity \in Nat, capacity > 1,
         NEW head \in 0 .. capacity - 1, NEW tail \in 0 .. capacity - 1
  PROVE  /\ NextIndex(head, capacity) \in 0 .. capacity - 1
         /\ NextIndex(tail, capacity) \in 0 .. capacity - 1
         /\ Used(head, tail, capacity) \in 0 .. capacity - 1
         /\ RingFull(head, tail, capacity) <=> Used(head, tail, capacity) = capacity - 1
         /\ tail = head <=> Used(head, tail, capacity) = 0
  BY DEF NextIndex, Used, RingFull

\* Storing at the head adds one place after the others and disturbs none.
LEMMA RingPut ==
  ASSUME NEW capacity \in Nat, capacity > 1,
         NEW head \in 0 .. capacity - 1, NEW tail \in 0 .. capacity - 1,
         ~RingFull(head, tail, capacity)
  PROVE  /\ Used(NextIndex(head, capacity), tail, capacity) = Used(head, tail, capacity) + 1
         /\ Place(tail, Used(head, tail, capacity) + 1, capacity) = head
         /\ \A k \in 1 .. Used(head, tail, capacity) :
              /\ Place(tail, k, capacity) \in 0 .. capacity - 1
              /\ Place(tail, k, capacity) # head
  BY DEF NextIndex, Used, RingFull, Place

\* Advancing the tail removes the first place and keeps the others in order.
LEMMA RingGet ==
  ASSUME NEW capacity \in Nat, capacity > 1,
         NEW head \in 0 .. capacity - 1, NEW tail \in 0 .. capacity - 1,
         tail # head
  PROVE  /\ Used(head, NextIndex(tail, capacity), capacity) = Used(head, tail, capacity) - 1
         /\ Place(tail, 1, capacity) = tail
         /\ \A k \in 1 .. Used(head, tail, capacity) - 1 :
              Place(NextIndex(tail, capacity), k, capacity) = Place(tail, k + 1, capacity)
  BY DEF NextIndex, Used, Place

\* Therefore the content, as a sequence, grows at its end ...
LEMMA ContentsPut ==
  ASSUME NEW S, NEW capacity \in Nat, capacity > 1,
         NEW slots \in [0 .. capacity - 1 -> S], NEW s \in S,
         NEW head \in 0 .. capacity - 1, NEW tail \in 0 .. capacity - 1,
         ~RingFull(head, tail, capacity)
  PROVE  Contents([slots EXCEPT ![head] = s], NextIndex(head, capacity), tail, capacity)
           = Append(Contents(slots, head, tail, capacity), s)
<1> DEFINE n == Used(head, tail, capacity)
           old == Contents(slots, head, tail, capacity)
           after == [slots EXCEPT ![head] = s]
           new == Contents(after, NextIndex(head, capacity), tail, capacity)
<1>1. n \in Nat
  BY RingIndices
<1>2. /\ Used(NextIndex(head, capacity), tail, capacity) = n + 1
      /\ Place(tail, n + 1, capacity) = head
      /\ \A k \in 1 .. n : /\ Place(tail, k, capacity) \in 0 .. capacity - 1
                           /\ Place(tail, k, capacity) # head
  BY RingPut
<1>3. new = [k \in 1 .. n + 1 |-> after[Place(tail, k, capacity)]]
  BY <1>2 DEF Contents
<1>4. old = [k \in 1 .. n |-> slots[Place(tail, k, capacity)]]
  BY DEF Contents
<1> HIDE DEF n
<1>5. \A k \in 1 .. n : after[Place(tail, k, capacity)] = slots[Place(tail, k, capacity)]
  BY <1>2
<1>6. after[Place(tail, n + 1, capacity)] = s
  BY <1>2
<1>7. \A k \in 1 .. n : slots[Place(tail, k, capacity)] \in S
  BY <1>2
<1>8. old \in Seq(S) /\ Len(old) = n
  BY <1>1, <1>4, <1>7
<1>9. Append(old, s) = [k \in 1 .. n + 1 |-> IF k = n + 1 THEN s ELSE old[k]]
  BY <1>1, <1>8
<1> HIDE DEF after, new, old
<1>10. \A k \in 1 .. n + 1 : new[k] = Append(old, s)[k]
  BY <1>1, <1>3, <1>4, <1>5, <1>6, <1>9
<1>11. new = Append(old, s)
  BY <1>3, <1>9, <1>10
<1> QED
  BY <1>11 DEF new, old, after

\* ... and shrinks at its front.
LEMMA ContentsGet ==
  ASSUME NEW S, NEW capacity \in Nat, capacity > 1,
         NEW slots \in [0 .. capacity - 1 -> S],
         NEW head \in 0 .. capacity - 1, NEW tail \in 0 .. capacity - 1,
         tail # head
  PROVE  /\ Contents(slots, head, tail, capacity) # <<>>
         /\ Head(Contents(slots, head, tail, capacity)) = slots[tail]
         /\ Contents(slots, head, NextIndex(tail, capacity), capacity)
              = Tail(Contents(slots, head, tail, capacity))
<1> DEFINE n == Used(head, tail, capacity)
           old == Contents(slots, head, tail, capacity)
           new == Contents(slots, head, NextIndex(tail, capacity), capacity)
<1>1. n \in 1 .. capacity - 1
  BY RingIndices
<1>2. /\ Used(head, NextIndex(tail, capacity), capacity) = n - 1
      /\ Place(tail, 1, capacity) = tail
      /\ \A k \in 1 .. n - 1 :
           Place(NextIndex(tail, capacity), k, capacity) = Place(tail, k + 1, capacity)
  BY RingGet
<1>3. \A k \in 1 .. n : Place(tail, k, capacity) \in 0 .. capacity - 1
  BY <1>1 DEF Place
<1>4. new = [k \in 1 .. n - 1 |-> slots[Place(NextIndex(tail, capacity), k, capacity)]]
  BY <1>2 DEF Contents
<1>5. old = [k \in 1 .. n |-> slots[Place(tail, k, capacity)]]
  BY DEF Contents
<1> HIDE DEF n, new, old
<1>6. \A k \in 1 .. n : slots[Place(tail, k, capacity)] \in S
  BY <1>3
<1>7. old \in Seq(S) /\ Len(old) = n
  BY <1>1, <1>5, <1>6
<1>8. old # <<>> /\ Head(old) = slots[tail]
  BY <1>1, <1>2, <1>5, <1>7
<1>9. Tail(old) = [k \in 1 .. n - 1 |-> old[k + 1]]
  BY <1>1, <1>7
<1>10. \A k \in 1 .. n - 1 : new[k] = Tail(old)[k]
  BY <1>1, <1>2, <1>4, <1>5, <1>9
<1>11. new = Tail(old)
  BY <1>4, <1>9, <1>10
<1> QED
  BY <1>8, <1>11 DEF new, old

\* The length of the content is what the full and empty tests measure.
LEMMA ContentsLength ==
  ASSUME NEW S, NEW capacity \in Nat, capacity > 1,
         NEW slots \in [0 .. capacity - 1 -> S],
         NEW head \in 0 .. capacity - 1, NEW tail \in 0 .. capacity - 1
  PROVE  Len(Contents(slots, head, tail, capacity)) = Used(head, tail, capacity)
<1> DEFINE n == Used(head, tail, capacity)
<1>1. n \in 0 .. capacity - 1
  BY RingIndices
<1>2. Contents(slots, head, tail, capacity) = [k \in 1 .. n |-> slots[Place(tail, k, capacity)]]
  BY DEF Contents
<1> HIDE DEF n
<1>3. \A k \in 1 .. n : slots[Place(tail, k, capacity)] \in S
  BY <1>1 DEF Place
<1>4. Len(Contents(slots, head, tail, capacity)) = n
  BY <1>1, <1>2, <1>3
<1> QED
  BY <1>4 DEF n

-----------------------------------------------------------------------------
(* The invariant *)

TxContents == Contents(txQueue, txHead, txTail, TxCapacity)

SubmitInv == pc = "submit" => budget > 0 /\ ~TxEmpty

\* The bus transmits from a mailbox that holds something.
BusInv == onBus # NoMailbox => mailbox[onBus] # Free

TxInv == TypeOK /\ TxContents \in Seq(Serials) /\ SubmitInv /\ BusInv

\* What the ring lemmas ask for.
LEMMA TxRing ==
  ASSUME TypeOK
  PROVE  /\ TxCapacity \in Nat /\ TxCapacity > 1
         /\ txQueue \in [0 .. TxCapacity - 1 -> Serials \cup {NoFrame}]
         /\ txHead \in 0 .. TxCapacity - 1 /\ txTail \in 0 .. TxCapacity - 1
BY TxAssumption DEF TypeOK

\* Storing a frame appends it to the content of the ring.
LEMMA QueuedFrameIsLast ==
  ASSUME TxInv, QueueStore
  PROVE  /\ TypeOK' /\ serial \in Serials
         /\ TxContents' = Append(TxContents, serial)
<1>1. /\ ~RingFull(txHead, txTail, TxCapacity) /\ serial \in Serials
      /\ txQueue' = [txQueue EXCEPT ![txHead] = serial]
      /\ txHead' = NextIndex(txHead, TxCapacity) /\ txTail' = txTail
  BY DEF QueueStore, TxFull, TxInv, TypeOK
<1>2. Contents([txQueue EXCEPT ![txHead] = serial], NextIndex(txHead, TxCapacity),
               txTail, TxCapacity)
        = Append(Contents(txQueue, txHead, txTail, TxCapacity), serial)
  <2>1. serial \in Serials \cup {NoFrame} /\ TypeOK
    BY <1>1 DEF TxInv
  <2> QED
    BY <1>1, <2>1, TxRing, ContentsPut, Zenon
<1>3. txHead' \in 0 .. TxCapacity - 1
  BY <1>1, TxRing, RingIndices DEF TxInv
<1>4. serial' \in Serials
  BY <1>1, TxAssumption DEF QueueStore, Serials
<1>5. TypeOK'
  BY <1>1, <1>3, <1>4 DEF TxInv, TypeOK, QueueStore, busVars
<1> QED
  BY <1>1, <1>2, <1>5 DEF TxContents

\* Submitting one takes it from the front, and it is a frame.
LEMMA SubmittedFrameIsFirst ==
  ASSUME TxInv, TxSubmit
  PROVE  /\ TypeOK' /\ BusInv'
         /\ TxContents # <<>> /\ txQueue[txTail] = Head(TxContents)
         /\ TxContents' = Tail(TxContents)
<1>1. /\ txTail # txHead /\ budget \in Nat /\ budget > 0
      /\ txTail' = NextIndex(txTail, TxCapacity) /\ txHead' = txHead /\ txQueue' = txQueue
  BY DEF TxSubmit, TxInv, SubmitInv, TxEmpty, TypeOK
<1>2. /\ TxContents # <<>> /\ Head(TxContents) = txQueue[txTail]
      /\ Contents(txQueue, txHead, NextIndex(txTail, TxCapacity), TxCapacity)
           = Tail(TxContents)
  BY <1>1, TxRing, ContentsGet DEF TxInv, TxContents
<1>3. txQueue[txTail] \in Serials
  BY <1>2 DEF TxInv
<1>4. txTail' \in 0 .. TxCapacity - 1
  BY <1>1, TxRing, RingIndices DEF TxInv
<1>5. mailbox' \in [Mailboxes -> Serials \cup {Free, Tpdo}]
  BY <1>3 DEF TxSubmit, AddTxMessage, TxInv, TypeOK
<1>6. TypeOK'
  BY <1>1, <1>3, <1>4, <1>5 DEF TxInv, TypeOK, TxSubmit, busVars
<1>7. BusInv'
  BY <1>3, TxAssumption
     DEF TxSubmit, AddTxMessage, TxInv, BusInv, TypeOK, busVars, Serials
<1> QED
  BY <1>1, <1>2, <1>6, <1>7 DEF TxContents

\* Steps that leave the ring alone leave its content alone.
LEMMA RingStays ==
  ASSUME TxInv, TypeOK', SubmitInv', BusInv', UNCHANGED <<txQueue, txHead, txTail>>
  PROVE  TxInv'
BY DEF TxInv, TxContents

\* The ring is empty at the start.
LEMMA TxStarts == Init => TxInv
<1> SUFFICES ASSUME Init PROVE TxInv
  OBVIOUS
<1>1. TypeOK
  <2>1. 0 \in Serials /\ SerialMod - 1 \in Serials
    BY TxAssumption DEF Serials
  <2> QED
    BY <2>1, TxAssumption DEF Init, TypeOK, ZeroQueue
<1>2. TxContents = <<>>
  BY DEF Init, TxContents, Contents, Used
<1> QED
  BY <1>1, <1>2 DEF TxInv, SubmitInv, BusInv, Init

\* Every step of the mainline, of TIM7 and of the bus preserves the invariant.
LEMMA TxStep == TxInv /\ [Next]_vars => TxInv'
<1> SUFFICES ASSUME TxInv, [Next]_vars PROVE TxInv'
  OBVIOUS
<1> USE DEF ringVars, busVars
<1>a. /\ TypeOK /\ SubmitInv /\ BusInv /\ Answers \in Nat /\ TxBudget \in Nat /\ CounterMod \in Nat \ {0}
  BY TxAssumption DEF TxInv
<1>1. CASE QueueStore
  <2>1. TxContents' \in Seq(Serials) /\ TypeOK'
    BY <1>1, QueuedFrameIsLast DEF TxInv
  <2> QED
    BY <1>a, <1>1, <2>1 DEF TxInv, SubmitInv, BusInv, QueueStore
<1>2. CASE TxSubmit
  <2>1. TxContents' \in Seq(Serials) /\ TypeOK' /\ BusInv'
    BY <1>2, SubmittedFrameIsFirst DEF TxInv
  <2> QED
    BY <1>2, <2>1 DEF TxInv, SubmitInv, TxSubmit
<1>3. CASE QueueDrop
  <2>1. txOverflow' \in 0 .. CounterMod - 1
    BY <1>a, <1>3 DEF QueueDrop, TypeOK
  <2>2. TypeOK' /\ SubmitInv' /\ BusInv'
    BY <1>a, <1>3, <2>1 DEF QueueDrop, TypeOK, SubmitInv, BusInv
  <2> QED
    BY <1>3, <2>2, RingStays DEF QueueDrop
<1>4. CASE PassStart \/ ProcessTx \/ TxDone \/ TxFound \/ TxRefused
  <2>1. TypeOK' /\ SubmitInv' /\ BusInv' /\ UNCHANGED <<txQueue, txHead, txTail>>
    BY <1>a, <1>4 DEF PassStart, ProcessTx, TxDone, TxFound, TxRefused, TypeOK, SubmitInv,
                      BusInv, TxEmpty
  <2> QED
    BY <2>1, RingStays
<1>5. CASE Reinit
  <2>1. TypeOK'
    BY <1>a, <1>5, TxAssumption DEF Reinit, TypeOK, ZeroQueue
  <2>2. TxContents' = <<>>
    BY <1>5 DEF Reinit, TxContents, Contents, Used
  <2> QED
    BY <1>5, <2>1, <2>2 DEF TxInv, SubmitInv, BusInv, Reinit
<1>6. CASE TpdoIsr
  <2>1. mailbox' \in [Mailboxes -> Serials \cup {Free, Tpdo}] /\ BusInv'
    BY <1>a, <1>6, TxAssumption DEF TpdoIsr, AddTxMessage, TypeOK, BusInv
  <2> QED
    BY <1>a, <1>6, <2>1, RingStays DEF TpdoIsr, TypeOK, SubmitInv, TxEmpty
<1>7. CASE Bus \/ BusLost
  <2>1. /\ mailbox' \in [Mailboxes -> Serials \cup {Free, Tpdo}]
        /\ onBus' \in Mailboxes \cup {NoMailbox} /\ BusInv'
    BY <1>a, <1>7 DEF Bus, BusStart, BusDone, BusLost, TypeOK, BusInv
  <2>2. sent' \in Serials
    BY <1>a, <1>7 DEF Bus, BusStart, BusDone, BusLost, TypeOK, BusInv
  <2> QED
    BY <1>a, <1>7, <2>1, <2>2, RingStays
       DEF Bus, BusStart, BusDone, BusLost, TypeOK, SubmitInv, TxEmpty
<1>8. CASE UNCHANGED vars
  BY <1>a, <1>8, RingStays DEF vars, TypeOK, SubmitInv, BusInv, TxEmpty
<1> QED
  BY <1>1, <1>2, <1>3, <1>4, <1>5, <1>6, <1>7, <1>8 DEF Next, Pass

\* Indices stay within the ring and mailboxes hold what may be in them, while
\* the mainline, TIM7 and the bus take turns in any order.
THEOREM TxTyping == Spec => []TypeOK
<1>1. TxInv => TypeOK
  BY DEF TxInv
<1> QED
  BY TxStarts, TxStep, <1>1, PTL DEF Spec

-----------------------------------------------------------------------------
(* Refinement *)

\* Each step of the adapter is a step of the queue or invisible to it.
LEMMA TxRefinementStep == TxInv /\ [Next]_vars => [Fifo!Next]_(Fifo!vars)
<1> SUFFICES ASSUME TxInv, [Next]_vars PROVE [Fifo!Next]_(Fifo!vars)
  OBVIOUS
<1> DEFINE content == Contents(txQueue, txHead, txTail, TxCapacity)
<1>a. /\ TypeOK /\ TxCapacity \in Nat /\ TxCapacity > 1
      /\ txHead \in 0 .. TxCapacity - 1 /\ txTail \in 0 .. TxCapacity - 1
      /\ Len(content) = Used(txHead, txTail, TxCapacity)
  BY TxRing, ContentsLength DEF TxInv
<1>1. CASE QueueStore
  <2>1. serial \in Serials /\ content' = Append(content, serial)
    BY <1>1, QueuedFrameIsLast DEF TxContents
  <2>2. ~RingFull(txHead, txTail, TxCapacity)
    BY <1>1 DEF QueueStore, TxFull
  <2>3. Len(content) < TxCapacity - 1
    <3>1. /\ Used(txHead, txTail, TxCapacity) \in 0 .. TxCapacity - 1
          /\ Used(txHead, txTail, TxCapacity) # TxCapacity - 1
      BY <1>a, <2>2, RingIndices
    <3> QED
      BY <1>a, <3>1
  <2>4. Fifo!Put
    BY <1>1, <2>1, <2>3 DEF QueueStore, Fifo!Put
  <2> QED
    BY <2>4 DEF Fifo!Next
<1>2. CASE QueueDrop
  <2>1. Len(content) = TxCapacity - 1
    BY <1>2, <1>a, RingIndices DEF QueueDrop, TxFull
  <2>2. Fifo!Lose
    BY <1>2, <2>1 DEF QueueDrop, Fifo!Lose
  <2> QED
    BY <2>2 DEF Fifo!Next
<1>3. CASE TxSubmit
  <2>1. content # <<>> /\ txQueue[txTail] = Head(content) /\ content' = Tail(content)
    BY <1>3, SubmittedFrameIsFirst DEF TxContents
  <2>2. Fifo!Get
    BY <1>3, <2>1 DEF TxSubmit, Fifo!Get
  <2> QED
    BY <2>2 DEF Fifo!Next
<1>4. CASE Reinit
  <2>1. content' = <<>>
    BY <1>4 DEF Reinit, Contents, Used
  <2>2. Fifo!Flush
    BY <1>4, <2>1 DEF Reinit, Fifo!Flush
  <2> QED
    BY <2>2 DEF Fifo!Next
<1>5. CASE \/ PassStart \/ ProcessTx \/ TxDone \/ TxFound \/ TxRefused
           \/ TpdoIsr \/ Bus \/ BusLost \/ UNCHANGED vars
  <2>1. UNCHANGED <<txQueue, txHead, txTail, submitted, txOverflow>>
    BY <1>5 DEF PassStart, ProcessTx, TxDone, TxFound, TxRefused, TpdoIsr, Bus,
                BusStart, BusDone, BusLost, vars, ringVars, busVars
  <2> QED
    BY <2>1 DEF Fifo!vars
<1> QED
  BY <1>1, <1>2, <1>3, <1>4, <1>5 DEF Next, Pass

\* The transmit ring is a queue: mailboxes are given the frames once and in the
\* order they were queued, and only a full ring loses one, although TIM7 may take
\* the mailbox that uds_stm32_can_process_tx has just seen free.
THEOREM TransmitRingIsFifo == Spec => TxIsFifo
<1>1. Init => Fifo!Init
  BY DEF Init, Fifo!Init, Contents, Used
<1> QED
  BY TxStarts, TxStep, TxRefinementStep, <1>1, PTL DEF Spec, TxIsFifo, Fifo!Spec
=============================================================================
