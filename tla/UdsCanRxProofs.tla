--------------------------- MODULE UdsCanRxProofs ---------------------------
(***************************************************************************)
(* For every ring capacity, budget and set of frames, the receive ring of  *)
(* the UDS adapter implements FrameFifo: what the run of UdsCanRx checks   *)
(* on one ring.  The invariant that carries the proof is about the copy in *)
(* progress: what has been copied so far is still what the slot holds,     *)
(* because the interrupt never writes the slot at the tail.                *)
(***************************************************************************)
EXTENDS UdsCanRx, TLAPS

-----------------------------------------------------------------------------
(* The ring of uds_stm32.c: its index arithmetic implements a first-in     *)
(* first-out queue, for every capacity                                     *)

\* Indices stay within the ring, and the two comparisons the code makes
\* (next = tail, tail = head) mean full and empty.
LEMMA RingIndices ==
  ASSUME NEW capacity \in Nat, capacity > 1,
         NEW head \in 0 .. capacity - 1, NEW tail \in 0 .. capacity - 1
  PROVE  /\ NextIndex(head, capacity) \in 0 .. capacity - 1
         /\ NextIndex(tail, capacity) \in 0 .. capacity - 1
         /\ Used(head, tail, capacity) \in 0 .. capacity - 1
         /\ RingFull(head, tail, capacity) <=> Used(head, tail, capacity) = capacity - 1
         /\ tail = head <=> Used(head, tail, capacity) = 0
  BY DEF NextIndex, Used, RingFull

\* Storing at the head adds one place after the others and disturbs none.
LEMMA RingPut ==
  ASSUME NEW capacity \in Nat, capacity > 1,
         NEW head \in 0 .. capacity - 1, NEW tail \in 0 .. capacity - 1,
         ~RingFull(head, tail, capacity)
  PROVE  /\ Used(NextIndex(head, capacity), tail, capacity) = Used(head, tail, capacity) + 1
         /\ Place(tail, Used(head, tail, capacity) + 1, capacity) = head
         /\ \A k \in 1 .. Used(head, tail, capacity) :
              /\ Place(tail, k, capacity) \in 0 .. capacity - 1
              /\ Place(tail, k, capacity) # head
  BY DEF NextIndex, Used, RingFull, Place

\* Advancing the tail removes the first place and keeps the others in order.
LEMMA RingGet ==
  ASSUME NEW capacity \in Nat, capacity > 1,
         NEW head \in 0 .. capacity - 1, NEW tail \in 0 .. capacity - 1,
         tail # head
  PROVE  /\ Used(head, NextIndex(tail, capacity), capacity) = Used(head, tail, capacity) - 1
         /\ Place(tail, 1, capacity) = tail
         /\ \A k \in 1 .. Used(head, tail, capacity) - 1 :
              Place(NextIndex(tail, capacity), k, capacity) = Place(tail, k + 1, capacity)
  BY DEF NextIndex, Used, Place

\* Therefore the content, as a sequence, grows at its end ...
LEMMA ContentsPut ==
  ASSUME NEW S, NEW capacity \in Nat, capacity > 1,
         NEW slots \in [0 .. capacity - 1 -> S], NEW s \in S,
         NEW head \in 0 .. capacity - 1, NEW tail \in 0 .. capacity - 1,
         ~RingFull(head, tail, capacity)
  PROVE  Contents([slots EXCEPT ![head] = s], NextIndex(head, capacity), tail, capacity)
           = Append(Contents(slots, head, tail, capacity), s)
<1> DEFINE n == Used(head, tail, capacity)
           old == Contents(slots, head, tail, capacity)
           after == [slots EXCEPT ![head] = s]
           new == Contents(after, NextIndex(head, capacity), tail, capacity)
<1>1. n \in Nat
  BY RingIndices
<1>2. /\ Used(NextIndex(head, capacity), tail, capacity) = n + 1
      /\ Place(tail, n + 1, capacity) = head
      /\ \A k \in 1 .. n : /\ Place(tail, k, capacity) \in 0 .. capacity - 1
                           /\ Place(tail, k, capacity) # head
  BY RingPut
<1>3. new = [k \in 1 .. n + 1 |-> after[Place(tail, k, capacity)]]
  BY <1>2 DEF Contents
<1>4. old = [k \in 1 .. n |-> slots[Place(tail, k, capacity)]]
  BY DEF Contents
<1> HIDE DEF n
<1>5. \A k \in 1 .. n : after[Place(tail, k, capacity)] = slots[Place(tail, k, capacity)]
  BY <1>2
<1>6. after[Place(tail, n + 1, capacity)] = s
  BY <1>2
<1>7. \A k \in 1 .. n : slots[Place(tail, k, capacity)] \in S
  BY <1>2
<1>8. old \in Seq(S) /\ Len(old) = n
  BY <1>1, <1>4, <1>7
<1>9. Append(old, s) = [k \in 1 .. n + 1 |-> IF k = n + 1 THEN s ELSE old[k]]
  BY <1>1, <1>8
<1> HIDE DEF after, new, old
<1>10. \A k \in 1 .. n + 1 : new[k] = Append(old, s)[k]
  BY <1>1, <1>3, <1>4, <1>5, <1>6, <1>9
<1>11. new = Append(old, s)
  BY <1>3, <1>9, <1>10
<1> QED
  BY <1>11 DEF new, old, after

\* ... and shrinks at its front.
LEMMA ContentsGet ==
  ASSUME NEW S, NEW capacity \in Nat, capacity > 1,
         NEW slots \in [0 .. capacity - 1 -> S],
         NEW head \in 0 .. capacity - 1, NEW tail \in 0 .. capacity - 1,
         tail # head
  PROVE  /\ Contents(slots, head, tail, capacity) # <<>>
         /\ Head(Contents(slots, head, tail, capacity)) = slots[tail]
         /\ Contents(slots, head, NextIndex(tail, capacity), capacity)
              = Tail(Contents(slots, head, tail, capacity))
<1> DEFINE n == Used(head, tail, capacity)
           old == Contents(slots, head, tail, capacity)
           new == Contents(slots, head, NextIndex(tail, capacity), capacity)
<1>1. n \in 1 .. capacity - 1
  BY RingIndices
<1>2. /\ Used(head, NextIndex(tail, capacity), capacity) = n - 1
      /\ Place(tail, 1, capacity) = tail
      /\ \A k \in 1 .. n - 1 :
           Place(NextIndex(tail, capacity), k, capacity) = Place(tail, k + 1, capacity)
  BY RingGet
<1>3. \A k \in 1 .. n : Place(tail, k, capacity) \in 0 .. capacity - 1
  BY <1>1 DEF Place
<1>4. new = [k \in 1 .. n - 1 |-> slots[Place(NextIndex(tail, capacity), k, capacity)]]
  BY <1>2 DEF Contents
<1>5. old = [k \in 1 .. n |-> slots[Place(tail, k, capacity)]]
  BY DEF Contents
<1> HIDE DEF n, new, old
<1>6. \A k \in 1 .. n : slots[Place(tail, k, capacity)] \in S
  BY <1>3
<1>7. old \in Seq(S) /\ Len(old) = n
  BY <1>1, <1>5, <1>6
<1>8. old # <<>> /\ Head(old) = slots[tail]
  BY <1>1, <1>2, <1>5, <1>7
<1>9. Tail(old) = [k \in 1 .. n - 1 |-> old[k + 1]]
  BY <1>1, <1>7
<1>10. \A k \in 1 .. n - 1 : new[k] = Tail(old)[k]
  BY <1>1, <1>2, <1>4, <1>5, <1>9
<1>11. new = Tail(old)
  BY <1>4, <1>9, <1>10
<1> QED
  BY <1>8, <1>11 DEF new, old

\* The length of the content is what the full and empty tests measure.
LEMMA ContentsLength ==
  ASSUME NEW S, NEW capacity \in Nat, capacity > 1,
         NEW slots \in [0 .. capacity - 1 -> S],
         NEW head \in 0 .. capacity - 1, NEW tail \in 0 .. capacity - 1
  PROVE  Len(Contents(slots, head, tail, capacity)) = Used(head, tail, capacity)
<1> DEFINE n == Used(head, tail, capacity)
<1>1. n \in 0 .. capacity - 1
  BY RingIndices
<1>2. Contents(slots, head, tail, capacity) = [k \in 1 .. n |-> slots[Place(tail, k, capacity)]]
  BY DEF Contents
<1> HIDE DEF n
<1>3. \A k \in 1 .. n : slots[Place(tail, k, capacity)] \in S
  BY <1>1 DEF Place
<1>4. Len(Contents(slots, head, tail, capacity)) = n
  BY <1>1, <1>2, <1>3
<1> QED
  BY <1>4 DEF n

-----------------------------------------------------------------------------
(* The invariant *)

CopyInv ==
  /\ pc \in {"copy_head", "copy_body", "advance"} => ~RxEmpty /\ budget > 0
  /\ pc \in {"copy_body", "advance"} => frame.head = rxQueue[rxTail].head
  /\ pc = "advance" => frame.body = rxQueue[rxTail].body

RxInv == TypeOK /\ CopyInv

\* The ring starts empty with no copy under way.
LEMMA RxInit == Init => RxInv
<1>1. Whole(NoFrame) \in Slots
  BY DEF Whole, Slots
<1> QED
  BY <1>1, RxAssumption DEF Init, RxInv, TypeOK, CopyInv, ZeroQueue

\* No step of the interrupt or the mainline disturbs the types or the copy.
LEMMA RxStep == RxInv /\ [Next]_vars => RxInv'
<1> SUFFICES ASSUME RxInv, [Next]_vars PROVE RxInv'
  OBVIOUS
<1> USE RxAssumption DEF RxInv, TypeOK, CopyInv, ringVars
<1>a. /\ NextIndex(rxHead, RxCapacity) \in 0 .. RxCapacity - 1
      /\ NextIndex(rxTail, RxCapacity) \in 0 .. RxCapacity - 1
  BY RingIndices
<1>b. Whole(NoFrame) \in Slots /\ \A f \in RxFrames : Whole(f) \in Slots
  BY DEF Whole, Slots
<1>c. rxQueue[rxTail] \in Slots
  OBVIOUS
<1>1. CASE RxStore
  <2>1. rxHead' # rxTail /\ rxHead' \in 0 .. RxCapacity - 1
    BY <1>1, <1>a DEF RxStore, RxFull, RingFull
  <2>2. PICK f \in RxFrames : rxQueue' = [rxQueue EXCEPT ![rxHead] = Whole(f)]
    BY <1>1 DEF RxStore
  <2>3. rxQueue' \in [0 .. RxCapacity - 1 -> Slots]
    BY <1>b, <2>2
  <2>4. ~RxEmpty => rxQueue'[rxTail] = rxQueue[rxTail]
    BY <2>2 DEF RxEmpty
  <2> QED
    BY <1>1, <2>1, <2>3, <2>4 DEF RxStore, RxEmpty
<1>2. CASE RxDrop
  <2>1. rxOverflow' \in 0 .. CounterMod - 1
    BY <1>2 DEF RxDrop
  <2> QED
    BY <1>2, <2>1 DEF RxDrop, RxEmpty
<1>3. CASE PassStart
  BY <1>3 DEF PassStart
<1>4. CASE PassEnd
  BY <1>4 DEF PassEnd
<1>5. CASE PopStart
  BY <1>5 DEF PopStart, RxEmpty
<1>6. CASE CopyHead
  <2>1. frame' \in Slots /\ frame'.head = rxQueue[rxTail].head
    BY <1>6, <1>c DEF CopyHead, Slots
  <2> QED
    BY <1>6, <2>1 DEF CopyHead, RxEmpty
<1>7. CASE CopyBody
  <2>1. frame' \in Slots /\ frame'.head = frame.head /\ frame'.body = rxQueue[rxTail].body
    BY <1>7, <1>c DEF CopyBody, Slots
  <2> QED
    BY <1>7, <2>1 DEF CopyBody, RxEmpty
<1>8. CASE Advance
  BY <1>8, <1>a DEF Advance
<1>9. CASE Reinit
  BY <1>9, <1>b DEF Reinit, ZeroQueue
<1>10. CASE UNCHANGED vars
  BY <1>10 DEF vars, RxEmpty
<1> QED
  BY <1>1, <1>2, <1>3, <1>4, <1>5, <1>6, <1>7, <1>8, <1>9, <1>10 DEF Next, Pass

\* Indices stay within the ring and the pass within its points.
THEOREM RxTyping == Spec => []TypeOK
<1>1. RxInv => TypeOK
  BY DEF RxInv
<1>2. RxInv /\ [Next]_vars => RxInv'
  BY RxStep
<1> QED
  BY RxInit, <1>1, <1>2, PTL DEF Spec

-----------------------------------------------------------------------------
(* Refinement *)

\* Storing a frame appends it to the content of the ring.
LEMMA StoredFrameIsLast ==
  ASSUME NEW f \in RxFrames, TypeOK, ~RxFull
  PROVE  Contents([rxQueue EXCEPT ![rxHead] = Whole(f)], NextIndex(rxHead, RxCapacity),
                  rxTail, RxCapacity)
           = Append(Contents(rxQueue, rxHead, rxTail, RxCapacity), Whole(f))
<1>1. /\ RxCapacity \in Nat /\ RxCapacity > 1
      /\ rxQueue \in [0 .. RxCapacity - 1 -> Slots]
      /\ rxHead \in 0 .. RxCapacity - 1 /\ rxTail \in 0 .. RxCapacity - 1
  BY RxAssumption DEF TypeOK
<1>2. Whole(f) \in Slots
  BY DEF Whole, Slots
<1>3. ~RingFull(rxHead, rxTail, RxCapacity)
  BY DEF RxFull
<1> QED
  BY <1>1, <1>2, <1>3, ContentsPut, Zenon

\* Each step of the adapter is a step of the queue or invisible to it.
LEMMA RxRefinementStep == RxInv /\ [Next]_vars => [Fifo!Next]_(Fifo!vars)
<1> SUFFICES ASSUME RxInv, [Next]_vars PROVE [Fifo!Next]_(Fifo!vars)
  OBVIOUS
<1> USE RxAssumption DEF RxInv, TypeOK
<1> DEFINE content == Contents(rxQueue, rxHead, rxTail, RxCapacity)
<1>a. Len(content) = Used(rxHead, rxTail, RxCapacity)
  BY ContentsLength
<1>1. CASE RxStore
  <2>1. PICK f \in RxFrames : rxQueue' = [rxQueue EXCEPT ![rxHead] = Whole(f)]
    BY <1>1 DEF RxStore
  <2>2. ~RingFull(rxHead, rxTail, RxCapacity) /\ Whole(f) \in Slots
    BY <1>1 DEF RxStore, RxFull, Whole, Slots
  <2>3. content' = Append(content, Whole(f))
    BY <1>1, <2>1, StoredFrameIsLast DEF RxStore
  <2>4. Len(content) < RxCapacity - 1
    <3>1. /\ Used(rxHead, rxTail, RxCapacity) \in 0 .. RxCapacity - 1
          /\ Used(rxHead, rxTail, RxCapacity) # RxCapacity - 1
      BY <2>2, RingIndices
    <3> QED
      BY <1>a, <3>1
  <2>5. Fifo!Put
    BY <1>1, <2>3, <2>4 DEF RxStore, Fifo!Put
  <2> QED
    BY <2>5 DEF Fifo!Next
<1>2. CASE RxDrop
  <2>1. Len(content) = RxCapacity - 1
    BY <1>2, <1>a, RingIndices DEF RxDrop, RxFull
  <2>2. Fifo!Lose
    BY <1>2, <2>1 DEF RxDrop, Fifo!Lose
  <2> QED
    BY <2>2 DEF Fifo!Next
<1>3. CASE Advance
  <2>1. rxTail # rxHead /\ frame = rxQueue[rxTail]
    BY <1>3 DEF Advance, CopyInv, RxEmpty, Slots
  <2>2. /\ content # <<>>
        /\ Head(content) = rxQueue[rxTail]
        /\ Contents(rxQueue, rxHead, NextIndex(rxTail, RxCapacity), RxCapacity) = Tail(content)
    BY <2>1, ContentsGet
  <2>3. Fifo!Get
    BY <1>3, <2>1, <2>2 DEF Advance, Fifo!Get
  <2> QED
    BY <2>3 DEF Fifo!Next
<1>4. CASE Reinit
  <2>1. content' = <<>>
    BY <1>4 DEF Reinit, Contents, Used
  <2>2. Fifo!Flush
    BY <1>4, <2>1 DEF Reinit, Fifo!Flush
  <2> QED
    BY <2>2 DEF Fifo!Next
<1>5. CASE PassStart \/ PassEnd \/ PopStart \/ CopyHead \/ CopyBody \/ UNCHANGED vars
  BY <1>5 DEF PassStart, PassEnd, PopStart, CopyHead, CopyBody, vars, ringVars, Fifo!vars
<1> QED
  BY <1>1, <1>2, <1>3, <1>4, <1>5 DEF Next, Pass

\* The receive ring is a queue: frames come out whole, once and in order, and
\* only a full ring loses one (uds_stm32_can_rx_from_isr, uds_stm32_can_rx_pop).
THEOREM ReceiveRingIsFifo == Spec => RxIsFifo
<1>1. Init => Fifo!Init
  BY RxAssumption DEF Init, Fifo!Init, Contents, Used
<1>2. RxInv /\ [Next]_vars => RxInv'
  BY RxStep
<1>3. RxInv /\ [Next]_vars => [Fifo!Next]_(Fifo!vars)
  BY RxRefinementStep
<1> QED
  BY RxInit, <1>1, <1>2, <1>3, PTL DEF Spec, RxIsFifo, Fifo!Spec
=============================================================================
