----------------------------- MODULE FrameRing -----------------------------
(***************************************************************************)
(* The index arithmetic of the single-producer single-consumer rings of    *)
(* uds_stm32.c: head is where the producer writes next, tail where the     *)
(* consumer reads next, and one slot always stays free.                    *)
(***************************************************************************)
EXTENDS Naturals, Sequences

\* Mutant of NextIndex: the wrap is off by one.
NextIndexLate(index, capacity) == IF index = capacity THEN 0 ELSE index + 1

NextIndex(index, capacity) == IF index + 1 = capacity THEN 0 ELSE index + 1

\* Mutant of RingFull: the head may catch up with the tail.
RingFullNever(head, tail, capacity) == FALSE

RingFull(head, tail, capacity) == NextIndex(head, capacity) = tail

\* The abstract content of a ring.
Used(head, tail, capacity) ==
  IF tail <= head THEN head - tail ELSE head + capacity - tail

Place(tail, k, capacity) ==
  IF tail + k - 1 < capacity THEN tail + k - 1 ELSE tail + k - 1 - capacity

Contents(slots, head, tail, capacity) ==
  [k \in 1 .. Used(head, tail, capacity) |-> slots[Place(tail, k, capacity)]]
=============================================================================
