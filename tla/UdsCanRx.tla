------------------------------ MODULE UdsCanRx ------------------------------
(***************************************************************************)
(* The receive side of the UDS CAN adapter (uds_stm32.c): a ring from the  *)
(* FIFO1 interrupt to the mainline, in the pass that drains it             *)
(* (CANopenReference_UDS_Process).                                         *)
(*                                                                         *)
(* A frame in the ring has a header (id, dlc) and a body (data), copied    *)
(* one after the other by a mainline the interrupt may preempt; the        *)
(* interrupt itself runs to completion.  Counters nothing in the code      *)
(* reads back, all but rx_overflow, are left out, and so are the frames    *)
(* the adapter ignores.                                                    *)
(***************************************************************************)
EXTENDS FrameRing

CONSTANTS
  RxFrames,    \* what the bus may bring on the two UDS identifiers
  NoFrame,     \* the zeroes of a slot never written
  RxCapacity,  \* UDS_STM32_RX_QUEUE_CAPACITY
  RxBudget,    \* UDS_STM32_RX_BUDGET_PER_CALL
  CounterMod   \* statistics counters wrap (2^32)

ASSUME RxAssumption ==
  /\ RxCapacity \in Nat /\ RxCapacity > 1
  /\ RxBudget \in Nat \ {0}
  /\ CounterMod \in Nat \ {0}

VARIABLES
  rxQueue, rxHead, rxTail, rxOverflow,
  frame,   \* what uds_stm32_can_rx_pop copies into
  popped,  \* what it last returned
  pc, budget

ringVars == <<rxQueue, rxHead, rxTail, rxOverflow>>
vars == <<ringVars, frame, popped, pc, budget>>

Whole(f) == [head |-> f, body |-> f]

Slots == [head: RxFrames \cup {NoFrame}, body: RxFrames \cup {NoFrame}]

TypeOK ==
  /\ rxQueue \in [0 .. RxCapacity - 1 -> Slots]
  /\ rxHead \in 0 .. RxCapacity - 1 /\ rxTail \in 0 .. RxCapacity - 1
  /\ rxOverflow \in 0 .. CounterMod - 1
  /\ frame \in Slots /\ popped \in Slots
  /\ pc \in {"idle", "pop", "copy_head", "copy_body", "advance"}
  /\ budget \in 0 .. RxBudget

ZeroQueue == [i \in 0 .. RxCapacity - 1 |-> Whole(NoFrame)]

Init ==
  /\ rxQueue = ZeroQueue /\ rxHead = 0 /\ rxTail = 0 /\ rxOverflow = 0
  /\ frame = Whole(NoFrame) /\ popped = Whole(NoFrame)
  /\ pc = "idle" /\ budget = 0

-----------------------------------------------------------------------------
\* uds_stm32_can_rx_from_isr, for a valid frame with one of the identifiers.
RxFull == RingFull(rxHead, rxTail, RxCapacity)

RxStore ==
  /\ ~RxFull
  /\ \E f \in RxFrames : rxQueue' = [rxQueue EXCEPT ![rxHead] = Whole(f)]
  /\ rxHead' = NextIndex(rxHead, RxCapacity)
  /\ UNCHANGED <<rxTail, rxOverflow, frame, popped, pc, budget>>

RxDrop ==
  /\ RxFull
  /\ rxOverflow' = (rxOverflow + 1) % CounterMod
  /\ UNCHANGED <<rxQueue, rxHead, rxTail, frame, popped, pc, budget>>

\* A new pass: a fresh budget of pops.
PassStart ==
  /\ pc = "idle"
  /\ pc' = "pop" /\ budget' = RxBudget
  /\ UNCHANGED <<ringVars, frame, popped>>

RxEmpty == rxTail = rxHead

\* The pass leaves the ring: it is empty, or the budget is used up ...
PassEnd ==
  /\ pc = "pop" /\ (budget = 0 \/ RxEmpty)
  /\ pc' = "idle"
  /\ UNCHANGED <<ringVars, frame, popped, budget>>

\* ... or uds_stm32_can_rx_pop copies a frame out of its slot ...
PopStart ==
  /\ pc = "pop" /\ budget > 0 /\ ~RxEmpty
  /\ pc' = "copy_head"
  /\ UNCHANGED <<ringVars, frame, popped, budget>>

CopyHead ==
  /\ pc = "copy_head"
  /\ frame' = [frame EXCEPT !.head = rxQueue[rxTail].head]
  /\ pc' = "copy_body"
  /\ UNCHANGED <<ringVars, popped, budget>>

CopyBody ==
  /\ pc = "copy_body"
  /\ frame' = [frame EXCEPT !.body = rxQueue[rxTail].body]
  /\ pc' = "advance"
  /\ UNCHANGED <<ringVars, popped, budget>>

\* Mutant of Advance: the slot is not given back.
AdvanceForgets ==
  /\ pc = "advance"
  /\ popped' = frame
  /\ budget' = budget - 1
  /\ pc' = "pop"
  /\ UNCHANGED <<ringVars, frame>>

\* ... and only then gives the slot back.
Advance ==
  /\ pc = "advance"
  /\ rxTail' = NextIndex(rxTail, RxCapacity)
  /\ popped' = frame
  /\ budget' = budget - 1
  /\ pc' = "pop"
  /\ UNCHANGED <<rxQueue, rxHead, rxOverflow, frame>>

\* A communication reset sets the adapter up anew (memset, bind) between two
\* passes, while CAN is stopped.
Reinit ==
  /\ pc = "idle"
  /\ rxQueue' = ZeroQueue /\ rxHead' = 0 /\ rxTail' = 0 /\ rxOverflow' = 0
  /\ UNCHANGED <<frame, popped, pc, budget>>

Pass == PassStart \/ PassEnd \/ PopStart \/ CopyHead \/ CopyBody \/ Advance

Next == Pass \/ Reinit \/ RxStore \/ RxDrop

\* The superloop calls UDS_Process again and again.
Spec == Init /\ [][Next]_vars /\ WF_vars(Pass)

-----------------------------------------------------------------------------
(* What the receive side promises *)

Fifo == INSTANCE FrameFifo WITH
  Frames <- {Whole(f) : f \in RxFrames},
  Capacity <- RxCapacity - 1,
  queue <- Contents(rxQueue, rxHead, rxTail, RxCapacity),
  taken <- popped,
  lost <- rxOverflow

\* uds_stm32_can_rx_pop returns frames as the interrupt stored them, whole,
\* once and in order, whatever arrives while it copies; one is dropped only
\* when the ring is full, and then counted.
RxIsFifo == Fifo!Spec

\* A full ring is drained: the budget ends a pass, never the service.
FullIsDrained == RxFull ~> ~RxFull
=============================================================================
