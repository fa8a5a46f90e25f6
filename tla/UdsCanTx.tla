------------------------------ MODULE UdsCanTx ------------------------------
(***************************************************************************)
(* The transmit side of the UDS CAN adapter (uds_stm32.c): a ring the      *)
(* mainline pass fills (CANopenReference_UDS_Process) and then empties     *)
(* into the controller's transmit mailboxes, which the TPDOs of the TIM7   *)
(* interrupt take too.                                                     *)
(*                                                                         *)
(* A frame is its place in the order the mainline queued it in.  Counters  *)
(* nothing in the code reads back, all but tx_overflow, are left out.      *)
(***************************************************************************)
EXTENDS FrameRing

CONSTANTS
  TxCapacity,   \* UDS_STM32_TX_QUEUE_CAPACITY
  Answers,      \* frames one pass may queue: one per popped frame, and one
  TxBudget,     \* UDS_STM32_TX_BUDGET_PER_CALL
  CounterMod,   \* statistics counters wrap (2^32)
  SerialMod,    \* frames are numbered modulo SerialMod
  Mailboxes,    \* transmit mailboxes, in order
  NoFrame, Free, Tpdo, NoMailbox

ASSUME TxAssumption ==
  /\ TxCapacity \in Nat /\ TxCapacity > 1
  /\ {Answers, TxBudget, CounterMod, SerialMod} \subseteq Nat \ {0}
  /\ Mailboxes \subseteq Nat /\ NoMailbox \notin Nat
  /\ {NoFrame, Free, Tpdo} \cap Nat = {} /\ Free # Tpdo

VARIABLES
  txQueue, txHead, txTail, txOverflow,
  serial,      \* number of the next frame accepted into the ring
  submitted,   \* last frame given to a mailbox
  mailbox,     \* what each mailbox holds
  onBus,       \* the mailbox being transmitted
  sent,        \* last UDS frame the bus has carried
  pc, budget

ringVars == <<txQueue, txHead, txTail, txOverflow, serial>>
busVars  == <<onBus, sent>>
vars == <<ringVars, submitted, mailbox, busVars, pc, budget>>

Serials == 0 .. SerialMod - 1

TypeOK ==
  /\ txQueue \in [0 .. TxCapacity - 1 -> Serials \cup {NoFrame}]
  /\ txHead \in 0 .. TxCapacity - 1 /\ txTail \in 0 .. TxCapacity - 1
  /\ txOverflow \in 0 .. CounterMod - 1
  /\ serial \in Serials /\ sent \in Serials /\ submitted \in Serials \cup {NoFrame}
  /\ mailbox \in [Mailboxes -> Serials \cup {Free, Tpdo}]
  /\ onBus \in Mailboxes \cup {NoMailbox}
  /\ pc \in {"idle", "queue", "check", "submit"} /\ budget \in Nat

ZeroQueue == [i \in 0 .. TxCapacity - 1 |-> NoFrame]

Init ==
  /\ txQueue = ZeroQueue /\ txHead = 0 /\ txTail = 0 /\ txOverflow = 0
  /\ serial = 0 /\ submitted = NoFrame /\ sent = SerialMod - 1
  /\ mailbox = [m \in Mailboxes |-> Free] /\ onBus = NoMailbox
  /\ pc = "idle" /\ budget = 0

-----------------------------------------------------------------------------
(* The mailboxes, shared with TIM7 *)

NoneFree == \A m \in Mailboxes : mailbox[m] # Free

\* HAL_CAN_AddTxMessage takes the first free mailbox.
AddTxMessage(content) ==
  \E m \in Mailboxes :
    /\ mailbox[m] = Free /\ \A n \in Mailboxes : n < m => mailbox[n] # Free
    /\ mailbox' = [mailbox EXCEPT ![m] = content]

TpdoIsr ==
  /\ AddTxMessage(Tpdo)
  /\ UNCHANGED <<ringVars, submitted, busVars, pc, budget>>

\* The controller transmits the lowest identifier first, and the same
\* identifier in the order of the mailboxes' numbers (TransmitFifoPriority is
\* disabled); every TPDO has a lower identifier than the UDS response.
Prior(m) ==
  IF mailbox[m] = Tpdo THEN TRUE
  ELSE \A n \in Mailboxes : mailbox[n] # Tpdo /\ (n < m => mailbox[n] = Free)

BusStart ==
  /\ onBus = NoMailbox
  /\ \E m \in Mailboxes : mailbox[m] # Free /\ Prior(m) /\ onBus' = m
  /\ UNCHANGED <<ringVars, submitted, mailbox, sent, pc, budget>>

\* Another node wins the arbitration: all mailboxes compete again.
BusLost ==
  /\ onBus # NoMailbox
  /\ onBus' = NoMailbox
  /\ UNCHANGED <<ringVars, submitted, mailbox, sent, pc, budget>>

BusDone ==
  /\ onBus # NoMailbox
  /\ sent' = IF mailbox[onBus] = Tpdo THEN sent ELSE mailbox[onBus]
  /\ mailbox' = [mailbox EXCEPT ![onBus] = Free]
  /\ onBus' = NoMailbox
  /\ UNCHANGED <<ringVars, submitted, pc, budget>>

-----------------------------------------------------------------------------
(* The pass *)

PassStart ==
  /\ pc = "idle"
  /\ pc' = "queue" /\ budget' = Answers
  /\ UNCHANGED <<ringVars, submitted, mailbox, busVars>>

TxFull == RingFull(txHead, txTail, TxCapacity)

\* uds_stm32_can_tx_queue
QueueStore ==
  /\ pc = "queue" /\ budget > 0 /\ ~TxFull
  /\ txQueue' = [txQueue EXCEPT ![txHead] = serial]
  /\ txHead' = NextIndex(txHead, TxCapacity)
  /\ serial' = (serial + 1) % SerialMod
  /\ budget' = budget - 1
  /\ UNCHANGED <<txTail, txOverflow, submitted, mailbox, busVars, pc>>

\* ... a frame that finds the ring full is dropped.
QueueDrop ==
  /\ pc = "queue" /\ budget > 0 /\ TxFull
  /\ txOverflow' = (txOverflow + 1) % CounterMod
  /\ budget' = budget - 1
  /\ UNCHANGED <<txQueue, txHead, txTail, serial, submitted, mailbox, busVars, pc>>

\* uds_stm32_can_process_tx: the loop begins ...
ProcessTx ==
  /\ pc = "queue"
  /\ pc' = "check" /\ budget' = TxBudget
  /\ UNCHANGED <<ringVars, submitted, mailbox, busVars>>

TxEmpty == txTail = txHead

\* ... it ends when there is nothing to send or nowhere to put it ...
TxDone ==
  /\ pc = "check" /\ (budget = 0 \/ TxEmpty \/ NoneFree)
  /\ pc' = "idle"
  /\ UNCHANGED <<ringVars, submitted, mailbox, busVars, budget>>

TxFound ==
  /\ pc = "check" /\ budget > 0 /\ ~TxEmpty /\ ~NoneFree
  /\ pc' = "submit"
  /\ UNCHANGED <<ringVars, submitted, mailbox, busVars, budget>>

\* ... otherwise the oldest frame goes to a mailbox ...
TxSubmit ==
  /\ pc = "submit"
  /\ AddTxMessage(txQueue[txTail])
  /\ submitted' = txQueue[txTail]
  /\ txTail' = NextIndex(txTail, TxCapacity)
  /\ budget' = budget - 1 /\ pc' = "check"
  /\ UNCHANGED <<txQueue, txHead, txOverflow, serial, busVars>>

\* Mutant of TxRefused: the frame is given up.
TxRefusedDrops ==
  /\ pc = "submit" /\ NoneFree
  /\ txTail' = NextIndex(txTail, TxCapacity)
  /\ pc' = "idle"
  /\ UNCHANGED <<txQueue, txHead, txOverflow, serial, submitted, mailbox, busVars, budget>>

\* ... unless TIM7 has taken the last one since it was looked at.
TxRefused ==
  /\ pc = "submit" /\ NoneFree
  /\ pc' = "idle"
  /\ UNCHANGED <<ringVars, submitted, mailbox, busVars, budget>>

\* A communication reset sets the adapter up anew between two passes; the
\* stopped controller keeps or discards what the mailboxes hold.
Reinit ==
  /\ pc = "idle"
  /\ txQueue' = ZeroQueue /\ txHead' = 0 /\ txTail' = 0 /\ txOverflow' = 0
  /\ mailbox' \in {mailbox, [m \in Mailboxes |-> Free]}
  /\ onBus' = NoMailbox
  /\ UNCHANGED <<serial, submitted, sent, pc, budget>>

Pass == PassStart \/ QueueStore \/ QueueDrop \/ ProcessTx \/ TxDone \/ TxFound
        \/ TxSubmit \/ TxRefused

Bus == BusStart \/ BusDone

Next == Pass \/ Reinit \/ TpdoIsr \/ Bus \/ BusLost

\* The superloop calls UDS_Process again and again.
Spec == Init /\ [][Next]_vars /\ WF_vars(Pass)

-----------------------------------------------------------------------------
(* What the transmit side promises *)

Fifo == INSTANCE FrameFifo WITH
  Frames <- Serials,
  Capacity <- TxCapacity - 1,
  queue <- Contents(txQueue, txHead, txTail, TxCapacity),
  taken <- submitted,
  lost <- txOverflow

\* Mailboxes are given the frames in the order they were queued, each once,
\* and a mailbox lost to a TPDO between the look and the submission loses none.
TxIsFifo == Fifo!Spec

\* The bus carries the frames of a response in the order they were queued
\* (11_uds_iso_tp.md:37, "emits consecutive frames"): none overtakes one that
\* still waits.  In the code a frame may be given a lower mailbox than an
\* earlier one, and the bus before it.
Older(a, b) == (b + SerialMod - a) % SerialMod \in 1 .. SerialMod \div 2

SentInOrder ==
  [][sent' # sent =>
       \A m \in Mailboxes : mailbox[m] \in Serials => ~Older(mailbox[m], sent')]_vars
=============================================================================
