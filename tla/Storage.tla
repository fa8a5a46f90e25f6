------------------------------ MODULE Storage ------------------------------
(***************************************************************************)
(* The flash back end of OD 1010h/1011h (canopen_reference_storage.c): two *)
(* slots, each a sector of its own, the older of which is erased and       *)
(* programmed word by word while the power may fail, the magic word last.  *)
(*                                                                         *)
(* A payload is two words; its CRC tells any other payload from it.  A     *)
(* word that loses its power while it is programmed reads as anything.  An *)
(* erase that is cut off leaves each word of the sector as it was or       *)
(* erased.  The minimum store interval is zero, as configured by default.  *)
(***************************************************************************)
EXTENDS Naturals, Sequences

CONSTANTS
  Halves,     \* what one word of the payload can hold
  Defaults,   \* the payload compiled in
  SeqMod,     \* the sequence number wraps (2^32)
  MaxStores,  \* the erase cycles the flash is good for
  Present, Erased, Torn, NoPayload

Payloads == Halves \X Halves

\* What a word reads as that is no part of a payload.
Marks == {Present, Erased, Torn}

ASSUME StorageAssumption ==
  /\ Defaults \in Payloads
  /\ SeqMod \in Nat /\ MaxStores \in Nat /\ MaxStores + 1 < SeqMod \div 2
  /\ Marks \cap (Halves \cup ((Halves \cup Marks) \X (Halves \cup Marks))) = {}
  /\ Present # Erased /\ Present # Torn /\ NoPayload \notin Payloads

\* canopen_reference_storage_image_t, in the order the words are programmed: the
\* magic word is the first of the structure and the last to be written.
Words == <<"version", "sequence", "length", "crc32", "low", "high", "magic">>

WordNames == {"magic", "version", "sequence", "length", "crc32", "low", "high"}

Sequences32 == 0 .. SeqMod - 1

\* 0xFFFFFFFF is a sequence number like any other.
ErasedSlot ==
  [magic |-> Erased, version |-> Erased, length |-> Erased, sequence |-> SeqMod - 1,
   crc32 |-> Erased, low |-> Erased, high |-> Erased]

VARIABLES
  flash,   \* the two slots
  ram,     \* OD_PERSIST_COMM
  pc,      \* "off", "idle", or where storage_flash_store is
  target,  \* the slot being written
  image,   \* what is being written there
  next,    \* the word to be programmed next
  stores,  \* sectors erased so far
  answer   \* what the last access to 1010h was told

storeVars == <<target, image, next>>
vars == <<flash, ram, pc, storeVars, stores, answer>>

Init ==
  /\ flash = [s \in {"A", "B"} |-> ErasedSlot]
  /\ ram = Defaults /\ pc = "off"
  /\ target = "A" /\ image = ErasedSlot /\ next = 1
  /\ stores = 0 /\ answer = "none"

-----------------------------------------------------------------------------
(* The slots *)

Payload(slot) == <<slot.low, slot.high>>

\* storage_flash_valid
Valid(slot) ==
  /\ slot.magic = Present /\ slot.version = Present /\ slot.length = Present
  /\ slot.crc32 = Payload(slot)

\* Mutant of NotBehind: the sequence numbers are compared as they are.
NotBehindUnsigned(a, b) == a >= b

\* (int32_t)(a - b) >= 0
NotBehind(a, b) == IF a >= b THEN a - b < SeqMod \div 2 ELSE b - a > SeqMod \div 2

\* storage_flash_newest
Newest ==
  IF Valid(flash["A"]) /\ (Valid(flash["B"]) =>
                             NotBehind(flash["A"].sequence, flash["B"].sequence))
  THEN "A"
  ELSE IF Valid(flash["B"]) THEN "B" ELSE "none"

Stored == IF Newest = "none" THEN NoPayload ELSE Payload(flash[Newest])

\* Mutant of NextSequence: the sequence goes on from the slot that is replaced.
NextSequenceOfTarget == flash[IF Newest = "A" THEN "B" ELSE "A"].sequence + 1

\* storage_flash_next_sequence
NextSequence == IF Newest = "none" THEN 1 ELSE (flash[Newest].sequence + 1) % SeqMod

Target == IF Newest = "A" THEN "B" ELSE "A"

\* The image to be written, with its CRC.
ImageOf(payload) ==
  [magic |-> Present, version |-> Present, length |-> Present, sequence |-> NextSequence,
   crc32 |-> payload, low |-> payload[1], high |-> payload[2]]

-----------------------------------------------------------------------------
(* storage_flash_store *)

Report(result) == answer' = result /\ target' = "A" /\ image' = ErasedSlot /\ next' = 1

\* 1010h: the spare slot is chosen and the image made of the parameters.
StoreStart ==
  /\ pc = "idle" /\ stores < MaxStores
  /\ pc' = "erase" /\ stores' = stores + 1
  /\ target' = Target /\ image' = ImageOf(ram) /\ next' = 1
  /\ UNCHANGED <<flash, ram, answer>>

\* HAL_FLASH_Unlock fails.
StoreRefused ==
  /\ pc = "idle"
  /\ Report("error")
  /\ UNCHANGED <<flash, ram, pc, stores>>

Erase ==
  /\ pc = "erase"
  /\ flash' = [flash EXCEPT ![target] = ErasedSlot]
  /\ pc' = "program"
  /\ UNCHANGED <<ram, storeVars, stores, answer>>

\* Part of the sector has been erased.
PartlyErased ==
  \E done \in SUBSET WordNames :
    flash' = [flash EXCEPT ![target] =
                [w \in WordNames |-> IF w \in done THEN ErasedSlot[w] ELSE @[w]]]

EraseFails ==
  /\ pc = "erase"
  /\ PartlyErased
  /\ pc' = "idle" /\ Report("error")
  /\ UNCHANGED <<ram, stores>>

Programmed(value) == flash' = [flash EXCEPT ![target][Words[next]] = value]

ProgramWord ==
  /\ pc = "program" /\ next < Len(Words)
  /\ Programmed(image[Words[next]])
  /\ next' = next + 1
  /\ UNCHANGED <<ram, pc, target, image, stores, answer>>

ProgramLast ==
  /\ pc = "program" /\ next = Len(Words)
  /\ Programmed(image[Words[next]])
  /\ pc' = "idle" /\ Report("ok")
  /\ UNCHANGED <<ram, stores>>

\* The word is programmed or not, or neither.
PartlyProgrammed ==
  \/ UNCHANGED flash
  \/ Programmed(image[Words[next]])
  \/ \E v \in IF Words[next] = "sequence" THEN Sequences32 ELSE {Torn} : Programmed(v)

ProgramFails ==
  /\ pc = "program"
  /\ PartlyProgrammed
  /\ pc' = "idle" /\ Report("error")
  /\ UNCHANGED <<ram, stores>>

-----------------------------------------------------------------------------
(* The parameters *)

\* CANopenReferenceStorage_Init, at start and in every communication reset.
StorageInit ==
  /\ pc \in {"off", "idle"}
  /\ pc' = "idle"
  /\ ram' = IF Newest = "none" THEN ram ELSE Stored
  /\ UNCHANGED <<flash, storeVars, stores, answer>>

\* 1011h: the factory defaults are used if nothing has been stored.
Restore ==
  /\ pc = "idle"
  /\ ram' = IF Newest = "none" THEN Defaults ELSE Stored
  /\ UNCHANGED <<flash, pc, storeVars, stores, answer>>

\* An SDO download changes a communication parameter.
Download ==
  /\ pc = "idle"
  /\ ram' \in Payloads
  /\ UNCHANGED <<flash, pc, storeVars, stores, answer>>

\* The power fails or the node is reset, whatever it is doing.
PowerLoss ==
  /\ pc # "off" /\ pc' = "off"
  /\ CASE pc = "erase" -> PartlyErased
       [] pc = "program" -> PartlyProgrammed
       [] OTHER -> UNCHANGED flash
  /\ ram' = Defaults
  /\ Report("none")
  /\ UNCHANGED stores

Next ==
  \/ StoreStart \/ StoreRefused \/ Erase \/ EraseFails
  \/ ProgramWord \/ ProgramLast \/ ProgramFails
  \/ StorageInit \/ Restore \/ Download \/ PowerLoss

Spec == Init /\ [][Next]_vars

-----------------------------------------------------------------------------
(* What the storage promises *)

SlotValues == [magic: Marks, version: Marks, length: Marks, sequence: Sequences32,
               crc32: Payloads \cup Marks, low: Halves \cup Marks, high: Halves \cup Marks]

TypeOK ==
  /\ flash \in [{"A", "B"} -> SlotValues]
  /\ ram \in Payloads
  /\ pc \in {"off", "idle", "erase", "program"}
  /\ target \in {"A", "B"} /\ next \in 1 .. Len(Words)
  /\ image \in SlotValues
  /\ stores \in 0 .. MaxStores
  /\ answer \in {"none", "ok", "error"}

Register == INSTANCE PersistentRegister WITH
  Values <- Payloads, NoValue <- NoPayload,
  value <- Stored,
  storing <- IF pc \in {"erase", "program"} THEN ram ELSE NoPayload

\* Whatever step of a store the power fails in, the next start finds the
\* parameters of the last store or of the one before, whole; a store reported
\* as done is found (docs/flash_qualification.md:9-17).
StoresAtomically == Register!Spec
=============================================================================
