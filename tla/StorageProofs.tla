--------------------------- MODULE StorageProofs ---------------------------
(***************************************************************************)
(* For every set of payload words, range of sequence numbers and number of *)
(* stores the flash is good for, storage implements PersistentRegister:    *)
(* what the run of Storage checks on one instance.                         *)
(*                                                                         *)
(* The invariant that carries the proof names the slot in use: valid, with *)
(* a sequence number the stores so far account for, and ahead of the other *)
(* slot's, unless that one reads as erased.  The slot being written is the *)
(* other one, and it is not valid before its last word.                    *)
(***************************************************************************)
EXTENDS Storage, TLAPS

SlotNames == {"A", "B"}

Other(s) == IF s = "A" THEN "B" ELSE "A"

\* The definitions of Storage, for any contents of the flash.
NewestIn(f) ==
  IF Valid(f["A"]) /\ (Valid(f["B"]) => NotBehind(f["A"].sequence, f["B"].sequence))
  THEN "A"
  ELSE IF Valid(f["B"]) THEN "B" ELSE "none"

StoredIn(f) == IF NewestIn(f) = "none" THEN NoPayload ELSE Payload(f[NewestIn(f)])

Empty(f) == \A s \in SlotNames : ~Valid(f[s])

Current(f, s, count) ==
  /\ Valid(f[s]) /\ f[s].sequence \in 1 .. count
  /\ Valid(f[Other(s)]) => f[Other(s)].sequence \in (1 .. f[s].sequence - 1) \cup {SeqMod - 1}

Storing == pc \in {"erase", "program"}

\* Stores whose image may be complete.
Completed == IF Storing THEN stores - 1 ELSE stores

SlotInv == Empty(flash) \/ \E s \in SlotNames : Current(flash, s, Completed)

StoreInv ==
  /\ Storing => target = Target /\ image = ImageOf(ram) /\ stores > 0
  /\ pc = "erase" => next = 1
  /\ pc = "program" =>
       /\ flash[target].magic = Erased
       /\ \A i \in 1 .. next - 1 : flash[target][Words[i]] = image[Words[i]]

StorageInv == TypeOK /\ SlotInv /\ StoreInv

-----------------------------------------------------------------------------
(* Slots *)

\* The slot in use is the one the code takes for the newest.
LEMMA CurrentIsNewest ==
  ASSUME NEW f \in [SlotNames -> SlotValues], NEW s \in SlotNames,
         NEW count \in Nat, count <= MaxStores, Current(f, s, count)
  PROVE  NewestIn(f) = s /\ StoredIn(f) = Payload(f[s])
<1>1. \A r \in SlotNames : f[r].sequence \in Sequences32
  BY DEF SlotValues
<1>2. \A n \in 1 .. count : \A m \in (1 .. n - 1) \cup {SeqMod - 1} :
        NotBehind(n, m) /\ ~NotBehind(m, n)
  BY StorageAssumption DEF NotBehind
<1>3. CASE s = "A"
  BY <1>1, <1>2, <1>3 DEF NewestIn, StoredIn, Current, Other
<1>4. CASE s = "B"
  BY <1>1, <1>2, <1>4 DEF NewestIn, StoredIn, Current, Other
<1> QED
  BY <1>3, <1>4 DEF SlotNames

\* Without a valid slot nothing is stored.
LEMMA EmptyHasNone ==
  ASSUME NEW f, Empty(f)
  PROVE  NewestIn(f) = "none" /\ StoredIn(f) = NoPayload
  BY DEF Empty, NewestIn, StoredIn, SlotNames

\* The CRC of a valid slot is that of its payload, so it holds a payload.
LEMMA ValidPayload ==
  ASSUME NEW slot \in SlotValues, Valid(slot)
  PROVE  Payload(slot) \in Payloads
<1>1. slot.crc32 \in Payloads \cup Marks
  BY DEF SlotValues
<1>2. slot.low \in Halves \cup Marks /\ slot.high \in Halves \cup Marks
  BY DEF SlotValues
<1>3. Payload(slot) \in (Halves \cup Marks) \X (Halves \cup Marks)
  BY <1>2 DEF Payload
<1>4. Payload(slot) \notin Marks
  BY <1>3, StorageAssumption
<1> QED
  BY <1>1, <1>4 DEF Valid

\* An erase that is cut off makes no slot valid; one that stays valid keeps its
\* sequence number or reads as erased.
LEMMA PartOfAnErase ==
  ASSUME NEW slot \in SlotValues, NEW done \in SUBSET WordNames,
         NEW after, after = [w \in WordNames |-> IF w \in done THEN ErasedSlot[w] ELSE slot[w]]
  PROVE  /\ after \in SlotValues
         /\ Valid(after) => Valid(slot) /\ after.sequence \in {slot.sequence, SeqMod - 1}
<1>1. ErasedSlot \in SlotValues
  BY StorageAssumption DEF ErasedSlot, SlotValues, Marks, Sequences32
<1>2. \A w \in WordNames : after[w] = ErasedSlot[w] \/ after[w] = slot[w]
  OBVIOUS
<1>3. after \in SlotValues
  BY <1>1 DEF SlotValues, WordNames
<1>4. ASSUME Valid(after) PROVE Valid(slot)
  <2>1. /\ after.magic = slot.magic /\ after.version = slot.version
        /\ after.length = slot.length
    BY <1>2, <1>4, StorageAssumption DEF Valid, ErasedSlot, WordNames
  <2>2. after.crc32 = <<after.low, after.high>>
    BY <1>4 DEF Valid, Payload
  <2>3. after.crc32 \in Payloads
    BY <1>3, <1>4, <2>2, ValidPayload DEF Payload
  <2>4. after.low \in Halves /\ after.high \in Halves
    BY <2>2, <2>3 DEF Payloads
  <2>5. after.crc32 # Erased /\ after.low # Erased /\ after.high # Erased
    BY <2>3, <2>4, StorageAssumption DEF Payloads, Marks
  <2>6. after.crc32 = slot.crc32 /\ after.low = slot.low /\ after.high = slot.high
    BY <1>2, <2>5 DEF ErasedSlot, WordNames
  <2> QED
    BY <1>4, <2>1, <2>6 DEF Valid, Payload
<1>5. after.sequence \in {slot.sequence, SeqMod - 1}
  BY <1>2 DEF ErasedSlot, WordNames
<1> QED
  BY <1>3, <1>4, <1>5

\* What is written to the slot that is not in use, short of a valid image,
\* changes neither the slot in use nor what is stored.
LEMMA SpareSlotIsFree ==
  ASSUME NEW f \in [SlotNames -> SlotValues], NEW g, NEW t \in SlotNames,
         NEW after \in SlotValues, g = [f EXCEPT ![t] = after],
         Valid(after) => Valid(f[t]) /\ after.sequence \in {f[t].sequence, SeqMod - 1},
         NEW count \in Nat, count <= MaxStores,
         Empty(f) \/ Current(f, Other(t), count)
  PROVE  /\ g \in [SlotNames -> SlotValues]
         /\ Empty(g) \/ Current(g, Other(t), count)
         /\ StoredIn(g) = StoredIn(f) /\ NewestIn(g) = NewestIn(f)
         /\ NewestIn(f) # "none" => g[NewestIn(f)] = f[NewestIn(f)]
<1>1. g \in [SlotNames -> SlotValues] /\ g[t] = after /\ g[Other(t)] = f[Other(t)]
  BY DEF Other, SlotNames
<1>2. Other(t) \in SlotNames /\ Other(Other(t)) = t
  BY DEF Other, SlotNames
<1>3. CASE Empty(f)
  <2>1. Empty(g)
    BY <1>1, <1>3 DEF Empty
  <2> QED
    BY <1>1, <1>3, <2>1, EmptyHasNone
<1>4. CASE Current(f, Other(t), count)
  <2>1. Current(g, Other(t), count)
    BY <1>1, <1>2, <1>4 DEF Current
  <2> QED
    BY <1>1, <1>2, <1>4, <2>1, CurrentIsNewest
<1> QED
  BY <1>3, <1>4

\* A complete image makes the slot it is written to the one in use.
LEMMA ImageBecomesCurrent ==
  ASSUME NEW f \in [SlotNames -> SlotValues], NEW g, NEW t \in SlotNames,
         NEW after \in SlotValues, g = [f EXCEPT ![t] = after],
         NEW count \in Nat, count < MaxStores, Valid(after),
         \/ Empty(f) /\ after.sequence = 1
         \/ Current(f, Other(t), count) /\ after.sequence = f[Other(t)].sequence + 1
  PROVE  /\ g \in [SlotNames -> SlotValues]
         /\ Current(g, t, count + 1)
         /\ StoredIn(g) = Payload(after)
<1>1. g \in [SlotNames -> SlotValues] /\ g[t] = after /\ g[Other(t)] = f[Other(t)]
  BY DEF Other, SlotNames
<1>2. Other(t) \in SlotNames /\ Other(Other(t)) = t
  BY DEF Other, SlotNames
<1>3. Current(g, t, count + 1)
  <2>1. CASE Empty(f) /\ after.sequence = 1
    BY <1>1, <1>2, <2>1 DEF Empty, Current
  <2>2. CASE Current(f, Other(t), count) /\ after.sequence = f[Other(t)].sequence + 1
    <3>1. f[Other(t)].sequence \in 1 .. after.sequence - 1 /\ after.sequence \in 1 .. count + 1
      BY <2>2 DEF Current
    <3> QED
      BY <1>1, <3>1 DEF Current
  <2> QED
    BY <2>1, <2>2
<1>4. count + 1 \in Nat /\ count + 1 <= MaxStores
  BY StorageAssumption
<1> QED
  BY <1>1, <1>3, <1>4, CurrentIsNewest

\* Slots are well typed whichever word is taken from another slot.
LEMMA WordOfASlot ==
  ASSUME NEW slot \in SlotValues, NEW source \in SlotValues, NEW w \in WordNames
  PROVE  [slot EXCEPT ![w] = source[w]] \in SlotValues
  BY DEF SlotValues, WordNames

\* The words are programmed in an order that ends with the magic word and leaves
\* none out.
LEMMA WordsAreNames ==
  /\ Len(Words) = 7 /\ Words[7] = "magic"
  /\ \A i \in 1 .. 7 : Words[i] \in WordNames
  /\ \A i \in 1 .. 6 : Words[i] # "magic"
  /\ \A w \in WordNames : \E i \in 1 .. 7 : w = Words[i]
<1>1. /\ Words[1] = "version" /\ Words[2] = "sequence" /\ Words[3] = "length"
      /\ Words[4] = "crc32" /\ Words[5] = "low" /\ Words[6] = "high" /\ Words[7] = "magic"
  BY DEF Words
<1>2. Len(Words) = 7
  BY DEF Words
<1>3. \A i \in 1 .. 7 : i = 1 \/ i = 2 \/ i = 3 \/ i = 4 \/ i = 5 \/ i = 6 \/ i = 7
  OBVIOUS
<1> QED
  BY <1>1, <1>2, <1>3 DEF WordNames

-----------------------------------------------------------------------------
(* The invariant and the refinement *)

\* Where the image goes and what it is.
LEMMA StoringFacts ==
  ASSUME StorageInv, Storing
  PROVE  /\ Empty(flash) \/ Current(flash, Other(target), stores - 1)
         /\ image \in SlotValues /\ Valid(image) /\ Payload(image) = ram
         /\ \/ Empty(flash) /\ image.sequence = 1
            \/ /\ Current(flash, Other(target), stores - 1)
               /\ image.sequence = flash[Other(target)].sequence + 1
<1> USE DEF StorageInv
<1>1. /\ flash \in [SlotNames -> SlotValues] /\ image \in SlotValues /\ ram \in Payloads
      /\ target = Target /\ image = ImageOf(ram)
      /\ stores - 1 \in Nat /\ stores - 1 <= MaxStores
  BY StorageAssumption DEF TypeOK, StoreInv, SlotNames
<1>2. Valid(image) /\ Payload(image) = ram
  BY <1>1 DEF ImageOf, Valid, Payload, Payloads
<1>3. image.sequence = NextSequence
  BY <1>1 DEF ImageOf
<1>4. CASE Empty(flash)
  BY <1>1, <1>2, <1>3, <1>4, EmptyHasNone DEF NextSequence, Newest, NewestIn
<1>5. ASSUME NEW s \in SlotNames, Current(flash, s, Completed)
      PROVE  /\ Current(flash, Other(target), stores - 1)
             /\ image.sequence = flash[Other(target)].sequence + 1
  <2>1. Completed = stores - 1
    BY DEF Completed
  <2>2. Newest = s
    BY <1>1, <1>5, <2>1, CurrentIsNewest DEF Newest, NewestIn
  <2>3. Other(target) = s
    BY <1>1, <2>2 DEF Target, Other, SlotNames
  <2>4. flash[s].sequence \in 1 .. stores - 1
    BY <1>5, <2>1 DEF Current
  <2>5. flash[s].sequence + 1 < SeqMod /\ flash[s].sequence + 1 \in Nat
    BY <1>1, <2>4, StorageAssumption
  <2>6. NextSequence = flash[s].sequence + 1
    BY <2>2, <2>5, StorageAssumption DEF NextSequence, SlotNames
  <2> QED
    BY <1>3, <1>5, <2>1, <2>3, <2>6
<1> QED
  BY <1>1, <1>2, <1>4, <1>5 DEF SlotInv

\* What is written to the target before its image is complete changes nothing
\* that a power-up reads, nor what the store goes on with.
LEMMA SpareStep ==
  ASSUME StorageInv, Storing, NEW after \in SlotValues,
         flash' = [flash EXCEPT ![target] = after],
         Valid(after) => /\ Valid(flash[target])
                         /\ after.sequence \in {flash[target].sequence, SeqMod - 1}
  PROVE  /\ flash' \in [SlotNames -> SlotValues] /\ flash'[target] = after
         /\ Empty(flash') \/ Current(flash', Other(target), stores - 1)
         /\ Stored' = Stored /\ Target' = Target /\ NextSequence' = NextSequence
<1>1. /\ flash \in [SlotNames -> SlotValues] /\ target \in SlotNames
      /\ stores - 1 \in Nat /\ stores - 1 <= MaxStores
  BY StorageAssumption DEF StorageInv, TypeOK, StoreInv, SlotNames
<1>2. Empty(flash) \/ Current(flash, Other(target), stores - 1)
  BY StoringFacts
<1>3. /\ flash' \in [SlotNames -> SlotValues]
      /\ Empty(flash') \/ Current(flash', Other(target), stores - 1)
      /\ StoredIn(flash') = StoredIn(flash) /\ NewestIn(flash') = NewestIn(flash)
      /\ NewestIn(flash) # "none" => flash'[NewestIn(flash)] = flash[NewestIn(flash)]
  BY <1>1, <1>2, SpareSlotIsFree
<1>4. Stored' = Stored /\ Newest' = Newest
  BY <1>3 DEF Stored, Newest, StoredIn, NewestIn
<1>5. NextSequence' = NextSequence
  BY <1>3, <1>4 DEF NextSequence, Newest, NewestIn
<1> QED
  BY <1>1, <1>3, <1>4, <1>5 DEF Target

\* The last word makes the target the slot in use, with the parameters stored.
LEMMA LastWord ==
  ASSUME StorageInv, pc = "program", next = 7, Programmed(image[Words[next]])
  PROVE  /\ flash' \in [SlotNames -> SlotValues]
         /\ Current(flash', target, stores) /\ Stored' = ram
<1> DEFINE after == [flash[target] EXCEPT ![Words[next]] = image[Words[next]]]
<1>1. /\ flash \in [SlotNames -> SlotValues] /\ target \in SlotNames
      /\ stores - 1 \in Nat /\ stores - 1 < MaxStores /\ stores \in Nat
  BY StorageAssumption DEF StorageInv, TypeOK, StoreInv, SlotNames, Storing
<1>2. /\ image \in SlotValues /\ Valid(image) /\ Payload(image) = ram
      /\ \/ Empty(flash) /\ image.sequence = 1
         \/ /\ Current(flash, Other(target), stores - 1)
            /\ image.sequence = flash[Other(target)].sequence + 1
  BY StoringFacts DEF Storing
<1>3. Words[next] \in WordNames
  BY WordsAreNames
<1>4. after \in SlotValues /\ flash' = [flash EXCEPT ![target] = after]
  BY <1>1, <1>2, <1>3, WordOfASlot DEF Programmed
<1>5. \A w \in WordNames : after[w] = image[w]
  <2>1. \A i \in 1 .. 6 : flash[target][Words[i]] = image[Words[i]]
    BY DEF StorageInv, StoreInv
  <2>2. flash[target] \in SlotValues
    BY <1>1
  <2>3. \A w \in WordNames : after[w] = IF w = Words[next] THEN image[Words[next]]
                                        ELSE flash[target][w]
    BY <2>2 DEF SlotValues, WordNames
  <2>4. \A i \in 1 .. 7 : i = 7 \/ i \in 1 .. 6
    OBVIOUS
  <2> QED
    BY <2>1, <2>3, <2>4, WordsAreNames
<1>6. Valid(after) /\ Payload(after) = ram /\ after.sequence = image.sequence
  BY <1>2, <1>5 DEF Valid, Payload, WordNames
<1>7. Current(flash', target, stores - 1 + 1) /\ StoredIn(flash') = ram
      /\ flash' \in [SlotNames -> SlotValues]
  <2> HIDE DEF after
  <2> QED
    BY <1>1, <1>2, <1>4, <1>6, ImageBecomesCurrent
<1>8. Stored' = StoredIn(flash')
  BY DEF Stored, Newest, StoredIn, NewestIn
<1> QED
  BY <1>1, <1>7, <1>8

\* A word before the last leaves the slot without its magic word.
LEMMA EarlierWord ==
  ASSUME StorageInv, pc = "program", next # 7, NEW v,
         [flash[target] EXCEPT ![Words[next]] = v] \in SlotValues, Programmed(v)
  PROVE  /\ flash' \in [SlotNames -> SlotValues]
         /\ flash'[target] = [flash[target] EXCEPT ![Words[next]] = v]
         /\ flash'[target].magic = Erased
         /\ Empty(flash') \/ Current(flash', Other(target), stores - 1)
         /\ Stored' = Stored /\ Target' = Target /\ NextSequence' = NextSequence
<1> DEFINE after == [flash[target] EXCEPT ![Words[next]] = v]
<1>1. /\ flash \in [SlotNames -> SlotValues] /\ target \in SlotNames /\ next \in 1 .. 6
  BY WordsAreNames DEF StorageInv, TypeOK, SlotNames
<1>2. flash' = [flash EXCEPT ![target] = after]
  BY <1>1 DEF Programmed
<1>3. after.magic = Erased
  BY <1>1, WordsAreNames DEF StorageInv, StoreInv, SlotValues
<1>4. ~Valid(after)
  BY <1>3, StorageAssumption DEF Valid
<1> HIDE DEF after
<1>5. after \in SlotValues
  BY DEF after
<1>6. Storing
  BY DEF Storing
<1> QED
  BY <1>2, <1>3, <1>4, <1>5, <1>6, SpareStep DEF after

\* A store that fails or is cut off has taken effect or has not.
LEMMA CutOff ==
  ASSUME StorageInv, \/ pc = "erase" /\ PartlyErased
                     \/ pc = "program" /\ PartlyProgrammed
  PROVE  /\ flash' \in [SlotNames -> SlotValues]
         /\ Empty(flash') \/ \E s \in SlotNames : Current(flash', s, stores)
         /\ Stored' = Stored \/ Stored' = ram
<1>1. /\ flash \in [SlotNames -> SlotValues] /\ target \in SlotNames /\ Other(target) \in SlotNames
      /\ flash[target] \in SlotValues /\ stores \in Nat /\ next \in 1 .. 7 /\ Storing
      /\ image \in SlotValues
  BY WordsAreNames DEF StorageInv, TypeOK, SlotNames, Storing, Other
<1>2. SUFFICES \/ /\ flash' \in [SlotNames -> SlotValues]
                  /\ Empty(flash') \/ Current(flash', Other(target), stores - 1)
                  /\ Stored' = Stored
               \/ /\ flash' \in [SlotNames -> SlotValues]
                  /\ Current(flash', target, stores) /\ Stored' = ram
  BY <1>1 DEF Current
<1>3. CASE pc = "erase" /\ PartlyErased
  <2>1. PICK done \in SUBSET WordNames :
          flash' = [flash EXCEPT ![target] =
                      [w \in WordNames |-> IF w \in done THEN ErasedSlot[w] ELSE @[w]]]
    BY <1>3 DEF PartlyErased
  <2> DEFINE after == [w \in WordNames |-> IF w \in done THEN ErasedSlot[w] ELSE flash[target][w]]
  <2>2. flash' = [flash EXCEPT ![target] = after]
    BY <1>1, <2>1
  <2>3. /\ after \in SlotValues
        /\ Valid(after) => /\ Valid(flash[target])
                           /\ after.sequence \in {flash[target].sequence, SeqMod - 1}
    BY <1>1, PartOfAnErase
  <2> HIDE DEF after
  <2> QED
    BY <1>1, <2>2, <2>3, SpareStep
<1>4. ASSUME pc = "program", UNCHANGED flash
      PROVE  /\ flash' \in [SlotNames -> SlotValues]
             /\ Empty(flash') \/ Current(flash', Other(target), stores - 1)
             /\ Stored' = Stored
  BY <1>1, <1>4, StoringFacts DEF Stored, Newest
<1>5. ASSUME pc = "program", NEW v, Programmed(v),
             v = image[Words[next]] \/ v \in (IF Words[next] = "sequence" THEN Sequences32 ELSE {Torn}),
             next # 7
      PROVE  /\ flash' \in [SlotNames -> SlotValues]
             /\ Empty(flash') \/ Current(flash', Other(target), stores - 1)
             /\ Stored' = Stored
  <2>1. Words[next] \in WordNames
    BY <1>1, WordsAreNames
  <2>2. [flash[target] EXCEPT ![Words[next]] = v] \in SlotValues
    <3>1. CASE v = image[Words[next]]
      BY <1>1, <2>1, <3>1, WordOfASlot
    <3>2. CASE v \in (IF Words[next] = "sequence" THEN Sequences32 ELSE {Torn})
      BY <1>1, <2>1, <3>2 DEF SlotValues, WordNames, Marks
    <3> QED
      BY <1>5, <3>1, <3>2
  <2> QED
    BY <1>5, <2>2, EarlierWord
<1>6. ASSUME pc = "program", Programmed(Torn), next = 7
      PROVE  /\ flash' \in [SlotNames -> SlotValues]
             /\ Empty(flash') \/ Current(flash', Other(target), stores - 1)
             /\ Stored' = Stored
  <2> DEFINE after == [flash[target] EXCEPT !.magic = Torn]
  <2>1. after \in SlotValues /\ after.magic = Torn
    BY <1>1 DEF SlotValues, Marks
  <2>2. flash' = [flash EXCEPT ![target] = after]
    BY <1>1, <1>6, WordsAreNames DEF Programmed
  <2>3. ~Valid(after)
    BY <2>1, StorageAssumption DEF Valid
  <2> HIDE DEF after
  <2> QED
    BY <1>1, <2>1, <2>2, <2>3, SpareStep
<1>7. ASSUME pc = "program", Programmed(image[Words[next]]), next = 7
      PROVE  /\ flash' \in [SlotNames -> SlotValues]
             /\ Current(flash', target, stores) /\ Stored' = ram
  BY <1>7, LastWord
<1>8. next = 7 => Words[next] # "sequence"
  BY WordsAreNames
<1> QED
  BY <1>3, <1>4, <1>5, <1>6, <1>7, <1>8 DEF PartlyProgrammed

-----------------------------------------------------------------------------
(* Every step *)

\* An erased flash holds nothing, as the register does.
LEMMA InitHoldsNothing == Init => StorageInv /\ Register!Init
<1> SUFFICES ASSUME Init PROVE StorageInv /\ Register!Init
  OBVIOUS
<1>1. ErasedSlot \in SlotValues /\ ErasedSlot.magic = Erased
  BY StorageAssumption DEF ErasedSlot, SlotValues, Marks, Sequences32
<1>2. Empty(flash)
  BY <1>1, StorageAssumption DEF Init, Empty, Valid, SlotNames
<1>3. TypeOK
  BY <1>1, WordsAreNames, StorageAssumption DEF Init, TypeOK
<1>4. SlotInv /\ StoreInv
  BY <1>2 DEF Init, SlotInv, StoreInv, Storing
<1>5. Stored = NoPayload
  BY <1>2, EmptyHasNone DEF Stored, Newest, StoredIn, NewestIn
<1> QED
  BY <1>3, <1>4, <1>5 DEF StorageInv, Init, Register!Init

\* What a power-up finds is a payload or nothing.
LEMMA StoredIsPayload ==
  ASSUME StorageInv
  PROVE  Newest # "none" => Stored \in Payloads
<1>1. flash \in [SlotNames -> SlotValues]
  BY DEF StorageInv, TypeOK, SlotNames
<1> QED
  BY <1>1, ValidPayload DEF Stored, Newest, SlotNames

\* A step that leaves the flash alone leaves all that is read from it.
LEMMA FlashAlone ==
  ASSUME UNCHANGED flash
  PROVE  Stored' = Stored /\ Newest' = Newest /\ Target' = Target /\ NextSequence' = NextSequence
  BY DEF Stored, Newest, Target, NextSequence, Valid, Payload

\* A step of the storage keeps the invariant and is a step of the register.
LEMMA StorageStep ==
  StorageInv /\ [Next]_vars => StorageInv' /\ [Register!Next]_(Register!vars)
<1> DEFINE storing == IF pc \in {"erase", "program"} THEN ram ELSE NoPayload
<1> SUFFICES ASSUME StorageInv, [Next]_vars
             PROVE  StorageInv' /\ [Register!Next]_(Register!vars)
  OBVIOUS
<1>1. /\ TypeOK /\ SlotInv /\ StoreInv
      /\ flash \in [SlotNames -> SlotValues]
      /\ ram \in Payloads /\ stores \in Nat /\ stores <= MaxStores /\ MaxStores \in Nat
      /\ Len(Words) = 7 /\ NoPayload \notin Payloads
      /\ target \in SlotNames /\ Other(target) \in SlotNames /\ next \in 1 .. 7
      /\ pc \in {"off", "idle", "erase", "program"} /\ image \in SlotValues
  BY WordsAreNames, StorageAssumption DEF StorageInv, TypeOK, SlotNames, Other
<1>2. ErasedSlot \in SlotValues /\ ErasedSlot.magic = Erased
  BY StorageAssumption DEF ErasedSlot, SlotValues, Marks, Sequences32
<1>3. CASE StoreStart
  <2>1. UNCHANGED <<flash, ram, answer>> /\ pc = "idle" /\ pc' = "erase"
    BY <1>3 DEF StoreStart
  <2>2. /\ Stored' = Stored /\ Target' = Target /\ NextSequence' = NextSequence
    BY <2>1, FlashAlone
  <2>3. target' = Target' /\ image' = ImageOf(ram)' /\ next' = 1 /\ stores' = stores + 1
    BY <1>3, <2>1, <2>2 DEF StoreStart, ImageOf
  <2>4. NextSequence \in Sequences32
    <3>1. Newest \in {"A", "B", "none"}
      BY DEF Newest
    <3>2. Newest # "none" => flash[Newest].sequence \in Sequences32
      BY <1>1, <3>1 DEF SlotNames, SlotValues
    <3>3. SeqMod \in Nat /\ SeqMod > 1
      BY StorageAssumption
    <3> QED
      BY <3>2, <3>3 DEF NextSequence, Sequences32
  <2>5. image' \in SlotValues
    BY <1>1, <1>3, <2>4 DEF StoreStart, ImageOf, SlotValues, Marks, Payloads
  <2>6. TypeOK'
    BY <1>1, <1>3, <2>1, <2>5 DEF StoreStart, TypeOK, Target
  <2>7. SlotInv' /\ StoreInv'
    <3>1. Completed' = stores /\ Completed = stores
      BY <1>1, <2>1, <2>3 DEF Completed, Storing
    <3>2. SlotInv'
      BY <1>1, <2>1, <3>1 DEF SlotInv
    <3>3. StoreInv'
      BY <1>1, <2>1, <2>3 DEF StoreInv
    <3> QED
      BY <3>2, <3>3
  <2>8. Register!Begin
    BY <1>1, <2>1, <2>2 DEF Register!Begin
  <2> QED
    BY <2>6, <2>7, <2>8 DEF StorageInv, Register!Next
<1>4. ASSUME UNCHANGED <<flash, stores>>, pc \in {"off", "idle"}, pc' \in {"off", "idle"},
             \/ UNCHANGED storeVars
             \/ target' = "A" /\ image' = ErasedSlot /\ next' = 1,
             ram' \in Payloads, answer' \in {"none", "ok", "error"}
      PROVE  StorageInv' /\ Stored' = Stored /\ storing = NoPayload /\ storing' = NoPayload
  <2>1. TypeOK'
    BY <1>1, <1>2, <1>4 DEF TypeOK, storeVars
  <2>2. Completed' = Completed
    BY <1>4 DEF Completed, Storing
  <2>3. SlotInv' /\ StoreInv'
    BY <1>1, <1>4, <2>2 DEF SlotInv, StoreInv, Storing
  <2> QED
    BY <1>4, <2>1, <2>3, FlashAlone DEF StorageInv
<1>5. CASE StoreRefused
  <2>1. StorageInv' /\ Stored' = Stored /\ storing' = NoPayload
    BY <1>1, <1>4, <1>5 DEF StoreRefused, Report
  <2> QED
    BY <1>5, <2>1 DEF StoreRefused, Report, Register!Next, Register!Fail
<1>6. CASE StorageInit \/ Restore \/ Download
  <2>1. ram' \in Payloads
    BY <1>1, <1>6, StoredIsPayload, StorageAssumption DEF StorageInit, Restore, Download
  <2>2. StorageInv' /\ Stored' = Stored /\ storing = NoPayload /\ storing' = NoPayload
    <3>1. /\ UNCHANGED <<flash, stores, storeVars, answer>>
          /\ pc \in {"off", "idle"} /\ pc' \in {"off", "idle"}
      BY <1>6 DEF StorageInit, Restore, Download, storeVars
    <3>2. answer \in {"none", "ok", "error"}
      BY <1>1 DEF TypeOK
    <3> QED
      BY <1>4, <2>1, <3>1, <3>2
  <2>3. answer' = answer
    BY <1>6 DEF StorageInit, Restore, Download
  <2> QED
    BY <2>2, <2>3 DEF Register!vars
\* Whatever ends a store takes effect or does not.
<1>7. ASSUME flash' \in [SlotNames -> SlotValues],
             Empty(flash') \/ \E s \in SlotNames : Current(flash', s, stores),
             target' = "A" /\ image' = ErasedSlot /\ next' = 1 /\ UNCHANGED stores,
             pc' \in {"off", "idle"}, ram' \in Payloads, answer' \in {"none", "ok", "error"}
      PROVE  StorageInv'
  <2>1. TypeOK'
    BY <1>1, <1>2, <1>7 DEF TypeOK, SlotNames
  <2>2. Completed' = stores /\ ~Storing'
    BY <1>7 DEF Completed, Storing
  <2>3. SlotInv' /\ StoreInv'
    BY <1>7, <2>2 DEF SlotInv, StoreInv, Storing
  <2> QED
    BY <2>1, <2>3 DEF StorageInv
<1>8. CASE EraseFails \/ ProgramFails
  <2>1. /\ \/ pc = "erase" /\ PartlyErased
           \/ pc = "program" /\ PartlyProgrammed
        /\ target' = "A" /\ image' = ErasedSlot /\ next' = 1 /\ UNCHANGED <<ram, stores>>
        /\ pc' = "idle" /\ answer' = "error"
    BY <1>8 DEF EraseFails, ProgramFails, Report
  <2>2. /\ flash' \in [SlotNames -> SlotValues]
        /\ Empty(flash') \/ \E s \in SlotNames : Current(flash', s, stores)
        /\ Stored' = Stored \/ Stored' = ram
    BY <2>1, CutOff
  <2>3. StorageInv'
    BY <1>1, <1>7, <2>1, <2>2
  <2>4. Register!Fail
    BY <1>1, <2>1, <2>2 DEF Register!Fail
  <2> QED
    BY <2>3, <2>4 DEF Register!Next
<1>9. CASE PowerLoss
  <2>1. /\ ram' = Defaults /\ Defaults \in Payloads /\ pc' = "off" /\ answer' = "none"
        /\ target' = "A" /\ image' = ErasedSlot /\ next' = 1 /\ UNCHANGED stores
    BY <1>9, StorageAssumption DEF PowerLoss, Report
  <2>2. CASE pc \in {"erase", "program"}
    <3>1. \/ pc = "erase" /\ PartlyErased
          \/ pc = "program" /\ PartlyProgrammed
      BY <1>9, <2>2 DEF PowerLoss
    <3>2. /\ flash' \in [SlotNames -> SlotValues]
          /\ Empty(flash') \/ \E s \in SlotNames : Current(flash', s, stores)
          /\ Stored' = Stored \/ Stored' = ram
      BY <3>1, CutOff
    <3>3. StorageInv'
      BY <1>7, <2>1, <3>2
    <3>4. Register!Fail
      BY <1>1, <2>1, <2>2, <3>2 DEF Register!Fail
    <3> QED
      BY <3>3, <3>4 DEF Register!Next
  <2>3. CASE pc \notin {"erase", "program"}
    <3>1. UNCHANGED flash
      BY <1>9, <2>3 DEF PowerLoss
    <3>2. StorageInv' /\ Stored' = Stored /\ storing' = NoPayload
      BY <1>1, <1>4, <2>1, <2>3, <3>1
    <3>3. Register!Fail
      BY <2>1, <3>2 DEF Register!Fail
    <3> QED
      BY <3>2, <3>3 DEF Register!Next
  <2> QED
    BY <2>2, <2>3
<1>10. CASE ProgramLast
  <2>1. /\ pc = "program" /\ next = 7 /\ Programmed(image[Words[next]])
        /\ target' = "A" /\ image' = ErasedSlot /\ next' = 1 /\ UNCHANGED <<ram, stores>>
        /\ pc' = "idle" /\ answer' = "ok"
    BY <1>1, <1>10 DEF ProgramLast, Report
  <2>2. flash' \in [SlotNames -> SlotValues] /\ Current(flash', target, stores) /\ Stored' = ram
    BY <2>1, LastWord
  <2>3. StorageInv'
    BY <1>1, <1>7, <2>1, <2>2
  <2>4. Register!Succeed
    BY <1>1, <2>1, <2>2 DEF Register!Succeed
  <2> QED
    BY <2>3, <2>4 DEF Register!Next
\* A step within a store changes nothing a power-up reads.
<1>11. ASSUME pc \in {"erase", "program"}, pc' = "program",
              flash' \in [SlotNames -> SlotValues],
              Empty(flash') \/ Current(flash', Other(target), stores - 1),
              Stored' = Stored, Target' = Target, NextSequence' = NextSequence,
              UNCHANGED <<ram, target, image, stores, answer>>, next' \in 1 .. 7,
              flash'[target].magic = Erased,
              \A i \in 1 .. next' - 1 : flash'[target][Words[i]] = image[Words[i]]
       PROVE  StorageInv' /\ UNCHANGED Register!vars
  <2>1. TypeOK'
    BY <1>1, <1>11 DEF TypeOK, SlotNames
  <2>2. Completed' = stores - 1
    BY <1>11 DEF Completed, Storing
  <2>3. SlotInv'
    BY <1>1, <1>11, <2>2 DEF SlotInv
  <2>4. ImageOf(ram)' = ImageOf(ram)
    BY <1>11 DEF ImageOf
  <2>5. StoreInv'
    BY <1>1, <1>11, <2>4 DEF StoreInv, Storing
  <2>6. UNCHANGED Register!vars
    BY <1>11 DEF Register!vars
  <2> QED
    BY <2>1, <2>3, <2>5, <2>6 DEF StorageInv
<1>12. CASE Erase
  <2>1. /\ pc = "erase" /\ pc' = "program" /\ UNCHANGED <<ram, storeVars, stores, answer>>
        /\ flash' = [flash EXCEPT ![target] = ErasedSlot]
    BY <1>12 DEF Erase
  <2>2. next = 1
    BY <1>1, <2>1 DEF StoreInv
  <2>3. ~Valid(ErasedSlot) /\ Storing
    BY <1>2, <2>1, StorageAssumption DEF Valid, Storing
  <2>4. /\ flash' \in [SlotNames -> SlotValues] /\ flash'[target] = ErasedSlot
        /\ Empty(flash') \/ Current(flash', Other(target), stores - 1)
        /\ Stored' = Stored /\ Target' = Target /\ NextSequence' = NextSequence
    BY <1>2, <2>1, <2>3, SpareStep
  <2>5. UNCHANGED <<target, image, next>>
    BY <2>1 DEF storeVars
  <2> QED
    BY <1>1, <1>2, <1>11, <2>1, <2>2, <2>4, <2>5
<1>13. CASE ProgramWord
  <2>1. /\ pc = "program" /\ pc' = "program" /\ UNCHANGED <<ram, target, image, stores, answer>>
        /\ next # 7 /\ next \in 1 .. 6 /\ next' = next + 1 /\ Programmed(image[Words[next]])
    BY <1>1, <1>13 DEF ProgramWord
  <2> DEFINE after == [flash[target] EXCEPT ![Words[next]] = image[Words[next]]]
  <2>2. Words[next] \in WordNames /\ flash[target] \in SlotValues
    BY <1>1, <2>1, WordsAreNames
  <2>3. after \in SlotValues
    BY <1>1, <2>2, WordOfASlot
  <2>4. /\ flash' \in [SlotNames -> SlotValues] /\ flash'[target] = after
        /\ flash'[target].magic = Erased
        /\ Empty(flash') \/ Current(flash', Other(target), stores - 1)
        /\ Stored' = Stored /\ Target' = Target /\ NextSequence' = NextSequence
    BY <2>1, <2>3, EarlierWord
  <2>5. \A w \in WordNames : after[w] = IF w = Words[next] THEN image[Words[next]]
                                        ELSE flash[target][w]
    BY <2>2 DEF SlotValues, WordNames
  <2>6. \A i \in 1 .. next' - 1 : flash'[target][Words[i]] = image[Words[i]]
    <3>1. \A i \in 1 .. next - 1 : flash[target][Words[i]] = image[Words[i]]
      BY <1>1, <2>1 DEF StoreInv
    <3>2. \A i \in 1 .. next' - 1 : (i = next \/ i \in 1 .. next - 1) /\ Words[i] \in WordNames
      BY <2>1, WordsAreNames
    <3> HIDE DEF after
    <3> QED
      BY <2>4, <2>5, <3>1, <3>2
  <2>7. next' \in 1 .. 7
    BY <2>1
  <2> QED
    BY <1>1, <1>11, <2>1, <2>4, <2>6, <2>7
<1>14. CASE UNCHANGED vars
  <2>1. UNCHANGED <<flash, ram, pc, target, image, next, stores, answer>>
    BY <1>14 DEF vars, storeVars
  <2>2. Stored' = Stored /\ Target' = Target /\ NextSequence' = NextSequence
    BY <2>1, FlashAlone
  <2>3. StorageInv'
    BY <1>1, <2>1, <2>2 DEF StorageInv, TypeOK, SlotInv, StoreInv, Completed, Storing, ImageOf
  <2>4. UNCHANGED Register!vars
    BY <2>1, <2>2 DEF Register!vars
  <2> QED
    BY <2>3, <2>4
<1> QED
  BY <1>3, <1>5, <1>6, <1>8, <1>9, <1>10, <1>12, <1>13, <1>14 DEF Next

-----------------------------------------------------------------------------
(* The theorems *)

\* In every state, the node off or in the middle of a store, one slot at most
\* is in use and the code finds it; the image being written lies in the other.
THEOREM StorageInvariant == Spec => []StorageInv
<1>1. Init => StorageInv
  BY InitHoldsNothing
<1>2. StorageInv /\ [Next]_vars => StorageInv'
  BY StorageStep
<1> QED
  BY <1>1, <1>2, PTL DEF Spec

\* Whatever is restored into the parameters is a payload, never an erased or a
\* half-programmed word.
THEOREM StorageTyping == Spec => []TypeOK
<1>1. StorageInv => TypeOK
  BY DEF StorageInv
<1> QED
  BY <1>1, StorageInvariant, PTL

\* A store reported as done is what every later start finds, and one that fails
\* or is cut off by a power loss leaves the old parameters or the new ones.
THEOREM StorageImplementsRegister == Spec => StoresAtomically
<1>1. Init => Register!Init
  BY InitHoldsNothing
<1>2. StorageInv /\ [Next]_vars => [Register!Next]_(Register!vars)
  BY StorageStep
<1> QED
  BY <1>1, <1>2, StorageInvariant, PTL DEF Spec, StoresAtomically, Register!Spec
=============================================================================
