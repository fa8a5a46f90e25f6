SPECIFICATION Spec
CONSTANTS
  h1 = h1
  h2 = h2
  Halves = {h1, h2}
  Defaults <- MCDefaults
  SeqMod = 16
  MaxStores = 4
  Present = Present
  Erased = Erased
  Torn = Torn
  NoPayload = NoPayload
INVARIANTS
  TypeOK
PROPERTIES
  StoresAtomically
