SPECIFICATION Spec
CONSTANTS
  TickMod = 8
  WaitMs = 2
  MaxAttempts = 2
  MaxLag = 2
INVARIANTS
  ElapsedIsPast
