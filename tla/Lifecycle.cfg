SPECIFICATION Spec
CONSTANTS
  TickMod = 8
  WaitMs = 2
  MaxAttempts = 2
  MaxLag = 2
INVARIANTS
  TypeOK
  SafeFaultIsSafe
  RunningIsServed
  NoLimbo
  AttemptsBounded
PROPERTIES
  RestartsClean
  RecoveryConcludes
