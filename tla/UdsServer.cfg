SPECIFICATION Spec
CONSTANTS
  TickMod = 8
  Units = {"u1", "u2"}
  MemMod = 8
  StagingStart = 2
  StagingEnd = 4
  Protected <- MCProtected
  MaxChunk = 2
  BlockMod = 2
  DlTimeoutMs = 2
  MaxAttempts = 2
  LockoutMs = 2
  Builds <- MCBuilds
  S3Ms = 2
  MaxLevel = 1
  Images <- MCImages
  MaxStallMs = 2
INVARIANTS
  TypeOK
  SessionNeedsActivity
  CountersAgree
  PendingImageIsWhole
PROPERTIES
  SessionIsKept
  ProtectedUntouched
  LockoutHolds
  ReceivingEnds
