SPECIFICATION Spec
CONSTANTS
  IwdgMs = 4
  GraceMs = 2
  WaitMs = 2
  MaxAttempts = 2
  MaxWraps = 1
  Controls <- MCControls
INVARIANTS
  TypeOK
  EnableIsAccounted
  DownIsDisabled
  StallEndsEnable
PROPERTIES
  StartsDisabled
  OnlyStallsBite
