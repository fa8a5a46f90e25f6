SPECIFICATION Spec
CONSTANTS
  TickMod = 8
  SfBytes = 2
  FfBytes = 1
  CfBytes = 2
  MaxPayload = 6
  SeqMod = 3
  StMinMs = 2
  TxTimeoutMs = 3
  MaxWaitFrames = 1
  BlockSize = 2
  StMin = "none"
  RxTimeoutMs = 3
  RxBudget = 2
  Responses <- MCResponses
  MaxFrames = 4
PROPERTIES
  AnsweredResponseGoesOn
