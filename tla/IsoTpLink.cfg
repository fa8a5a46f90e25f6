SPECIFICATION Spec
CONSTANTS
  TickMod = 6
  SfBytes = 2
  FfBytes = 1
  CfBytes = 2
  MaxPayload = 6
  SeqMod = 3
  StMinMs = 2
  TxTimeoutMs = 2
  MaxWaitFrames = 1
  BlockSize = 2
  StMin = "micros"
  RxTimeoutMs = 2
  Payloads <- MCPayloads
  MaxStarts = 2
  MaxFaults = 2
INVARIANTS
  TypeOK
  FaultlessTransferSucceeds
PROPERTIES
  DeliversWhatWasSent
  HonoursBlockSize
  TransferEnds
