SPECIFICATION Spec
CONSTANTS
  TickMod = 8
  Nodes = {"peer"}
  Mandatory = {"peer"}
  AutoStart = {"peer"}
  HbTimeoutMs = 2
  BootTimeMs = 3
  MaxLag = 2
  Bytes = {"BOOTUP", "OPERATIONAL", "invalid"}
INVARIANTS
  TypeOK
  LossIsDetected
  TimeoutOnce
  ReadinessEarned
  AbsentPeerReported
PROPERTIES
  TimeoutIsTrue
