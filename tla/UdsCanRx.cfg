SPECIFICATION Spec
CONSTANTS
  RxFrames = {f1, f2}
  NoFrame = NoFrame
  RxCapacity = 4
  RxBudget = 2
  CounterMod = 2
INVARIANTS
  TypeOK
PROPERTIES
  RxIsFifo
  FullIsDrained
