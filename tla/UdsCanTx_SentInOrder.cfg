SPECIFICATION Spec
CONSTANTS
  TxCapacity = 3
  Answers = 2
  TxBudget = 2
  CounterMod = 2
  SerialMod = 6
  Mailboxes = {0, 1}
  NoFrame = NoFrame
  Free = Free
  Tpdo = Tpdo
  NoMailbox = NoMailbox
PROPERTIES
  SentInOrder
