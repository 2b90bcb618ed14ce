CONSTANTS
  TaskQ <- Queue
  Priority <- Prio
  CountMax <- Counts
  IoSize = 2
  Chars <- Four
  NewLines = {2}
  CR = 0
  DevSize = 2
  Fifo = 2
  Boards = {"pc", "com", "sam9", "rpi"}
  Loads <- OutOrIn
SPECIFICATION Spec
INVARIANTS
  TypeOK
  Places
  NothingOverwritten
  ReceiverBack
PROPERTIES
  TxChannel
  RxChannel
  TxFlows
  RxFlows
CHECK_DEADLOCK FALSE
