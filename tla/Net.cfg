CONSTANTS
  TaskQ <- Queue2
  Priority <- Prio
  CountMax <- OnePlace
  Msg <- Places
  MaxMsgs = 2
  Word = 4
  NumBufs = 3
  Mac <- Us
  IpAddr = 10
  Text = 2
  MostRead = 6
  Kinds <- AllKinds
  Most = 4
  Loads <- Mixes
SPECIFICATION Spec
INVARIANTS
  TypeOK
  Accounted
  Answered
PROPERTIES
  RxFrames
  RxFlows
CHECK_DEADLOCK FALSE
