CONSTANTS
  Idle = "idle"
  Others = {"hi", "mid"}
  BootTasks = {"hi", "mid"}
  Priority <- ThreePriorities
  Sems = {"s"}
  CountMax <- OneSem
  CountInit <- NoCount
  MaxMsgs <- OneMsg
  MaxTics = 2
  Wrap = 5
  MaxNest = 1
  Calls <- AnyCalls
  IsrCalls <- AnyIsr
SPECIFICATION Spec
INVARIANTS
  TypeOK
  NoWaiterWhileAvailable
CHECK_DEADLOCK FALSE
