CONSTANTS
  Idle = "idle"
  Others = {"hi", "mid", "lo"}
  BootTasks = {"mid"}
  Priority <- ThreePriorities
  Sems = {"s"}
  CountMax <- OneSem
  CountInit <- NoCount
  MaxMsgs <- OneMsg
  MaxTics = 2
  Wrap = 5
  MaxNest = 1
  Calls <- LifeCalls
  IsrCalls <- LifeIsr
SPECIFICATION FairSpec
INVARIANTS
  QueueOrder
  NeverWild
PROPERTIES
  DeletedStaysDeleted
  CleanedUp
  TimedCallsReturn
