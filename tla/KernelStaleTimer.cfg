CONSTANTS
  Idle = "idle"
  Others = {"hi", "mid"}
  BootTasks = {"hi", "mid"}
  Priority <- ThreePriorities
  Sems = {"s"}
  CountMax <- OneSem
  CountInit <- NoCount
  MaxMsgs <- OneMsg
  MaxTics = 2
  Wrap = 5
  MaxNest = 1
  Calls <- StaleTimerCalls
  IsrCalls <- Tic
SPECIFICATION Spec
INVARIANTS
  TimeoutNotEarly
