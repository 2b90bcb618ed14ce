CONSTANTS
  Idle = "idle"
  Others = {"hi", "mid", "lo"}
  BootTasks = {"hi", "mid", "lo"}
  Priority <- ThreePriorities
  Sems = {"s"}
  CountMax <- OneSem
  CountInit <- NoCount
  MaxMsgs <- OneMsg
  MaxTics = 2
  Wrap = 5
  MaxNest = 2
  Calls <- IsrUseCalls
  IsrCalls <- GiveIsr
SPECIFICATION Spec
INVARIANTS
  OneRunning
  TokensConserved
  MessagePresent
