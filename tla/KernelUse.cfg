CONSTANTS
  Idle = "idle"
  Others = {"hi", "mid", "lo"}
  BootTasks = {"hi", "mid", "lo"}
  Priority <- ThreePriorities
  Sems = {"s"}
  CountMax <- OneSem
  CountInit <- NoCount
  MaxMsgs <- OneMsg
  MaxTics = 2
  Wrap = 5
  MaxNest = 1
  Calls <- UseCalls
  IsrCalls <- WakeIsr
SPECIFICATION Spec
INVARIANTS
  MostUrgentRuns
  TokensConserved
  TimeoutNotEarly
  TimerExact
  InterruptsRestored
  HandlerNotPreempted
PROPERTIES
  GrantsMostUrgent
