CONSTANTS
  Low = "low"
  High = "high"
  Callers = {"low", "high"}
  Wrap = 64
  Heaps <- SmallHeaps
  Budget <- OneEach
  SizeOf <- Sizes
  MallocSizes = {2}
  BufSizes = {0, 6}
  TimerKinds <- OneKind
  BootTimers <- TwoTimers
  MaxInts = 1
  TimerCalls = {"start", "stop", "delete"}
SPECIFICATION Spec
INVARIANTS
  TypeOK
  BlocksSound
  ListSound
  TimerArmed
  OwnMemory
PROPERTIES
  TicEnds
  OneshotsEnd
