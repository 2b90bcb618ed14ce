CONSTANTS
  Word = 256
  COLUMNS = 5
  LINES = 2
  BUF_SIZE = 6
  MAX_PARAMS = 2
  Args = 3
  Funcs <- Names
  Vars <- Variables
  Stale = {0, 77}
  Functions <- Fns
  Callers <- Requests
  Bytes = {0, 5}
  Loads <- Typing
  MaxCalls = 2
SPECIFICATION Spec
INVARIANTS
  LineRight
  SeenIsRun
  PciRight
CHECK_DEADLOCK FALSE
