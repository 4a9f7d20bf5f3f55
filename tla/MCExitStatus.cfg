CONSTANTS
  LogSize = 1
  MaxSent = 1
  Devid1s <- MCDevid1s
  Devid2s <- MCDevid2s
SPECIFICATION Spec
INVARIANT StatusTellsResult
\* the process has exited or crashed
CHECK_DEADLOCK FALSE
