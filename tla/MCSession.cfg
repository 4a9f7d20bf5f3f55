CONSTANTS
  LogSize = 2
  MaxSent = 3
  Devid1s <- MCDevid1s
  Devid2s <- MCDevid2s
SPECIFICATION Spec
INVARIANTS TypeOK NothingHeld CrashesAreKnown LogHasRoom LogIsPrefix
PROPERTY UnknownUntouched
\* the process has exited or crashed
CHECK_DEADLOCK FALSE
