CONSTANTS
  b1 = b1
  Bits <- MCBits
  CodeMemorySize = 6
  WordsPerWrite = 2
  PageSize = 4
  AddrSpace = 8
SPECIFICATION Spec
INVARIANTS ExactlyTheImage ErasedOrImage FailedEraseCostsOnePage
PROPERTIES ImplementsReplacement
\* a write that has returned 1 is over
CHECK_DEADLOCK FALSE
