CONSTANTS
  MaxContents = 6
  ConfigSize = 3
  EepromSize = 4
  BufferSize = 4
  ConfigExt = 12288
  EepromExt = 61440
  Blank = 255
  Garbage <- MCGarbage
  Lines <- MCLines
  MaxLines = 4
SPECIFICATION Spec
INVARIANT AcceptedIsLoaded
\* the file has been read
CHECK_DEADLOCK FALSE
