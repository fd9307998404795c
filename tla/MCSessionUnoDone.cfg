CONSTANTS
  Requests <- WriteFrames
  BufferSize = 2
  AckTimeout = 2
  CmdTimeout = 2
  DrainsRx = TRUE
  Revision0 = FALSE
  MaxRx = 2
  MaxAnswer = 0
SPECIFICATION Spec
PROPERTIES NoRequestOverDone
