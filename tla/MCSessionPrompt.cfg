CONSTANTS
  Requests <- AllFrames
  BufferSize = 2
  AckTimeout = 4
  CmdTimeout = 4
  DrainsRx = TRUE
  Revision0 = FALSE
  MaxRx = 2
  MaxAnswer = 1
SPECIFICATION PromptSpec
INVARIANTS ReadComplete PromptHostNeverTimedOut
