CONSTANTS
  Requests <- ReadFrames
  BufferSize = 2
  AckTimeout = 2
  CmdTimeout = 2
  DrainsRx = FALSE
  Revision0 = FALSE
  MaxRx = 2
  MaxAnswer = 0
SPECIFICATION Spec
INVARIANTS ReadEndsAtRegionEnd
