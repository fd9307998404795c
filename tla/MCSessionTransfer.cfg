CONSTANTS
  Requests <- TransferFrames
  BufferSize = 2
  AckTimeout = 2
  CmdTimeout = 2
  DrainsRx = FALSE
  Revision0 = FALSE
  MaxRx = 2
  MaxAnswer = 0
SPECIFICATION FairSpec
INVARIANTS TypeOK WriteComplete TransferInBounds HvNeedsConsent
PROPERTIES CommandsKeepTheContract NoRequestOverDone CommandEnds SilentHostReleasesHv
