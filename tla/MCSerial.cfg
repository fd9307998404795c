CONSTANTS
  FullCode = 3
  Crc8 <- SmallCrc
  Capacity = 4
  Messages <- MCMessages
  Payloads <- MCPayloads
  O = 1
  K = 2
  D = 3
  N = 4
  E = 5
  Hash = 6
  BufferSize = 3
  Timeout = 1
  MaxFaults = 1
  Values = {1, 2}
  RxCapacity = 3
  TxCapacity = 3
  MaxPacket = 2
  WriteTimeout = 1
SPECIFICATION SerialSpec
INVARIANTS BufferHolds WholeFramesDecoded OneDelimiterPerCall
PROPERTIES LoopReturns PortIsTwoPipes CallsReturn TransmitterRuns
