CONSTANTS
  UintWrap = 16
  FullScale = 4
  BandgapMin = 2
  BandgapMax = 3
  Saturation = 9
  HeadroomPct = 30
  HeadroomFloor = 1
  LowPct = 20
  Targets = {2, 5}
SPECIFICATION VoltageSpec
INVARIANT HighSideErrorKept
