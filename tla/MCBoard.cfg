CONSTANTS
  Config <- Configurations
  Fields = {"r1", "rev"}
  Values = {1, 2, 9}
  Usable <- MCUsable
  Default <- MCDefault
  Wrap = 6
  Endurance = 2
  AvrOrder <- MCOrder
  LogMax = 4
  Reports <- MCReports
  TooLong <- MCTooLong
  Revisions = {"r0", "r1", "r2", "unknown"}
  Chips <- MCChips
  Discharge = 2
  AddressLines = 3
  BusLines = 4
  PassThrough = 2
  Frames <- MCFrames
  UintWrap = 16
  FullScale = 4
  BandgapMin = 2
  BandgapMax = 3
  Saturation = 9
  HeadroomPct = 30
  HeadroomFloor = 1
  LowPct = 20
  Targets = {2, 5}
SPECIFICATION BoardSpec
INVARIANTS SettingsUsable SettingsStored SendOrder NoErrorLost LatchIsMapped IdleIsSafe StrobesAtTheirLevel ReadsKeepVpeOffPin1 BusIsTheMap ReadingIsExact
PROPERTIES OnlyCommandsChangeSettings StorageIsARegister ReportedSavesAreStored
