CONSTANTS
  Byte = {ff, a}
  Erased = ff
  MaxBlock = 4
  Group = 2
  Rows <- MCRows
  Datum = {"ff", "fe", "7f"}
  Blank = "ff"
  High = {"ff", "fe"}
  Top = 7
  DevicePage = 4
  Requests = {0, 4}
  MaxPage = 4
  Fallback = 1
  Blocks <- MCBlocks
  Contents <- MCContents
SPECIFICATION DriversSpec
INVARIANTS PulsesBounded SuccessIsProgrammed FailureNamesFirstBad SuccessIsStored SoundPartSucceeds OthersKept
PROPERTIES OnlyShortBytesPulsed ReadsWithRouteDown SentToPartAtRest DriversReturn
