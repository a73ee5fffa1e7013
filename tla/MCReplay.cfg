CONSTANTS
  p1 = p1
  Proc = {p1}
  Page = {0, 1, 2, 3, 4, 5}
  Path = {0, 1, 2, 4, 5}
  PathOf <- ThreeIsZero
  FrameCount = 2
  TlbEntries = 2
  SlotCount = 1
  Value = {0}
  Zero = 0
  IoFaults = TRUE
  NoProc = NoProc
  NoPage = NoPage
  NoData = NoData
  PageSize = 2
  AddressCount = 12
  CommandLines <- ShortCommandLines
  TraceName = "7"
  Traces <- ShortTraces
  CsvFiles <- FilesBefore
SPECIFICATION SimSpec
INVARIANTS ReplayFollowsTrace CountersMatchMemory StaleOnlyAmongAliases NothingHeldAtExit ExportKeepsLines
PROPERTIES OptionsAsGiven Ends
CHECK_DEADLOCK FALSE
