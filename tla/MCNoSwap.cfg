CONSTANTS
  p1 = p1  p2 = p2  p3 = p3
  v1 = v1  v2 = v2  v3 = v3
  a1 = a1  a2 = a2  a3 = a3
  Proc = {p1, p2}
  Page = {v1, v2}
  Path = {a1, a2}
  PathOf <- OnePathEach
  FrameCount = 2
  TlbEntries = 1
  SlotCount = 0
  Value = {0, 1}
  Zero = 0
  IoFaults = FALSE
  NoProc = NoProc
  NoPage = NoPage
  NoData = NoData
SPECIFICATION OomSpec
INVARIANTS LostFramesAreInert
PROPERTIES OutOfMemoryKeepsPromise OutOfMemoryIsContained
CHECK_DEADLOCK FALSE
