CONSTANTS
  p1 = p1  p2 = p2  p3 = p3
  v1 = v1  v2 = v2  v3 = v3
  a1 = a1  a2 = a2  a3 = a3
  Proc = {p1, p2}
  Page = {v1, v2}
  Path = {a1, a2}
  PathOf <- OnePathEach
  FrameCount = 2
  TlbEntries = 2
  SlotCount = 2
  Value = {0, 1}
  Zero = 0
  IoFaults = TRUE
  NoProc = NoProc
  NoPage = NoPage
  NoData = NoData
SPECIFICATION Spec
INVARIANTS TypeOK Coherent TlbCoherent NothingLeaks
PROPERTIES DirtyPagesSurvive CowIsolates
