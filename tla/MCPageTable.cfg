CONSTANTS
  Table = {t1, t2, t3}
  Levels = 3
  Index = {0, 1}
  Path <- TwoPaths
  Frame = {f1, f2}
  NoFrame = NoFrame
  NoTable = NoTable
  AllocFaults = TRUE
SPECIFICATION Spec
VIEW Shapes
INVARIANTS CountsReferences
PROPERTIES UnmapPrunes CallsMatch ImplementsPrivateTables
