CONSTANTS
  FrameCount = 4
  MaxClock = 7
  MaxRefusals = 8
  AgeBits = 3
  Window = 3
SPECIFICATION Spec
INVARIANTS PolicyAgrees RetriesReachAVictim AgingIsShortLru FirstInFirstOut LeastRecentlyUsed LoopEndsInClosedForm
