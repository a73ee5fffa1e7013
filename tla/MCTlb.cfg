CONSTANTS
  Proc = {p, q}
  Page = {1, 2}
  Frame = {0, 1}
  Capacity = 3
  NoKey = NoKey
  NoFrame = NoFrame
  MaxClock = 6
SPECIFICATION Spec
INVARIANTS SizeIsCount AnswersAsTold LeastRecentlyUsed
