CONSTANTS
  PageSize = 2
  AddressCount = 16
  PageCounts = {1, 2, 4}
  AccessCounts = {16}
  Bases = {1, 12}
SPECIFICATION Spec
INVARIANT PagesAreDistinct
CHECK_DEADLOCK FALSE
