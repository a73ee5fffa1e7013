CONSTANTS
  Proc = {p, q}
  Page = {1, 2}
  Content = {0, 1}
  Zeros = 0
  NoKey = NoKey
  Missing = Missing
  SlotCount = 3
SPECIFICATION Spec
INVARIANTS CountIsUsedSlots OneSlotPerPage
PROPERTY ImplementsPageStore
