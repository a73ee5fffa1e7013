CONSTANTS
  Frame = {0, 1}
  Mapping = {m1, m2, m3}
  CellCount = 5
SPECIFICATION Spec
INVARIANTS CellsInOneList CountsMappingsOnce
PROPERTY ImplementsFrameMappings
