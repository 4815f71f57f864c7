CONSTANTS
  PageSize = 4
  NodeSize = 3
  NumFilePages = 3
  MaxPerEntry = 2
  Counts = {0, 3, 9}
  U64 = 64
  MaxCalls = 2
SPECIFICATION Spec
CONSTRAINT OffsetInReach
INVARIANTS IInv ReadAgrees
PROPERTIES WriteLands NeighboursKept SizeShortOnlyByPwrite
