CONSTANTS
  PageSize = 4
  NodeSize = 3
  NumFilePages = 2
  MaxPerEntry = 2
  Counts = {5, 8}
  U64 = 64
  MaxCalls = 2
SPECIFICATION Spec
CONSTRAINT OffsetInReach
PROPERTY LastPageFilled
