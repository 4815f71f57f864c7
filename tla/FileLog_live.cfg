CONSTANTS
  f1 = f1
  File = {f1}
  Page = {1, 2, 3, 4, 5, 6, 7, 8}
  NoPage = NoPage
  NumFilePages = 2
  Slots = 2
  MaxPerEntry = 2
  MaxWrites = 7
SPECIFICATION Spec
ACTION_CONSTRAINTS LowestFirst CallsHaveBytes
INVARIANT LivePagesKept
