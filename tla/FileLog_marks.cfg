CONSTANTS
  f1 = f1
  File = {f1}
  Page = {1, 2, 3, 4, 5, 6}
  NoPage = NoPage
  NumFilePages = 2
  Slots = 2
  MaxPerEntry = 2
  MaxWrites = 6
SPECIFICATION FairSpec
CONSTRAINT FirstUseInOrder
INVARIANTS IInv LogCoversIndex
PROPERTIES MarksStayExact DamageNeedsStale CallsEnd
