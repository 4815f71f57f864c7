CONSTANTS
  f1 = f1
  f2 = f2
  File = {f1, f2}
  Page = {1, 2, 3, 4, 5, 6}
  NoPage = NoPage
  NumFilePages = 2
  Slots = 1
  MaxPerEntry = 1
  MaxWrites = 4
SPECIFICATION Spec
CONSTRAINT FirstUseInOrder
SYMMETRY Files
INVARIANT LogShape
PROPERTIES FilesKeepApart DamageNeedsStale WalkShortens
