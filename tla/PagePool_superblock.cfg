CONSTANTS
  t1 = t1
  t2 = t2
  Thread <- One
  NoThread = NoThread
  NumCpus = 1
  NumPages = 6
  Fill = 2
  MaxRequest = 2
  NumCarved = 1
  U64 = 16
SPECIFICATION Spec
INVARIANTS SuperblockNeverLinked
