CONSTANTS
  t1 = t1
  t2 = t2
  Thread <- Two
  NoThread = NoThread
  NumCpus = 2
  NumPages = 5
  Fill = 2
  MaxRequest = 3
  NumCarved = 1
  U64 = 16
SPECIFICATION FairSpec
INVARIANTS IInv NoDoubleAllocation CountCovered WaitsEnd
PROPERTIES ImplementsLedger DropsOnlyBehindNull CallsReturn
