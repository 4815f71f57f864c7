CONSTANTS
  p1 = p1
  p2 = p2
  Thread <- MCThread
  Address = {a1, a2}
  Null = Null
  Dead = Dead
  NumPages = 8
  Fills = {2, 3, 4}
  NumCpus = 1
  U64 = 16
SPECIFICATION Spec
INVARIANTS IInv BootOnce ExclusiveUnlessEarly CarvingFitsTwo
PROPERTIES EarlyNeedsOpenBoot LossIsFinal SomebodyReturns
