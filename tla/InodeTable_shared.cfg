CONSTANTS
  t1 = t1
  t2 = t2
  Thread = {t1, t2}
  NoThread = NoThread
  NoInode = NoInode
  NumCpus = 2
  NumFilled = 1
  PerRefill = 2
  NumInodes = 4
SYMMETRY Symmetry
SPECIFICATION Spec
CONSTRAINT UpToStale
INVARIANTS IInv InodeExclusive
PROPERTIES DropsOnlyUncounted ImplementsLedger
