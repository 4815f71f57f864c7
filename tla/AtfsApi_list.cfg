CONSTANTS
  Thread = {t1, t2}
  Fd = {d1, d2}
  Inode = {i1, i2, i3}
  s_list = s_list
  Null = Null
SPECIFICATION Spec
INVARIANT IInv
PROPERTIES RingBreaksOnlyByReopen ServedInLine EveryFileServed
