---------------------------- MODULE MCPagePool ----------------------------
(***************************************************************************)
(* Model checking of PagePool: one thread, or two.  Symmetry between the   *)
(* two would be sound for all properties but CallsReturn; it is not used.  *)
(***************************************************************************)
EXTENDS PagePool

CONSTANTS t1, t2

One == {t1}
Two == {t1, t2}
=============================================================================
