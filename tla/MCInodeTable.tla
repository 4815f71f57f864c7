--------------------------- MODULE MCInodeTable ---------------------------
(***************************************************************************)
(* Model checking of InodeTable: the symmetry of the threads.  What its    *)
(* properties say ends with the first link to a list that had changed.     *)
(***************************************************************************)
EXTENDS InodeTable, TLC

UpToStale == ~stale

Symmetry == Permutations(Thread)
=============================================================================
