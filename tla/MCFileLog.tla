----------------------------- MODULE MCFileLog -----------------------------
(***************************************************************************)
(* Model checking of FileLog.  Its pages are interchangeable; rather than  *)
(* their permutations, which are too many, the runs take the pages that    *)
(* have never been allocated in ascending order.                           *)
(***************************************************************************)
EXTENDS FileLog

Files == Permutations(File)

NeverUsed(p) ==
  p \in free \ isData /\ node[p] = Counters /\ origin[p].page = NoPage

FirstUseInOrder == \A p, q \in Page : p < q /\ NeverUsed(p) => NeverUsed(q)

(* The runs that look for a counterexample need not look everywhere: the   *)
(* pool serves its lowest pages first.                                     *)
LowestFirst == \A p \in free \ free', q \in free \cap free' : p < q

(* ... and leave out the calls of nvmio_write for no bytes, so that only   *)
(* gc_log_block can leave a back pointer wrong.                            *)
BackPointerSet(p) == \E a \in Addresses(file) : origin[p] = a /\ p \in Range(Entry(a).data)

CallsHaveBytes == \A k \in DOMAIN fresh' : BackPointerSet(fresh[k][2])'
=============================================================================
