---------------------------- MODULE PageLedger ----------------------------
(***************************************************************************)
(* What a page allocator promises its callers, with no lists and no locks: *)
(* a free page is granted to one caller at a time, a grant is exactly as   *)
(* large as the request, and only the holder of a page can give it up.     *)
(* A page that is given up becomes free again, or is dropped: allocator.c  *)
(* forgets the pages that are freed to a list whose head is OFFSET_NULL.   *)
(* PagePool implements this specification, and so does InodeTable, whose   *)
(* pages are inodes and whose requests are for one.                        *)
(***************************************************************************)
EXTENDS Integers, FiniteSets

CONSTANTS Thread,      \* the callers
          Page,        \* the pages that may be granted
          MaxRequest   \* the largest request

VARIABLES free,        \* the pages that may be granted now
          held,        \* held[t]: the pages granted to t and not given up
          want,        \* want[t]: the size of t's pending request, 0 if none
          stopped      \* the allocator has failed and serves nobody

vars == <<free, held, want, stopped>>

Init ==
  /\ free = Page
  /\ held = [t \in Thread |-> {}]
  /\ want = [t \in Thread |-> 0]
  /\ stopped = FALSE

Ask(t) ==
  /\ want[t] = 0
  /\ \E n \in 1..MaxRequest : want' = [want EXCEPT ![t] = n]
  /\ UNCHANGED <<free, held, stopped>>

Grant(t) ==
  /\ want[t] # 0
  /\ \E S \in SUBSET free :
       /\ Cardinality(S) = want[t]
       /\ free' = free \ S
       /\ held' = [held EXCEPT ![t] = @ \cup S]
  /\ want' = [want EXCEPT ![t] = 0]
  /\ UNCHANGED stopped

GiveUp(t) ==
  /\ want[t] = 0
  /\ \E S \in SUBSET held[t] :
       /\ S # {}
       /\ held' = [held EXCEPT ![t] = @ \ S]
       /\ free' \in {free, free \cup S}
  /\ UNCHANGED <<want, stopped>>

Stop ==
  /\ stopped' = TRUE
  /\ UNCHANGED <<free, held, want>>

Next ==
  /\ ~stopped
  /\ \/ \E t \in Thread : Ask(t) \/ Grant(t) \/ GiveUp(t)
     \/ Stop

Spec == Init /\ [][Next]_vars
=============================================================================
