--------------------------- MODULE PagePoolProofs ---------------------------
(***************************************************************************)
(* The safety of the page allocator, for any number of threads, CPUs and   *)
(* pages, any refill size and any number of carved lists; and that it keeps*)
(* the promise of PageLedger and drops pages in one way only: no page of a *)
(* chain is lost when the chain is cut or linked.                          *)
(***************************************************************************)
EXTENDS PagePool, FiniteSetTheorems, TLAPS

Slot == Page \cup {SUPERBLOCK}

(* The pages of a chain.                                                   *)
PagesOf(chain) == Range(chain) \cap Page

-----------------------------------------------------------------------------
(* Cutting the first n nodes off a chain: the two parts are chains again,  *)
(* keep their order, repeat no page and have no page in common.            *)
LEMMA CutChain ==
  ASSUME NEW chain \in Seq(Slot), NEW n \in Nat, n <= Len(chain)
  PROVE  /\ SubSeq(chain, 1, n) \in Seq(Slot)
         /\ Len(SubSeq(chain, 1, n)) = n
         /\ \A i \in 1..n : SubSeq(chain, 1, n)[i] = chain[i]
         /\ After(chain, n) \in Seq(Slot)
         /\ Len(After(chain, n)) = Len(chain) - n
         /\ \A i \in 1..(Len(chain) - n) : After(chain, n)[i] = chain[n + i]
  BY DEF After

LEMMA CutDisjoint ==
  ASSUME NEW chain \in Seq(Slot), NEW n \in Nat, n <= Len(chain),
         NoRepeat(chain)
  PROVE  /\ NoRepeat(SubSeq(chain, 1, n))
         /\ NoRepeat(After(chain, n))
         /\ PagesOf(SubSeq(chain, 1, n)) \subseteq PagesOf(chain)
         /\ PagesOf(After(chain, n)) \subseteq PagesOf(chain)
         /\ PagesOf(SubSeq(chain, 1, n)) \cap PagesOf(After(chain, n)) = {}
  <1> DEFINE low == SubSeq(chain, 1, n)
             top == After(chain, n)
  <1>1. /\ DOMAIN low = 1..n
        /\ DOMAIN top = 1..(Len(chain) - n)
        /\ DOMAIN chain = 1..Len(chain)
        /\ \A i \in 1..n : low[i] = chain[i]
        /\ \A i \in 1..(Len(chain) - n) : top[i] = chain[n + i]
    BY CutChain
  <1> HIDE DEF low, top
  <1>2a. NoRepeat(low)
    <2> SUFFICES ASSUME NEW i \in 1..n, NEW j \in 1..n,
                        low[i] = low[j], low[i] \in Page
                 PROVE  i = j
      BY <1>1 DEF NoRepeat
    <2>1. i \in DOMAIN chain /\ j \in DOMAIN chain
      BY <1>1
    <2> QED
      BY <1>1, <2>1 DEF NoRepeat
  <1>2b. NoRepeat(top)
    <2> SUFFICES ASSUME NEW i \in 1..(Len(chain) - n), NEW j \in 1..(Len(chain) - n),
                        top[i] = top[j], top[i] \in Page
                 PROVE  i = j
      BY <1>1 DEF NoRepeat
    <2>1. n + i \in DOMAIN chain /\ n + j \in DOMAIN chain
      BY <1>1
    <2>2. n + i = n + j
      BY <1>1, <2>1 DEF NoRepeat
    <2> QED
      BY <2>2
  <1>3. PagesOf(low) \subseteq PagesOf(chain)
    BY <1>1 DEF PagesOf, Range
  <1>4. PagesOf(top) \subseteq PagesOf(chain)
    BY <1>1 DEF PagesOf, Range
  <1>5. PagesOf(low) \cap PagesOf(top) = {}
    BY <1>1 DEF PagesOf, Range, NoRepeat
  <1> QED
    BY <1>2a, <1>2b, <1>3, <1>4, <1>5 DEF low, top

(* Linking a run of pages after the head, in a refill: positions shift by  *)
(* the length of the run.                                                  *)
LEMMA RefillChain ==
  ASSUME NEW chain \in Seq(Slot), NEW run \in Seq(Page), chain # <<>>
  PROVE  /\ SpliceRefill(chain, run) \in Seq(Slot)
         /\ Len(SpliceRefill(chain, run)) >= Len(chain) + Len(run)
         /\ SpliceRefill(chain, run)[1] = chain[1]
         /\ \A i \in 1..Len(run) : SpliceRefill(chain, run)[1 + i] = run[i]
         /\ \A i \in 2..Len(chain) : SpliceRefill(chain, run)[Len(run) + i] = chain[i]
         /\ \A i \in (Len(chain) + Len(run) + 1)..Len(SpliceRefill(chain, run)) : SpliceRefill(chain, run)[i] = SUPERBLOCK
  <1> DEFINE rest == IF Len(chain) = 1 THEN <<SUPERBLOCK>> ELSE Tail(chain)
             new == SpliceRefill(chain, run)
  <1>1. /\ Head(chain) = chain[1] /\ chain[1] \in Slot
        /\ Len(chain) \in Nat /\ Len(chain) >= 1
    OBVIOUS
  <1>2. CASE Len(chain) = 1
    <2>1. new = <<chain[1]>> \o run \o <<SUPERBLOCK>>
      BY <1>1, <1>2 DEF SpliceRefill
    <2> QED
      BY <1>1, <1>2, <2>1 DEF Slot
  <1>3. CASE Len(chain) # 1
    <2>1. new = <<chain[1]>> \o run \o Tail(chain)
      BY <1>1, <1>3 DEF SpliceRefill
    <2> QED
      BY <1>1, <1>3, <2>1 DEF Slot
  <1> QED
    BY <1>2, <1>3

LEMMA FreedChain ==
  ASSUME NEW chain \in Seq(Slot), NEW run \in Seq(Page), chain # <<>>
  PROVE  /\ SpliceFreed(chain, run) \in Seq(Slot)
         /\ Len(SpliceFreed(chain, run)) = Len(chain) + Len(run)
         /\ SpliceFreed(chain, run)[1] = chain[1]
         /\ \A i \in 1..Len(run) : SpliceFreed(chain, run)[1 + i] = run[i]
         /\ \A i \in 2..Len(chain) : SpliceFreed(chain, run)[Len(run) + i] = chain[i]
  BY DEF SpliceFreed, Slot

(* Either link of a run into a chain repeats no page and brings in no      *)
(* other page, when the run has none of the chain's pages.                 *)
LEMMA LinkDisjoint ==
  ASSUME NEW chain \in Seq(Slot), NEW run \in Seq(Page), chain # <<>>,
         NEW new \in Seq(Slot),
         Len(new) >= Len(chain) + Len(run),
         new[1] = chain[1],
         \A i \in 1..Len(run) : new[1 + i] = run[i],
         \A i \in 2..Len(chain) : new[Len(run) + i] = chain[i],
         \A i \in (Len(chain) + Len(run) + 1)..Len(new) : new[i] = SUPERBLOCK,
         NoRepeat(chain), NoRepeat(run), PagesOf(chain) \cap PagesOf(run) = {}
  PROVE  /\ NoRepeat(new)
         /\ PagesOf(new) \subseteq PagesOf(chain) \cup PagesOf(run)
  <1> DEFINE N == Len(chain)
             M == Len(run)
             \* position p of the new chain comes from the old one, or from the run
             FromChain(p) == p = 1 \/ p \in (M + 2)..(M + N)
             FromRun(p) == p \in 2..(M + 1)
             Old(p) == IF p = 1 THEN 1 ELSE p - M
  <1>1. N \in Nat /\ N >= 1 /\ M \in Nat /\ Len(new) \in Nat
    OBVIOUS
  <1>2. /\ DOMAIN chain = 1..N /\ DOMAIN run = 1..M /\ DOMAIN new = 1..Len(new)
    OBVIOUS
  <1>3. SUPERBLOCK \notin Page
    BY DEF SUPERBLOCK, Page
  <1>4. ASSUME NEW p \in DOMAIN new, new[p] \in Page
        PROVE  FromChain(p) \/ FromRun(p)
    BY <1>1, <1>2, <1>3, <1>4
  <1>5. ASSUME NEW p \in DOMAIN new, FromChain(p)
        PROVE  Old(p) \in 1..N /\ new[p] = chain[Old(p)]
    <2>1. CASE p = 1
      BY <1>1, <2>1
    <2>2. CASE p # 1
      <3>1. p - M \in 2..N /\ p = M + (p - M)
        BY <1>1, <1>2, <1>5, <2>2
      <3> QED
        BY <1>1, <2>2, <3>1
    <2> QED
      BY <2>1, <2>2
  <1>6. ASSUME NEW p \in DOMAIN new, FromRun(p)
        PROVE  p - 1 \in 1..M /\ new[p] = run[p - 1]
    <2>1. p - 1 \in 1..M /\ p = 1 + (p - 1)
      BY <1>1, <1>2, <1>6
    <2> QED
      BY <2>1
  <1>6a. ASSUME NEW p \in DOMAIN new, new[p] \in Page, FromChain(p)
         PROVE  new[p] \in PagesOf(chain)
    BY <1>2, <1>5, <1>6a DEF PagesOf, Range
  <1>6b. ASSUME NEW p \in DOMAIN new, new[p] \in Page, FromRun(p)
         PROVE  new[p] \in PagesOf(run)
    BY <1>2, <1>6, <1>6b DEF PagesOf, Range
  <1>7. PagesOf(new) \subseteq PagesOf(chain) \cup PagesOf(run)
    <2> SUFFICES ASSUME NEW p \in DOMAIN new, new[p] \in Page
                 PROVE  new[p] \in PagesOf(chain) \cup PagesOf(run)
      BY DEF PagesOf, Range
    <2> QED
      BY <1>4, <1>6a, <1>6b
  <1>8. ASSUME NEW p \in DOMAIN new, NEW q \in DOMAIN new,
               new[p] = new[q], new[p] \in Page
        PROVE  p = q
    <2>1. CASE FromChain(p) /\ FromChain(q)
      <3>1. Old(p) = Old(q)
        BY <1>2, <1>5, <1>8, <2>1 DEF NoRepeat
      <3> QED
        BY <1>1, <1>2, <2>1, <3>1
    <2>2. CASE FromRun(p) /\ FromRun(q)
      <3>1. p - 1 = q - 1
        BY <1>2, <1>6, <1>8, <2>2 DEF NoRepeat
      <3> QED
        BY <1>2, <3>1
    <2>3. CASE FromChain(p) /\ FromRun(q)
      BY <1>6a, <1>6b, <1>8, <2>3
    <2>4. CASE FromRun(p) /\ FromChain(q)
      BY <1>6a, <1>6b, <1>8, <2>4
    <2> QED
      BY <1>4, <1>8, <2>1, <2>2, <2>3, <2>4
  <1> QED
    BY <1>7, <1>8 DEF NoRepeat

-----------------------------------------------------------------------------
(* What LockDiscipline says of a thread.                                   *)
Disciplined(t) ==
  /\ IF pc[t] \in {"lock", "check", "splice", "take"}
     THEN at[t] \in Cpu /\ want[t] \in 1..MaxRequest
     ELSE want[t] = 0
  /\ pc[t] \in {"check", "splice", "take"} => mutex[at[t]] = t
  /\ pc[t] = "splice" => mutex[GLOBAL] = t

LEMMA GlobalApart == GLOBAL \in List /\ GLOBAL \notin Cpu
  BY PoolAssumption DEF GLOBAL, List, Cpu

(* The steps that leave the lists and the pages in hand alone.             *)
LEMMA QuietLists ==
  ASSUME IInv, UNCHANGED <<pagelist, held>>
  PROVE  GlobalReal' /\ CountCovered' /\ NoDoubleAllocation'
  BY DEF IInv, GlobalReal, CountCovered, NoDoubleAllocation, Listed

LEMMA CallAllocInv ==
  ASSUME IInv, fault = "none", NEW t \in Thread, CallAlloc(t)
  PROVE  IInv'
  <1> USE DEF CallAlloc, Goto
  <1>1. TypeOK'
    BY DEF IInv, TypeOK, List
  <1>2. LockDiscipline'
    BY DEF IInv, TypeOK, LockDiscipline
  <1>3. BatchFresh'
    BY DEF IInv, TypeOK, BatchFresh
  <1>4. DryOnlyInRefill'
    BY DEF DryOnlyInRefill
  <1> QED
    BY <1>1, <1>2, <1>3, <1>4, QuietLists DEF IInv

LEMMA LockLocalInv ==
  ASSUME IInv, fault = "none", NEW t \in Thread, LockLocal(t)
  PROVE  IInv'
  <1> USE DEF LockLocal, Goto
  <1>1. TypeOK'
    BY DEF IInv, TypeOK
  <1>2. LockDiscipline'
    <2> SUFFICES ASSUME NEW u \in Thread PROVE Disciplined(u)'
      BY DEF Disciplined, LockDiscipline
    <2>1. Disciplined(u) /\ Disciplined(t)
      BY DEF IInv, LockDiscipline, Disciplined
    <2>2. /\ pc[t] = "lock" /\ mutex[at[t]] = NoThread /\ NoThread \notin Thread
          /\ at' = at /\ want' = want /\ at[t] \in List /\ at[u] \in List /\ GLOBAL \in List
          /\ mutex' = [mutex EXCEPT ![at[t]] = t] /\ pc' = [pc EXCEPT ![t] = "check"]
      BY PoolAssumption, GlobalApart DEF IInv, TypeOK
    <2> QED
      BY <2>1, <2>2 DEF IInv, TypeOK, Disciplined
  <1>3. BatchFresh'
    BY DEF IInv, TypeOK, BatchFresh
  <1>4. DryOnlyInRefill'
    BY DEF DryOnlyInRefill
  <1> QED
    BY <1>1, <1>2, <1>3, <1>4, QuietLists DEF IInv

LEMMA FillWalkInv ==
  ASSUME IInv, fault = "none", NEW t \in Thread, FillWalk(t)
  PROVE  IInv'
  <1> USE DEF FillWalk, Goto
  <1>1. TypeOK'
    <2>1. pagelist[GLOBAL].chain \in Seq(Slot) /\ GLOBAL \in List
      BY DEF IInv, TypeOK, List, Slot
    <2>2. SubSeq(pagelist[GLOBAL].chain, 1, Fill) \in Seq(Slot)
      BY <2>1, CutChain, PoolAssumption
    <2> QED
      BY <2>1, <2>2 DEF IInv, TypeOK, Slot
  <1>2. LockDiscipline'
    <2> SUFFICES ASSUME NEW u \in Thread PROVE Disciplined(u)'
      BY DEF Disciplined, LockDiscipline
    <2>1. Disciplined(u) /\ Disciplined(t)
      BY DEF IInv, LockDiscipline, Disciplined
    <2>2. /\ pc[t] = "check" /\ mutex[GLOBAL] = NoThread /\ NoThread \notin Thread
          /\ at' = at /\ want' = want /\ at[t] \in List /\ at[u] \in List /\ GLOBAL \in List
          /\ mutex' = [mutex EXCEPT ![GLOBAL] = t] /\ pc' = [pc EXCEPT ![t] = "splice"]
          /\ GLOBAL \notin Cpu
      BY PoolAssumption, GlobalApart DEF IInv, TypeOK
    <2> QED
      BY <2>1, <2>2 DEF IInv, TypeOK, Disciplined
  <1>3. BatchFresh'
    BY DEF IInv, TypeOK, BatchFresh
  <1>4. DryOnlyInRefill'
    BY DEF DryOnlyInRefill
  <1> QED
    BY <1>1, <1>2, <1>3, <1>4, QuietLists DEF IInv

LEMMA TakeWalkInv ==
  ASSUME IInv, fault = "none", NEW t \in Thread, TakeWalk(t)
  PROVE  IInv'
  <1> USE DEF TakeWalk, Goto
  <1>0. at[t] \in Cpu /\ at[t] \in List /\ want[t] \in Nat
    BY DEF IInv, TypeOK, LockDiscipline, List
  <1>1. TypeOK'
    <2>1. pagelist[at[t]].chain \in Seq(Slot)
      BY <1>0 DEF IInv, TypeOK, Slot
    <2>2. SubSeq(pagelist[at[t]].chain, 1, want[t]) \in Seq(Slot)
      BY <1>0, <2>1, CutChain
    <2> QED
      BY <2>1, <2>2 DEF IInv, TypeOK, Slot
  <1>2. LockDiscipline'
    BY DEF IInv, TypeOK, LockDiscipline
  <1>3. BatchFresh'
    BY <1>0 DEF IInv, TypeOK, BatchFresh, NeedsFill
  <1>4. DryOnlyInRefill'
    BY DEF DryOnlyInRefill
  <1> QED
    BY <1>1, <1>2, <1>3, <1>4, QuietLists DEF IInv

LEMMA FaultInv ==
  ASSUME IInv, fault = "none", NEW t \in Thread, LinkSuperblock(t) \/ WalkOff(t)
  PROVE  IInv'
  <1>1. UNCHANGED <<pagelist, mutex, pc, at, want, batch, held>>
    BY DEF LinkSuperblock, WalkOff
  <1>2. TypeOK'
    BY <1>1 DEF IInv, TypeOK, LinkSuperblock, WalkOff
  <1>3. LockDiscipline' /\ BatchFresh'
    BY <1>1 DEF IInv, LockDiscipline, BatchFresh
  <1>4. DryOnlyInRefill'
    <2>1. CASE LinkSuperblock(t)
      BY <2>1 DEF LinkSuperblock, DryOnlyInRefill
    <2>2. CASE WalkOff(t)
      <3>1. at[t] \in Cpu /\ pagelist[at[t]].count \in Nat /\ want[t] \in Nat
        BY <2>2 DEF IInv, TypeOK, LockDiscipline, WalkOff, List
      <3>2. ASSUME ~NeedsFill(pagelist[at[t]], want[t])
            PROVE  FALSE
        <4>1. pagelist[at[t]].count >= want[t]
          BY <3>1, <3>2 DEF NeedsFill
        <4>2. Len(pagelist[at[t]].chain) < want[t]
          BY <2>2, <3>2 DEF WalkOff, Source, Distance
        <4>3. pagelist[at[t]].count <= Len(pagelist[at[t]].chain)
          BY <3>1 DEF IInv, CountCovered
        <4>4. Len(pagelist[at[t]].chain) \in Nat
          BY <3>1 DEF IInv, TypeOK, List
        <4> QED
          BY <3>1, <4>1, <4>2, <4>3, <4>4
      <3> QED
        BY <1>1, <2>2, <3>2 DEF WalkOff, Source, Distance, DryOnlyInRefill
    <2> QED
      BY <2>1, <2>2
  <1> QED
    BY <1>1, <1>2, <1>3, <1>4, QuietLists DEF IInv

LEMMA CallFreeInv ==
  ASSUME IInv, fault = "none", NEW t \in Thread, CallFree(t)
  PROVE  IInv'
  <1> USE DEF CallFree, Goto
  <1>0. PICK c \in Cpu, s \in Chains(held[t]) :
          /\ at' = [at EXCEPT ![t] = IF pagelist[c].count > Fill THEN GLOBAL ELSE c]
          /\ batch' = [batch EXCEPT ![t] = s]
    OBVIOUS
  <1>0a. PICK n \in 1..MaxRequest : s \in [1..n -> held[t]] /\ IsInjective(s)
    BY DEF Chains
  <1>1. /\ s \in Seq(held[t]) \ {<<>>} /\ held[t] \subseteq Page /\ s \in Seq(Page)
        /\ IsInjective(s)
    BY <1>0a, PoolAssumption DEF IInv, TypeOK
  <1>2. s \in Seq(Slot)
    BY <1>1 DEF Slot
  <1>3. TypeOK'
    BY <1>0, <1>2 DEF IInv, TypeOK, List, Slot
  <1>4. LockDiscipline'
    BY <1>0 DEF IInv, TypeOK, LockDiscipline
  <1>5. BatchFresh'
    BY <1>0, <1>1 DEF IInv, TypeOK, BatchFresh
  <1>6. DryOnlyInRefill'
    BY DEF DryOnlyInRefill
  <1> QED
    BY <1>3, <1>4, <1>5, <1>6, QuietLists DEF IInv

-----------------------------------------------------------------------------
(* The carving: the runs of pages the boot gives to different lists do not *)
(* overlap, and the global list keeps what lies below all of them.         *)
LEMMA Monotone ==
  ASSUME NEW a \in Nat, NEW b \in Nat, NEW k \in Nat, a <= b
  PROVE  a * k <= b * k
  <1>1. b * k = a * k + (b - a) * k
    OBVIOUS
  <1>2. (b - a) * k >= 0
    OBVIOUS
  <1> QED
    BY <1>1, <1>2

LEMMA DescendingChain ==
  ASSUME NEW n \in Nat, NEW top \in Nat, n <= top, top <= NumPages
  PROVE  /\ Descending(top, n) \in Seq(Slot)
         /\ Len(Descending(top, n)) = n
         /\ NoRepeat(Descending(top, n))
         /\ \A i \in 1..n : Descending(top, n)[i] \in Page
         /\ Range(Descending(top, n)) \subseteq (top - n + 1)..top
  <1>1. \A i \in 1..n : top + 1 - i \in Page /\ top + 1 - i \in (top - n + 1)..top
    BY PoolAssumption DEF Page
  <1> QED
    BY <1>1 DEF Descending, NoRepeat, Range, Slot

LEMMA Carving ==
  ASSUME NEW c \in 1..NumCarved
  PROVE  /\ NumPages - (c - 1) * Fill \in Nat
         /\ NumPages - (c - 1) * Fill <= NumPages
         /\ NumPages - c * Fill \in Nat
         /\ NumPages - c * Fill = NumPages - (c - 1) * Fill - Fill
         /\ NumPages - NumCarved * Fill <= NumPages - c * Fill
         /\ NumPages - NumCarved * Fill \in Nat
         /\ NumPages - NumCarved * Fill <= NumPages
  <1>1. c \in Nat /\ c - 1 \in Nat /\ NumCarved \in Nat /\ c <= NumCarved
    BY PoolAssumption
  <1>2. c * Fill <= NumCarved * Fill
    BY <1>1, Monotone, PoolAssumption
  <1>3. c * Fill = (c - 1) * Fill + Fill
    BY <1>1, PoolAssumption
  <1>4. (c - 1) * Fill \in Nat /\ c * Fill \in Nat /\ NumCarved * Fill \in Nat
    BY <1>1, PoolAssumption
  <1> QED
    BY <1>1, <1>2, <1>3, <1>4, PoolAssumption

LEMMA InitInv ==
  Init => IInv
  <1> SUFFICES ASSUME Init PROVE IInv
    OBVIOUS
  <1> DEFINE left == NumPages - NumCarved * Fill
             Base(c) == NumPages - (c - 1) * Fill
  <1>1. /\ GLOBAL \in List /\ GLOBAL \notin Cpu /\ SUPERBLOCK \notin Page
        /\ NumPages \in Nat /\ Fill \in Nat \ {0} /\ NumCarved \in Nat
        /\ NumCpus \in Nat /\ NumCarved <= NumCpus
    BY PoolAssumption DEF GLOBAL, List, Cpu, SUPERBLOCK, Page
  <1>2. left \in Nat /\ left <= NumPages
    <2>1. NumCarved * Fill \in Nat
      BY <1>1
    <2> QED
      BY <1>1, <2>1, PoolAssumption
  <1> HIDE DEF left
  <1>3. /\ pagelist[GLOBAL] = BootGlobal
        /\ \A c \in Cpu : c \in List /\ pagelist[c] = BootLocal(c)
        /\ pagelist = [l \in List |-> pagelist[l]]
    BY <1>1 DEF Init, List
  <1>3a. BootGlobal = [chain |-> Descending(left, left), count |-> left]
    BY DEF BootGlobal, left
  <1>3b. ASSUME NEW c \in 1..NumCarved
         PROVE  /\ c \in Cpu
                /\ BootLocal(c) = [chain |-> Descending(Base(c), Fill), count |-> Fill]
    <2>1. c \in Cpu /\ c <= NumCarved
      BY <1>1 DEF Cpu
    <2> QED
      BY <2>1 DEF BootLocal
  <1>3c. ASSUME NEW c \in Cpu, c \notin 1..NumCarved
         PROVE  BootLocal(c) = [chain |-> <<SUPERBLOCK>>, count |-> 0]
    <2>1. ~(c <= NumCarved)
      BY <1>1, <1>3c DEF Cpu
    <2> QED
      BY <2>1 DEF BootLocal
  <1>4. /\ pagelist[GLOBAL].chain \in Seq(Slot) /\ pagelist[GLOBAL].count \in Nat
        /\ NoRepeat(pagelist[GLOBAL].chain)
        /\ Range(pagelist[GLOBAL].chain) \subseteq Page
        /\ Range(pagelist[GLOBAL].chain) \subseteq 1..left
    <2>1. /\ Descending(left, left) \in Seq(Slot)
          /\ NoRepeat(Descending(left, left))
          /\ Range(Descending(left, left)) \subseteq (left - left + 1)..left
      BY <1>2, DescendingChain
    <2> QED
      BY <1>1, <1>2, <1>3, <1>3a, <2>1 DEF Page
  <1>5. ASSUME NEW c \in 1..NumCarved
        PROVE  /\ pagelist[c].chain \in Seq(Slot) /\ pagelist[c].count \in Nat
               /\ NoRepeat(pagelist[c].chain)
               /\ Range(pagelist[c].chain) \subseteq (Base(c) - Fill + 1)..Base(c)
               /\ pagelist[c].count <= Len(pagelist[c].chain)
               /\ \A i \in 1..pagelist[c].count : pagelist[c].chain[i] \in Page
               /\ Base(c) \in Nat /\ left <= Base(c) - Fill
    <2>1. Base(c) \in Nat /\ Base(c) <= NumPages /\ Fill <= Base(c)
          /\ left <= Base(c) - Fill
      BY Carving, <1>1, <1>2 DEF left
    <2> HIDE DEF Base
    <2>2. /\ Descending(Base(c), Fill) \in Seq(Slot)
          /\ Len(Descending(Base(c), Fill)) = Fill
          /\ NoRepeat(Descending(Base(c), Fill))
          /\ \A i \in 1..Fill : Descending(Base(c), Fill)[i] \in Page
          /\ Range(Descending(Base(c), Fill)) \subseteq (Base(c) - Fill + 1)..Base(c)
      BY <1>1, <2>1, DescendingChain
    <2>3. pagelist[c] = [chain |-> Descending(Base(c), Fill), count |-> Fill]
      BY <1>3, <1>3b DEF Base
    <2>4. pagelist[c].chain = Descending(Base(c), Fill) /\ pagelist[c].count = Fill
      BY <2>3
    <2> QED
      BY <1>1, <2>1, <2>2, <2>4
  <1>6. ASSUME NEW c \in Cpu, c \notin 1..NumCarved
        PROVE  /\ pagelist[c].chain \in Seq(Slot) /\ pagelist[c].count = 0
               /\ Listed(c) = {} /\ NoRepeat(pagelist[c].chain)
    <2>1. pagelist[c].chain = <<SUPERBLOCK>> /\ pagelist[c].count = 0
      BY <1>3, <1>3c, <1>6
    <2>2. <<SUPERBLOCK>> \in Seq(Slot)
      BY DEF Slot
    <2>3. DOMAIN <<SUPERBLOCK>> = 1..1 /\ <<SUPERBLOCK>>[1] = SUPERBLOCK
      OBVIOUS
    <2>4. NoRepeat(<<SUPERBLOCK>>)
      BY <1>1, <2>3 DEF NoRepeat
    <2>5. Range(<<SUPERBLOCK>>) \cap Page = {}
      BY <1>1, <2>3 DEF Range
    <2> QED
      BY <2>1, <2>2, <2>4, <2>5 DEF Listed
  <1>7. ASSUME NEW c \in 1..NumCarved, NEW d \in 1..NumCarved, c < d
        PROVE  Listed(c) \cap Listed(d) = {}
    <2>1. Base(d) <= Base(c) - Fill
      <3>1. c \in Nat /\ d - 1 \in Nat /\ c <= d - 1
        BY <1>1, <1>7
      <3>2. c * Fill <= (d - 1) * Fill
        BY <1>1, <3>1, Monotone
      <3>3. NumPages - c * Fill = Base(c) - Fill
        BY Carving
      <3>4. c * Fill \in Nat /\ (d - 1) * Fill \in Nat
        BY <1>1, <3>1
      <3> QED
        BY <1>1, <3>2, <3>3, <3>4
    <2>2. Base(c) \in Nat /\ Base(d) \in Nat
      BY <1>5
    <2>3. /\ Range(pagelist[c].chain) \subseteq (Base(c) - Fill + 1)..Base(c)
          /\ Range(pagelist[d].chain) \subseteq (Base(d) - Fill + 1)..Base(d)
      BY <1>5
    <2> HIDE DEF Base
    <2> QED
      BY <1>1, <2>1, <2>2, <2>3 DEF Listed
  <1>8. ASSUME NEW c \in 1..NumCarved
        PROVE  Listed(GLOBAL) \cap Listed(c) = {}
    <2>1. /\ Range(pagelist[c].chain) \subseteq (Base(c) - Fill + 1)..Base(c)
          /\ Base(c) \in Nat /\ left <= Base(c) - Fill
      BY <1>5
    <2> HIDE DEF Base
    <2> QED
      BY <1>1, <1>2, <1>4, <2>1 DEF Listed
  <1>9. \A l, m \in List : l # m => Listed(l) \cap Listed(m) = {}
    <2> SUFFICES ASSUME NEW l \in List, NEW m \in List, l # m
                 PROVE  Listed(l) \cap Listed(m) = {}
      OBVIOUS
    <2>1. CASE l = GLOBAL \/ m = GLOBAL
      BY <1>1, <1>6, <1>8, <2>1 DEF List
    <2>2. CASE l # GLOBAL /\ m # GLOBAL
      <3>1. l \in Cpu /\ m \in Cpu /\ (l < m \/ m < l)
        BY <2>2 DEF List, Cpu
      <3>2. CASE l \in 1..NumCarved /\ m \in 1..NumCarved
        BY <1>7, <3>1, <3>2
      <3> QED
        BY <1>6, <3>1, <3>2
    <2> QED
      BY <2>1, <2>2
  <1>10. \A l \in List : /\ pagelist[l].chain \in Seq(Slot) /\ pagelist[l].count \in Nat
                         /\ NoRepeat(pagelist[l].chain)
    BY <1>1, <1>4, <1>5, <1>6 DEF List
  <1>11. pagelist \in [List -> [chain : Seq(Slot), count : Nat]]
    <2>0. \A l \in List : pagelist[l] =
             [chain |-> pagelist[l].chain, count |-> pagelist[l].count]
      <3>1. pagelist[GLOBAL] =
              [chain |-> pagelist[GLOBAL].chain, count |-> pagelist[GLOBAL].count]
        BY <1>3, <1>3a
      <3>2. \A c \in Cpu : BootLocal(c) =
              [chain |-> BootLocal(c).chain, count |-> BootLocal(c).count]
        BY DEF BootLocal
      <3> QED
        BY <1>3, <3>1, <3>2 DEF List
    <2>1. ASSUME NEW l \in List
          PROVE  pagelist[l] \in [chain : Seq(Slot), count : Nat]
      <3> DEFINE s == pagelist[l].chain
                 n == pagelist[l].count
      <3>1. s \in Seq(Slot) /\ n \in Nat /\ pagelist[l] = [chain |-> s, count |-> n]
        BY <1>10, <2>0
      <3> HIDE DEF s, n
      <3> QED
        BY <3>1
    <2> QED
      BY <1>3, <2>1
  <1>12. TypeOK
    BY <1>1, <1>11, PoolAssumption DEF Init, TypeOK, Slot
  <1>13. LockDiscipline /\ BatchFresh /\ DryOnlyInRefill
    BY DEF Init, LockDiscipline, BatchFresh, DryOnlyInRefill
  <1>14. CountCovered
    BY <1>1, <1>5, <1>6, <1>10 DEF CountCovered, List
  <1>15. NoDoubleAllocation
    BY <1>9, <1>10 DEF Init, NoDoubleAllocation
  <1> QED
    BY <1>4, <1>12, <1>13, <1>14, <1>15 DEF IInv, GlobalReal

-----------------------------------------------------------------------------
(* The steps that move pages.                                              *)
LEMMA ListTyping ==
  ASSUME TypeOK, NEW l \in List
  PROVE  /\ pagelist[l].chain \in Seq(Slot)
         /\ pagelist[l].count \in Nat
         /\ Len(pagelist[l].chain) \in Nat
         /\ DOMAIN pagelist[l].chain = 1..Len(pagelist[l].chain)
  BY DEF TypeOK, Slot

LEMMA Places ==
  /\ GLOBAL \in List /\ GLOBAL \notin Cpu /\ SUPERBLOCK \notin Page
  /\ Cpu \subseteq List /\ List = Cpu \cup {GLOBAL}
  /\ Fill \in Nat /\ Fill >= 1 /\ U64 \in Nat /\ U64 > 0
  BY PoolAssumption DEF GLOBAL, List, Cpu, SUPERBLOCK, Page

LEMMA FillSpliceInv ==
  ASSUME IInv, fault = "none", NEW t \in Thread, FillSplice(t)
  PROVE  IInv'
  <1>0. PICK c \in List : c = at[t]
    BY DEF IInv, TypeOK
  <1>0a. /\ mutex' = [mutex EXCEPT ![GLOBAL] = NoThread]
         /\ batch' = [batch EXCEPT ![t] = <<>>]
         /\ pc' = [pc EXCEPT ![t] = "check"]
         /\ pc[t] = "splice" /\ ~HeadIsSuperblock(c)
         /\ UNCHANGED <<at, want, held, fault>>
    BY <1>0 DEF FillSplice, Goto
  <1> DEFINE g == pagelist[GLOBAL].chain
             old == pagelist[c].chain
             run == batch[t]
             new == SpliceRefill(old, run)
             top == After(g, Fill)
             n == pagelist[c].count
             m == (pagelist[GLOBAL].count - Fill) % U64
  <1>1. /\ c \in Cpu /\ c \in List /\ c # GLOBAL
        /\ mutex[c] = t /\ mutex[GLOBAL] = t
        /\ Fill <= Len(g) /\ run = SubSeq(g, 1, Fill)
    BY <1>0, <1>0a, Places DEF IInv, LockDiscipline, BatchFresh
  <1>2. /\ g \in Seq(Slot) /\ old \in Seq(Slot) /\ n \in Nat
        /\ pagelist[GLOBAL].count \in Nat
        /\ Len(g) \in Nat /\ Len(old) \in Nat
        /\ DOMAIN g = 1..Len(g) /\ DOMAIN old = 1..Len(old)
    BY <1>1, Places, ListTyping DEF IInv
  <1>3. m \in Nat
    BY <1>2, Places
  <1>4. pagelist' = [pagelist EXCEPT ![GLOBAL] = [chain |-> top, count |-> m],
                                     ![c] = [chain |-> new, count |-> n + Fill]]
    BY <1>0, <1>1, Places DEF FillSplice, IInv, TypeOK
  <1>4a. new = SpliceRefill(old, run) /\ top = After(g, Fill)
    OBVIOUS
  <1>5. /\ NoRepeat(run) /\ NoRepeat(top)
        /\ PagesOf(run) \subseteq PagesOf(g) /\ PagesOf(top) \subseteq PagesOf(g)
        /\ PagesOf(run) \cap PagesOf(top) = {}
    BY <1>1, <1>2, Places, CutDisjoint DEF IInv, NoDoubleAllocation
  <1> HIDE DEF g, old, run, new, top, n, m
  <1>6a. run = SubSeq(g, 1, Fill) /\ g \in Seq(Slot) /\ Fill \in Nat /\ Fill <= Len(g)
    BY <1>1, <1>2, Places
  <1>6b. /\ run \in Seq(Slot) /\ Len(run) = Fill
         /\ \A i \in 1..Fill : run[i] = g[i]
         /\ top \in Seq(Slot) /\ Len(top) = Len(g) - Fill
         /\ \A i \in 1..(Len(g) - Fill) : top[i] = g[Fill + i]
    BY <1>4a, <1>6a, CutChain
  <1>6. /\ run \in Seq(Slot) /\ Len(run) = Fill /\ DOMAIN run = 1..Fill
        /\ \A i \in 1..Fill : run[i] = g[i]
        /\ top \in Seq(Slot) /\ DOMAIN top = 1..(Len(g) - Fill)
        /\ \A i \in 1..(Len(g) - Fill) : top[i] = g[Fill + i]
    BY <1>6a, <1>6b, <1>2
  <1>7. Range(g) \subseteq Page
    BY DEF IInv, GlobalReal, g
  <1>8. run \in Seq(Page)
    <2>1. \A i \in 1..Fill : run[i] \in Page
      BY <1>1, <1>2, <1>6, <1>7, Places DEF Range
    <2> QED
      BY <1>6, <2>1
  <1>9. Range(top) \subseteq Page
    <2>1. \A i \in 1..(Len(g) - Fill) : Fill + i \in 1..Len(g)
      BY <1>1, <1>2, Places
    <2>2. \A i \in 1..(Len(g) - Fill) : top[i] \in Page
      BY <1>2, <1>6, <1>7, <2>1 DEF Range
    <2> QED
      BY <1>6, <2>2 DEF Range
  <1>10. /\ PagesOf(g) = Listed(GLOBAL) /\ PagesOf(old) = Listed(c)
         /\ PagesOf(g) \cap PagesOf(old) = {} /\ NoRepeat(old)
    BY <1>1, Places DEF IInv, NoDoubleAllocation, Listed, PagesOf, g, old
  <1>10a. ASSUME old # <<>>
          PROVE  /\ new \in Seq(Slot)
                 /\ Len(new) >= Len(old) + Len(run)
                 /\ new[1] = old[1]
                 /\ \A i \in 1..Len(run) : new[1 + i] = run[i]
                 /\ \A i \in 2..Len(old) : new[Len(run) + i] = old[i]
                 /\ \A i \in (Len(old) + Len(run) + 1)..Len(new) : new[i] = SUPERBLOCK
    BY <1>2, <1>4a, <1>8, <1>10a, RefillChain
  <1>11. /\ new \in Seq(Slot) /\ NoRepeat(new)
         /\ PagesOf(new) \subseteq PagesOf(old) \cup PagesOf(run)
    <2>1. CASE old = <<>>
      BY <1>5, <1>6, <2>1 DEF new, SpliceRefill
    <2>2. CASE old # <<>>
      <3>1. NoRepeat(old) /\ NoRepeat(run)
        BY <1>5, <1>10
      <3>2. PagesOf(old) \cap PagesOf(run) = {}
        BY <1>5, <1>10
      <3> QED
        BY <1>2, <1>8, <1>10a, <2>2, <3>1, <3>2, LinkDisjoint
    <2> QED
      BY <2>1, <2>2
  <1>12. n + Fill <= Len(new) /\ \A i \in 1..(n + Fill) : new[i] \in Page
    <2>1. n <= Len(old) /\ \A i \in 1..n : old[i] \in Page
      BY <1>1 DEF IInv, CountCovered, n, old
    <2>2. CASE old = <<>>
      <3>1. n = 0 /\ new = run
        BY <1>2, <2>1, <2>2 DEF new, SpliceRefill
      <3> QED
        BY <1>6, <1>8, <3>1, Places
    <2>3. CASE old # <<>>
      <3>1. /\ Len(new) >= Len(old) + Len(run) /\ Len(new) \in Nat
            /\ new[1] = old[1]
            /\ \A i \in 1..Len(run) : new[1 + i] = run[i]
            /\ \A i \in 2..Len(old) : new[Len(run) + i] = old[i]
        BY <1>10a, <2>3
      <3>2. old[1] \in Page
        <4>1. Head(old) # SUPERBLOCK
          BY <1>0a, <2>3 DEF HeadIsSuperblock, old
        <4>2. Head(old) = old[1] /\ old[1] \in Slot
          BY <1>2, <2>3
        <4> QED
          BY <4>1, <4>2 DEF Slot
      <3>3. ASSUME NEW i \in 1..(n + Fill)
            PROVE  new[i] \in Page
        <4>1. CASE i = 1
          BY <3>1, <3>2, <4>1
        <4>2. CASE i \in 2..(Fill + 1)
          <5>1. i - 1 \in 1..Fill /\ i = 1 + (i - 1)
            BY <4>2, Places
          <5>2. new[i] = run[i - 1]
            BY <1>6, <3>1, <5>1
          <5> QED
            BY <1>6, <1>8, <5>1, <5>2
        <4>3. CASE i \in (Fill + 2)..(Fill + n)
          <5>1. i - Fill \in 2..n /\ i = Fill + (i - Fill)
            BY <1>2, <4>3, Places
          <5>2. new[i] = old[i - Fill]
            BY <1>2, <1>6, <2>1, <3>1, <5>1
          <5> QED
            BY <1>2, <2>1, <5>1, <5>2
        <4> QED
          BY <1>2, <4>1, <4>2, <4>3, Places
      <3> QED
        BY <1>2, <1>6, <2>1, <3>1, <3>3, Places
    <2> QED
      BY <2>2, <2>3
  <1>13. /\ pagelist'[GLOBAL] = [chain |-> top, count |-> m]
         /\ pagelist'[c] = [chain |-> new, count |-> n + Fill]
         /\ \A l \in List : l # GLOBAL /\ l # c => pagelist'[l] = pagelist[l]
         /\ DOMAIN pagelist' = List
    BY <1>1, <1>4, Places DEF IInv, TypeOK
  <1>14. TypeOK'
    <2>1. /\ [chain |-> top, count |-> m] \in [chain : Seq(Slot), count : Nat]
          /\ [chain |-> new, count |-> n + Fill] \in [chain : Seq(Slot), count : Nat]
      BY <1>2, <1>3, <1>6, <1>11, Places
    <2>2. pagelist' \in [List -> [chain : Seq(Slot), count : Nat]]
      BY <1>4, <2>1 DEF IInv, TypeOK, Slot
    <2>3. /\ mutex' \in [List -> Thread \cup {NoThread}]
          /\ pc' \in [Thread -> {"idle", "lock", "check", "splice", "take", "free"}]
          /\ batch' \in [Thread -> Seq(Slot)]
      BY <1>0a, Places DEF IInv, TypeOK, Slot
    <2> QED
      BY <1>0a, <2>2, <2>3 DEF IInv, TypeOK, Slot
  <1>15. LockDiscipline'
    BY <1>0, <1>0a, <1>1, Places, PoolAssumption DEF IInv, TypeOK, LockDiscipline
  <1>16. BatchFresh'
    <2> SUFFICES ASSUME NEW u \in Thread
                 PROVE  /\ pc'[u] = "splice" =>
                            /\ Fill <= Len(pagelist'[GLOBAL].chain)
                            /\ batch'[u] = SubSeq(pagelist'[GLOBAL].chain, 1, Fill)
                        /\ pc'[u] = "take" =>
                            /\ want'[u] <= pagelist'[at'[u]].count
                            /\ batch'[u] = SubSeq(pagelist'[at'[u]].chain, 1, want'[u])
                        /\ pc'[u] = "free" =>
                            batch'[u] \in Seq(held'[u]) \ {<<>>} /\ IsInjective(batch'[u])
      BY DEF BatchFresh
    <2>1. CASE u = t
      BY <1>0a, <2>1 DEF IInv, TypeOK
    <2>2. CASE u # t
      <3>1. /\ pc'[u] = pc[u] /\ batch'[u] = batch[u] /\ want'[u] = want[u]
            /\ at'[u] = at[u] /\ held'[u] = held[u]
        BY <1>0a, <2>2 DEF IInv, TypeOK
      <3>2. pc[u] # "splice"
        BY <1>1, <2>2 DEF IInv, LockDiscipline
      <3>3. pc[u] = "take" => at[u] \in List /\ at[u] # GLOBAL /\ at[u] # c
        BY <1>1, <2>2, Places DEF IInv, LockDiscipline
      <3>4. pc[u] = "take" => pagelist'[at[u]] = pagelist[at[u]]
        BY <1>13, <3>3
      <3> QED
        BY <3>1, <3>2, <3>4 DEF IInv, BatchFresh
    <2> QED
      BY <2>1, <2>2
  <1>17. GlobalReal'
    BY <1>9, <1>13 DEF GlobalReal
  <1>18. CountCovered'
    BY <1>12, <1>13, Places DEF IInv, CountCovered
  <1>19. NoDoubleAllocation'
    <2> DEFINE Now(l) == PagesOf(pagelist'[l].chain)
    <2>1. /\ Now(GLOBAL) = PagesOf(top) /\ Now(c) = PagesOf(new)
          /\ \A l \in List : l # GLOBAL /\ l # c => Now(l) = Listed(l)
      BY <1>13 DEF Listed, PagesOf
    <2>2. \A l \in List : NoRepeat(pagelist'[l].chain)
      BY <1>5, <1>11, <1>13 DEF IInv, NoDoubleAllocation
    <2>3. \A l \in List : Listed(l)' = Now(l)
      BY DEF Listed, PagesOf
    <2> HIDE DEF Now
    <2>4. /\ Now(GLOBAL) \subseteq Listed(GLOBAL)
          /\ Now(c) \subseteq Listed(c) \cup Listed(GLOBAL)
          /\ Now(GLOBAL) \cap Now(c) = {}
      BY <1>5, <1>10, <1>11, <2>1
    <2>5. \A l, k \in List : l # k => Listed(l) \cap Listed(k) = {}
      BY DEF IInv, NoDoubleAllocation
    <2>6. ASSUME NEW l \in List, NEW k \in List, l # k
          PROVE  Now(l) \cap Now(k) = {}
      BY <1>1, <2>1, <2>4, <2>5, <2>6, Places
    <2>7. /\ \A l \in List, u \in Thread : Listed(l) \cap held[u] = {}
          /\ \A u, v \in Thread : u # v => held[u] \cap held[v] = {}
      BY DEF IInv, NoDoubleAllocation
    <2>8. ASSUME NEW l \in List, NEW u \in Thread
          PROVE  Now(l) \cap held[u] = {}
      BY <1>1, <2>1, <2>4, <2>7, Places
    <2> QED
      BY <1>0a, <2>2, <2>3, <2>6, <2>7, <2>8 DEF NoDoubleAllocation
  <1>20. DryOnlyInRefill'
    BY <1>0a DEF DryOnlyInRefill
  <1> QED
    BY <1>14, <1>15, <1>16, <1>17, <1>18, <1>19, <1>20 DEF IInv

LEMMA TakeUnlinkInv ==
  ASSUME IInv, fault = "none", NEW t \in Thread, TakeUnlink(t)
  PROVE  IInv'
  <1>0. PICK c \in List : c = at[t]
    BY DEF IInv, TypeOK
  <1>0a. /\ mutex' = [mutex EXCEPT ![c] = NoThread]
         /\ batch' = [batch EXCEPT ![t] = <<>>]
         /\ pc' = [pc EXCEPT ![t] = "idle"]
         /\ at' = [at EXCEPT ![t] = GLOBAL]
         /\ want' = [want EXCEPT ![t] = 0]
         /\ held' = [held EXCEPT ![t] = @ \cup Range(batch[t])]
         /\ pc[t] = "take"
         /\ fault' = fault
    BY <1>0 DEF TakeUnlink, Return, Goto
  <1> DEFINE old == pagelist[c].chain
             n == pagelist[c].count
             k == want[t]
             run == batch[t]
             top == After(old, k)
  <1>1. /\ c \in Cpu /\ c # GLOBAL /\ mutex[c] = t
        /\ k \in 1..MaxRequest /\ k <= n /\ run = SubSeq(old, 1, k)
    BY <1>0, <1>0a, Places DEF IInv, LockDiscipline, BatchFresh
  <1>2. /\ old \in Seq(Slot) /\ n \in Nat /\ Len(old) \in Nat
        /\ DOMAIN old = 1..Len(old)
    BY ListTyping DEF IInv
  <1>3. n <= Len(old) /\ \A i \in 1..n : old[i] \in Page
    BY <1>1 DEF IInv, CountCovered
  <1>4. pagelist' = [pagelist EXCEPT ![c] = [chain |-> top, count |-> n - k]]
    BY <1>0 DEF TakeUnlink
  <1>5. k \in Nat /\ k >= 1 /\ k <= Len(old)
    BY <1>1, <1>2, <1>3, PoolAssumption
  <1>6. top = After(old, k)
    OBVIOUS
  <1>7. NoRepeat(old) /\ PagesOf(old) = Listed(c)
    BY DEF IInv, NoDoubleAllocation, Listed, PagesOf
  <1> HIDE DEF old, n, k, run, top
  <1>8. /\ run \in Seq(Slot) /\ Len(run) = k
        /\ \A i \in 1..k : run[i] = old[i]
        /\ top \in Seq(Slot) /\ Len(top) = Len(old) - k
        /\ \A i \in 1..(Len(old) - k) : top[i] = old[k + i]
    BY <1>1, <1>2, <1>5, <1>6, CutChain
  <1>9. /\ NoRepeat(top)
        /\ PagesOf(run) \subseteq PagesOf(old) /\ PagesOf(top) \subseteq PagesOf(old)
        /\ PagesOf(run) \cap PagesOf(top) = {}
    BY <1>1, <1>2, <1>5, <1>6, <1>7, CutDisjoint
  <1>10. Range(run) \subseteq Page /\ Range(run) = PagesOf(run)
    <2>1. DOMAIN run = 1..k
      BY <1>8
    <2>2. \A i \in 1..k : run[i] \in Page
      BY <1>1, <1>2, <1>3, <1>5, <1>8
    <2> QED
      BY <2>1, <2>2 DEF Range, PagesOf
  <1>11. /\ pagelist'[c] = [chain |-> top, count |-> n - k]
         /\ \A l \in List : l # c => pagelist'[l] = pagelist[l]
    BY <1>4 DEF IInv, TypeOK
  <1>12. /\ held'[t] = held[t] \cup PagesOf(run)
         /\ \A u \in Thread : u # t => held'[u] = held[u]
    BY <1>0a, <1>10 DEF IInv, TypeOK, run
  <1>13. TypeOK'
    <2>1. n - k \in Nat
      BY <1>1, <1>2, <1>5
    <2>2. [chain |-> top, count |-> n - k] \in [chain : Seq(Slot), count : Nat]
      BY <1>8, <2>1
    <2>3. pagelist' \in [List -> [chain : Seq(Slot), count : Nat]]
      BY <1>4, <2>2 DEF IInv, TypeOK, Slot
    <2>4. /\ mutex' \in [List -> Thread \cup {NoThread}]
          /\ pc' \in [Thread -> {"idle", "lock", "check", "splice", "take", "free"}]
          /\ batch' \in [Thread -> Seq(Slot)]
          /\ at' \in [Thread -> List] /\ want' \in [Thread -> 0..MaxRequest]
      BY <1>0a, Places, PoolAssumption DEF IInv, TypeOK, Slot
    <2>5. held' \in [Thread -> SUBSET Page]
      BY <1>0a, <1>10 DEF IInv, TypeOK, run
    <2> QED
      BY <1>0a, <2>3, <2>4, <2>5 DEF IInv, TypeOK, Slot
  <1>14. LockDiscipline'
    BY <1>0, <1>0a, <1>1, PoolAssumption DEF IInv, TypeOK, LockDiscipline
  <1>15. BatchFresh'
    <2> SUFFICES ASSUME NEW u \in Thread
                 PROVE  /\ pc'[u] = "splice" =>
                            /\ Fill <= Len(pagelist'[GLOBAL].chain)
                            /\ batch'[u] = SubSeq(pagelist'[GLOBAL].chain, 1, Fill)
                        /\ pc'[u] = "take" =>
                            /\ want'[u] <= pagelist'[at'[u]].count
                            /\ batch'[u] = SubSeq(pagelist'[at'[u]].chain, 1, want'[u])
                        /\ pc'[u] = "free" =>
                            batch'[u] \in Seq(held'[u]) \ {<<>>} /\ IsInjective(batch'[u])
      BY DEF BatchFresh
    <2>1. CASE u = t
      BY <1>0a, <2>1 DEF IInv, TypeOK
    <2>2. CASE u # t
      <3>1. /\ pc'[u] = pc[u] /\ batch'[u] = batch[u] /\ want'[u] = want[u]
            /\ at'[u] = at[u] /\ held'[u] = held[u]
        BY <1>0a, <2>2 DEF IInv, TypeOK
      <3>2. pagelist'[GLOBAL] = pagelist[GLOBAL]
        BY <1>1, <1>11, Places
      <3>3. pc[u] = "take" => at[u] \in List /\ at[u] # c
        BY <1>1, <2>2, Places DEF IInv, LockDiscipline
      <3>4. pc[u] = "take" => pagelist'[at[u]] = pagelist[at[u]]
        BY <1>11, <3>3
      <3> QED
        BY <3>1, <3>2, <3>4 DEF IInv, BatchFresh
    <2> QED
      BY <2>1, <2>2
  <1>16. GlobalReal'
    BY <1>1, <1>11, Places DEF IInv, GlobalReal
  <1>17. CountCovered'
    <2>1. n - k <= Len(top)
      BY <1>2, <1>3, <1>5, <1>8
    <2>2. ASSUME NEW i \in 1..(n - k)
          PROVE  top[i] \in Page
      <3>1. i \in 1..(Len(old) - k) /\ k + i \in 1..n
        BY <1>2, <1>3, <1>5
      <3> QED
        BY <1>3, <1>8, <3>1
    <2> QED
      BY <1>11, <2>1, <2>2, Places DEF IInv, CountCovered
  <1>18. NoDoubleAllocation'
    <2> DEFINE Now(l) == PagesOf(pagelist'[l].chain)
    <2>1. /\ Now(c) = PagesOf(top)
          /\ \A l \in List : l # c => Now(l) = Listed(l)
      BY <1>11 DEF Listed, PagesOf
    <2>2. \A l \in List : NoRepeat(pagelist'[l].chain)
      BY <1>9, <1>11 DEF IInv, NoDoubleAllocation
    <2>3. \A l \in List : Listed(l)' = Now(l)
      BY DEF Listed, PagesOf
    <2> HIDE DEF Now
    <2>4. \A l \in List : Now(l) \subseteq Listed(l)
      BY <1>7, <1>9, <2>1
    <2>5. /\ \A l, m \in List : l # m => Listed(l) \cap Listed(m) = {}
          /\ \A l \in List, u \in Thread : Listed(l) \cap held[u] = {}
          /\ \A u, v \in Thread : u # v => held[u] \cap held[v] = {}
      BY DEF IInv, NoDoubleAllocation
    <2>6. \A l, m \in List : l # m => Now(l) \cap Now(m) = {}
      BY <2>4, <2>5
    <2>7. PagesOf(run) \subseteq Listed(c) /\ PagesOf(run) \cap Now(c) = {}
      BY <1>7, <1>9, <2>1
    <2>8. ASSUME NEW l \in List, NEW u \in Thread
          PROVE  Now(l) \cap held'[u] = {}
      <3>1. Now(l) \cap held[u] = {}
        BY <2>4, <2>5
      <3>2. Now(l) \cap PagesOf(run) = {}
        BY <2>4, <2>5, <2>7
      <3> QED
        BY <1>12, <3>1, <3>2
    <2>9. ASSUME NEW u \in Thread, NEW v \in Thread, u # v
          PROVE  held'[u] \cap held'[v] = {}
      BY <1>12, <2>5, <2>7, <2>9
    <2> QED
      BY <2>2, <2>3, <2>6, <2>8, <2>9 DEF NoDoubleAllocation
  <1>19. DryOnlyInRefill'
    BY <1>0a DEF DryOnlyInRefill
  <1> QED
    BY <1>13, <1>14, <1>15, <1>16, <1>17, <1>18, <1>19 DEF IInv

LEMMA FreeLinkInv ==
  ASSUME IInv, fault = "none", NEW t \in Thread, FreeLink(t)
  PROVE  IInv'
  <1>0. PICK c \in List : c = at[t]
    BY DEF IInv, TypeOK
  <1>0a. /\ batch' = [batch EXCEPT ![t] = <<>>]
         /\ pc' = [pc EXCEPT ![t] = "idle"]
         /\ at' = [at EXCEPT ![t] = GLOBAL]
         /\ want' = [want EXCEPT ![t] = 0]
         /\ held' = [held EXCEPT ![t] = @ \ Range(batch[t])]
         /\ pc[t] = "free" /\ mutex[c] = NoThread /\ ~HeadIsSuperblock(c)
         /\ mutex' = mutex /\ fault' = fault
    BY <1>0 DEF FreeLink, Return, Goto
  <1> DEFINE old == pagelist[c].chain
             n == pagelist[c].count
             run == batch[t]
             new == SpliceFreed(old, run)
  <1>1. run \in Seq(held[t]) /\ IsInjective(run) /\ held[t] \subseteq Page
    BY <1>0a DEF IInv, TypeOK, BatchFresh
  <1>2. /\ old \in Seq(Slot) /\ n \in Nat /\ Len(old) \in Nat
        /\ DOMAIN old = 1..Len(old)
    BY ListTyping DEF IInv
  <1>3. pagelist' = [pagelist EXCEPT ![c] = [chain |-> new, count |-> n]]
    <2>1. pagelist' = [pagelist EXCEPT ![c] = [pagelist[c] EXCEPT !.chain = new]]
      BY <1>0 DEF FreeLink
    <2>2. pagelist[c] \in [chain : Seq(Slot), count : Nat]
      BY DEF IInv, TypeOK, Slot
    <2> HIDE DEF new
    <2>3. ASSUME NEW r \in [chain : Seq(Slot), count : Nat]
          PROVE  [r EXCEPT !.chain = new] = [chain |-> new, count |-> r.count]
      OBVIOUS
    <2>4. [pagelist[c] EXCEPT !.chain = new] = [chain |-> new, count |-> n]
      BY <2>2, <2>3
    <2> QED
      BY <2>1, <2>4
  <1>4. new = SpliceFreed(old, run)
    OBVIOUS
  <1>5. NoRepeat(old) /\ PagesOf(old) = Listed(c)
    BY DEF IInv, NoDoubleAllocation, Listed, PagesOf
  <1> HIDE DEF old, n, run, new
  <1>6. /\ run \in Seq(Page) /\ Len(run) \in Nat /\ DOMAIN run = 1..Len(run)
        /\ Range(run) \subseteq held[t] /\ PagesOf(run) = Range(run)
    <2>1. run \in Seq(Page) /\ DOMAIN run = 1..Len(run) /\ Len(run) \in Nat
      BY <1>1
    <2>2. \A i \in DOMAIN run : run[i] \in held[t]
      BY <1>1
    <2>3. Range(run) \subseteq held[t]
      BY <2>2 DEF Range
    <2> QED
      BY <1>1, <2>1, <2>3 DEF PagesOf
  <1>7. NoRepeat(run)
    BY <1>1 DEF IsInjective, NoRepeat
  <1>8. PagesOf(old) \cap PagesOf(run) = {}
    BY <1>5, <1>6 DEF IInv, NoDoubleAllocation
  <1>9. ASSUME old # <<>>
        PROVE  /\ new \in Seq(Slot) /\ Len(new) = Len(old) + Len(run)
               /\ new[1] = old[1]
               /\ \A i \in 1..Len(run) : new[1 + i] = run[i]
               /\ \A i \in 2..Len(old) : new[Len(run) + i] = old[i]
    BY <1>2, <1>4, <1>6, <1>9, FreedChain
  <1>10. ASSUME old = <<>>
         PROVE  new = old
    BY <1>4, <1>10 DEF SpliceFreed
  <1>11. /\ new \in Seq(Slot) /\ NoRepeat(new)
         /\ PagesOf(new) \subseteq PagesOf(old) \cup PagesOf(run)
    <2>1. CASE old = <<>>
      BY <1>2, <1>5, <1>10, <2>1
    <2>2. CASE old # <<>>
      <3>1. /\ Len(new) >= Len(old) + Len(run)
            /\ \A i \in (Len(old) + Len(run) + 1)..Len(new) : new[i] = SUPERBLOCK
        BY <1>2, <1>6, <1>9, <2>2
      <3> QED
        BY <1>2, <1>5, <1>6, <1>7, <1>8, <1>9, <2>2, <3>1, LinkDisjoint
    <2> QED
      BY <2>1, <2>2
  \* every node of the new chain is the head, a node of the run or a later old one
  <1>12. ASSUME old # <<>>, NEW i \in 1..Len(new)
         PROVE  \/ new[i] = old[1]
                \/ new[i] \in Page
                \/ i - Len(run) \in 2..Len(old) /\ new[i] = old[i - Len(run)]
    <2>1. CASE i = 1
      BY <1>9, <1>12, <2>1
    <2>2. CASE i \in 2..(Len(run) + 1)
      <3>1. i - 1 \in 1..Len(run) /\ i = 1 + (i - 1)
        BY <1>6, <2>2
      <3>2. new[i] = run[i - 1]
        BY <1>9, <1>12, <3>1
      <3> QED
        BY <1>6, <3>1, <3>2
    <2>3. CASE i \in (Len(run) + 2)..(Len(run) + Len(old))
      <3>1. i - Len(run) \in 2..Len(old) /\ i = Len(run) + (i - Len(run))
        BY <1>2, <1>6, <2>3
      <3> QED
        BY <1>9, <1>12, <3>1
    <2> QED
      BY <1>2, <1>6, <1>9, <1>12, <2>1, <2>2, <2>3
  <1>13. /\ pagelist'[c] = [chain |-> new, count |-> n]
         /\ \A l \in List : l # c => pagelist'[l] = pagelist[l]
    BY <1>3 DEF IInv, TypeOK
  <1>14. /\ held'[t] = held[t] \ PagesOf(run)
         /\ \A u \in Thread : u # t => held'[u] = held[u]
    BY <1>0a, <1>6 DEF IInv, TypeOK, run
  <1>15. TypeOK'
    <2>1. [chain |-> new, count |-> n] \in [chain : Seq(Slot), count : Nat]
      BY <1>2, <1>11
    <2>2. pagelist' \in [List -> [chain : Seq(Slot), count : Nat]]
      BY <1>3, <2>1 DEF IInv, TypeOK, Slot
    <2>3. /\ pc' \in [Thread -> {"idle", "lock", "check", "splice", "take", "free"}]
          /\ batch' \in [Thread -> Seq(Slot)]
          /\ at' \in [Thread -> List] /\ want' \in [Thread -> 0..MaxRequest]
      BY <1>0a, Places, PoolAssumption DEF IInv, TypeOK, Slot
    <2>4. held' \in [Thread -> SUBSET Page]
      BY <1>0a DEF IInv, TypeOK
    <2> QED
      BY <1>0a, <2>2, <2>3, <2>4 DEF IInv, TypeOK, Slot
  <1>16. LockDiscipline'
    BY <1>0a, PoolAssumption DEF IInv, TypeOK, LockDiscipline
  <1>17. BatchFresh'
    <2> SUFFICES ASSUME NEW u \in Thread
                 PROVE  /\ pc'[u] = "splice" =>
                            /\ Fill <= Len(pagelist'[GLOBAL].chain)
                            /\ batch'[u] = SubSeq(pagelist'[GLOBAL].chain, 1, Fill)
                        /\ pc'[u] = "take" =>
                            /\ want'[u] <= pagelist'[at'[u]].count
                            /\ batch'[u] = SubSeq(pagelist'[at'[u]].chain, 1, want'[u])
                        /\ pc'[u] = "free" =>
                            batch'[u] \in Seq(held'[u]) \ {<<>>} /\ IsInjective(batch'[u])
      BY DEF BatchFresh
    <2>1. CASE u = t
      BY <1>0a, <2>1 DEF IInv, TypeOK
    <2>2. CASE u # t
      <3>1. /\ pc'[u] = pc[u] /\ batch'[u] = batch[u] /\ want'[u] = want[u]
            /\ at'[u] = at[u] /\ held'[u] = held[u]
        BY <1>0a, <2>2 DEF IInv, TypeOK
      <3>2. pc[u] = "splice" => pagelist'[GLOBAL] = pagelist[GLOBAL]
        BY <1>0a, <1>13, Places, PoolAssumption DEF IInv, LockDiscipline
      <3>3. pc[u] = "take" => at[u] \in List /\ at[u] # c
        BY <1>0a, Places, PoolAssumption DEF IInv, LockDiscipline
      <3>4. pc[u] = "take" => pagelist'[at[u]] = pagelist[at[u]]
        BY <1>13, <3>3
      <3> QED
        BY <3>1, <3>2, <3>4 DEF IInv, BatchFresh
    <2> QED
      BY <2>1, <2>2
  <1>18. GlobalReal'
    <2>1. CASE c # GLOBAL
      BY <1>13, <2>1, Places DEF IInv, GlobalReal
    <2>2. CASE c = GLOBAL
      <3>1. \A i \in 1..Len(old) : old[i] \in Page
        BY <1>2, <2>2 DEF IInv, GlobalReal, Range, old
      <3>2. CASE old = <<>>
        BY <1>10, <1>13, <2>2, <3>2 DEF IInv, GlobalReal, old
      <3>3. CASE old # <<>>
        <4>1. 1 \in 1..Len(old)
          BY <1>2, <3>3
        <4>2. \A i \in 1..Len(new) : new[i] \in Page
          BY <1>2, <1>6, <1>12, <3>1, <3>3, <4>1
        <4>3. DOMAIN new = 1..Len(new)
          BY <1>11
        <4> QED
          BY <1>13, <2>2, <4>2, <4>3 DEF GlobalReal, Range
      <3> QED
        BY <3>2, <3>3
    <2> QED
      BY <2>1, <2>2
  <1>19. CountCovered'
    <2>1. CASE c = GLOBAL
      BY <1>13, <2>1, Places DEF IInv, CountCovered
    <2>2. CASE c # GLOBAL
      <3>1. n <= Len(old) /\ \A i \in 1..n : old[i] \in Page
        BY <2>2, Places DEF IInv, CountCovered, old, n
      <3>2. n <= Len(new) /\ \A i \in 1..n : new[i] \in Page
        <4>1. CASE old = <<>>
          BY <1>10, <3>1, <4>1
        <4>2. CASE old # <<>>
          <5>1. old[1] \in Page
            <6>1. Head(old) # SUPERBLOCK
              BY <1>0a, <4>2 DEF HeadIsSuperblock, old
            <6>2. Head(old) = old[1] /\ old[1] \in Slot
              BY <1>2, <4>2
            <6> QED
              BY <6>1, <6>2 DEF Slot
          <5>2. n <= Len(new)
            BY <1>2, <1>6, <1>9, <3>1, <4>2
          <5>3. ASSUME NEW i \in 1..n
                PROVE  new[i] \in Page
            <6>1. i \in 1..Len(new) /\ (i - Len(run) \in 2..Len(old) => i - Len(run) \in 1..n)
              BY <1>2, <1>6, <1>9, <3>1, <4>2
            <6> QED
              BY <1>12, <3>1, <4>2, <5>1, <6>1
          <5> QED
            BY <5>2, <5>3
        <4> QED
          BY <4>1, <4>2
      <3> QED
        BY <1>13, <3>2, Places DEF IInv, CountCovered
    <2> QED
      BY <2>1, <2>2
  <1>20. NoDoubleAllocation'
    <2> DEFINE Now(l) == PagesOf(pagelist'[l].chain)
    <2>1. /\ Now(c) = PagesOf(new)
          /\ \A l \in List : l # c => Now(l) = Listed(l)
      BY <1>13 DEF Listed, PagesOf
    <2>2. \A l \in List : NoRepeat(pagelist'[l].chain)
      BY <1>11, <1>13 DEF IInv, NoDoubleAllocation
    <2>3. \A l \in List : Listed(l)' = Now(l)
      BY DEF Listed, PagesOf
    <2> HIDE DEF Now
    <2>4. Now(c) \subseteq Listed(c) \cup PagesOf(run)
      BY <1>5, <1>11, <2>1
    <2>5. /\ \A l, m \in List : l # m => Listed(l) \cap Listed(m) = {}
          /\ \A l \in List, u \in Thread : Listed(l) \cap held[u] = {}
          /\ \A u, v \in Thread : u # v => held[u] \cap held[v] = {}
      BY DEF IInv, NoDoubleAllocation
    <2>6. PagesOf(run) \subseteq held[t]
      BY <1>6
    <2>7. ASSUME NEW l \in List, NEW m \in List, l # m
          PROVE  Now(l) \cap Now(m) = {}
      BY <2>1, <2>4, <2>5, <2>6, <2>7
    <2>8. ASSUME NEW l \in List, NEW u \in Thread
          PROVE  Now(l) \cap held'[u] = {}
      <3>1. held'[u] \subseteq held[u] /\ held'[u] \cap PagesOf(run) = {}
        BY <1>14, <2>5, <2>6
      <3>2. Now(l) \subseteq Listed(l) \cup PagesOf(run)
        BY <2>1, <2>4
      <3> QED
        BY <2>5, <3>1, <3>2
    <2>9. ASSUME NEW u \in Thread, NEW v \in Thread, u # v
          PROVE  held'[u] \cap held'[v] = {}
      BY <1>14, <2>5, <2>9
    <2> QED
      BY <2>2, <2>3, <2>7, <2>8, <2>9 DEF NoDoubleAllocation
  <1>21. DryOnlyInRefill'
    BY <1>0a DEF DryOnlyInRefill
  <1> QED
    BY <1>15, <1>16, <1>17, <1>18, <1>19, <1>20, <1>21 DEF IInv

-----------------------------------------------------------------------------
LEMMA StepInv ==
  IInv /\ [Next]_vars => IInv'
  <1> SUFFICES ASSUME IInv, [Next]_vars PROVE IInv'
    OBVIOUS
  <1>1. CASE UNCHANGED vars
    BY <1>1 DEF vars, IInv, TypeOK, LockDiscipline, BatchFresh, GlobalReal,
                CountCovered, NoDoubleAllocation, Listed, DryOnlyInRefill
  <1>2. ASSUME fault = "none", NEW t \in Thread,
               CallAlloc(t) \/ Alloc(t) \/ CallFree(t) \/ FreeLink(t)
        PROVE  IInv'
    BY <1>2, CallAllocInv, LockLocalInv, FillWalkInv, FillSpliceInv, TakeWalkInv,
       TakeUnlinkInv, FaultInv, CallFreeInv, FreeLinkInv DEF Alloc
  <1> QED
    BY <1>1, <1>2 DEF Next

(* Every reachable state satisfies the inductive invariant.                *)
THEOREM Safety == Spec => []IInv
  BY InitInv, StepInv, PTL DEF Spec

(* The variables of the allocator keep their types; in particular the      *)
(* counts, computed in u64 arithmetic, and the pages callers hold.         *)
THEOREM TypeCorrect == Spec => []TypeOK
  <1>1. IInv => TypeOK
    BY DEF IInv
  <1> QED
    BY <1>1, Safety, PTL

(* alloc_free_pages and free_pages never put one page in two hands, or in  *)
(* a hand and a list, whatever the number of threads and CPUs and however  *)
(* their calls interleave.                                                 *)
THEOREM ExclusivePages == Spec => []NoDoubleAllocation
  <1>1. IInv => NoDoubleAllocation
    BY DEF IInv
  <1> QED
    BY <1>1, Safety, PTL

(* The pages a local count promises are in its chain, and none of them is  *)
(* the superblock's, although free_pages never raises the count and reads  *)
(* it with no lock.                                                        *)
THEOREM CountsAreCovered == Spec => []CountCovered
  <1>1. IInv => CountCovered
    BY DEF IInv
  <1> QED
    BY <1>1, Safety, PTL

(* Only the walk of fill_local_page_list can leave its list.               *)
THEOREM WalksOffOnlyInRefill == Spec => []DryOnlyInRefill
  <1>1. IInv => DryOnlyInRefill
    BY DEF IInv
  <1> QED
    BY <1>1, Safety, PTL

-----------------------------------------------------------------------------
(* Mutexes are held inside the critical sections only.                     *)
HeldInside == \A l \in List : mutex[l] # NoThread => Inside(mutex[l], l)

LEMMA StepHeldInside ==
  ASSUME IInv, HeldInside, [Next]_vars
  PROVE  HeldInside'
  <1>1. CASE UNCHANGED vars
    BY <1>1 DEF vars, HeldInside, Inside
  <1>2. ASSUME fault = "none", NEW t \in Thread,
               CallAlloc(t) \/ Alloc(t) \/ CallFree(t) \/ FreeLink(t)
        PROVE  HeldInside'
    <2> SUFFICES ASSUME NEW l \in List, mutex'[l] # NoThread
                 PROVE  Inside(mutex[l], l)'
      BY DEF HeldInside
    <2>1. /\ mutex \in [List -> Thread \cup {NoThread}] /\ NoThread \notin Thread
          /\ pc \in [Thread -> {"idle", "lock", "check", "splice", "take", "free"}]
          /\ at \in [Thread -> List]
          /\ pc[t] \in {"lock", "check", "splice", "take"} => at[t] \in Cpu
      BY PoolAssumption DEF IInv, TypeOK, LockDiscipline
    <2>2. mutex[l] # NoThread => Inside(mutex[l], l)
      BY DEF HeldInside
    <2>3. CASE LockLocal(t)
      BY <2>1, <2>2, <2>3, GlobalApart DEF LockLocal, Goto, Inside
    <2>4. CASE FillWalk(t)
      BY <2>1, <2>2, <2>4, GlobalApart DEF FillWalk, Goto, Inside
    <2>5. CASE FillSplice(t)
      BY <2>1, <2>2, <2>5, GlobalApart DEF FillSplice, Goto, Inside
    <2>6. CASE TakeWalk(t)
      BY <2>1, <2>2, <2>6, GlobalApart DEF TakeWalk, Goto, Inside
    <2>7. CASE TakeUnlink(t)
      BY <2>1, <2>2, <2>7, GlobalApart DEF TakeUnlink, Return, Goto, Inside
    <2>8. CASE CallAlloc(t) \/ CallFree(t) \/ FreeLink(t)
      <3>1. /\ pc[t] \in {"idle", "free"} /\ mutex' = mutex
            /\ \A u \in Thread \ {t} : pc'[u] = pc[u] /\ at'[u] = at[u]
        BY <2>1, <2>8 DEF CallAlloc, CallFree, FreeLink, Return, Goto
      <3> QED
        BY <2>1, <2>2, <3>1 DEF Inside
    <2>9. CASE WalkOff(t) \/ LinkSuperblock(t)
      BY <2>2, <2>9 DEF WalkOff, LinkSuperblock, Inside
    <2> QED
      BY <1>2, <2>3, <2>4, <2>5, <2>6, <2>7, <2>8, <2>9 DEF Alloc
  <1> QED
    BY <1>1, <1>2 DEF Next

(* Who waits for the global list waits for a refill, which waits for       *)
(* nobody; who waits for a local list, for a call that can only wait for   *)
(* the global one.                                                         *)
LEMMA HeldMeansEnd ==
  ASSUME IInv, HeldInside
  PROVE  WaitsEnd
  <1>1. /\ mutex \in [List -> Thread \cup {NoThread}] /\ at \in [Thread -> List]
        /\ GLOBAL \in List
    BY GlobalApart DEF IInv, TypeOK
  <1>2. ASSUME NEW t \in Thread, pc[t] = "splice"
        PROVE  BlockedBy(t) = {}
    BY <1>2 DEF BlockedBy, Asks
  <1>3. ASSUME NEW t \in Thread, NEW u \in BlockedBy(t), Asks(t) \subseteq {GLOBAL}
        PROVE  u \in Thread /\ pc[u] = "splice"
    BY <1>1, <1>3 DEF BlockedBy, HeldInside, Inside
  <1>4. ASSUME NEW t \in Thread, NEW u \in BlockedBy(t)
        PROVE  u \in Thread /\ Asks(u) \subseteq {GLOBAL}
    <2>1. PICK l \in Asks(t) : u = mutex[l] /\ u # NoThread
      BY DEF BlockedBy
    <2>2. l \in List /\ u \in Thread /\ Inside(u, l)
      BY <1>1, <2>1 DEF Asks, HeldInside
    <2>3. pc[u] \in {"check", "splice", "take"}
      BY <2>2 DEF Inside
    <2> QED
      BY <2>2, <2>3 DEF Asks
  <1>5. ASSUME NEW t \in Thread, NEW u \in BlockedBy(t), NEW v \in BlockedBy(u)
        PROVE  BlockedBy(v) = {}
    <2>1. u \in Thread /\ Asks(u) \subseteq {GLOBAL}
      BY <1>4
    <2>2. v \in Thread /\ pc[v] = "splice"
      BY <1>3, <2>1
    <2> QED
      BY <1>2, <2>2
  <1> QED
    BY <1>5 DEF WaitsEnd, HeldInside

(* alloc_free_pages holds a local mutex while its refill takes the global  *)
(* one, and no number of threads makes them wait in a ring: whoever holds  *)
(* a mutex is inside its critical section, and behind two waits at most is *)
(* a call that runs.  It is the safe half of CallsReturn.                  *)
THEOREM NoRingOfWaits == Spec => []WaitsEnd
  <1>1. Init => HeldInside
    BY DEF Init, HeldInside
  <1>2. IInv /\ HeldInside /\ [Next]_vars => HeldInside'
    BY StepHeldInside
  <1>3. IInv /\ HeldInside => WaitsEnd
    BY HeldMeansEnd
  <1> QED
    BY <1>1, <1>2, <1>3, Safety, PTL DEF Spec
-----------------------------------------------------------------------------
(* Cutting a chain loses none of its pages, and neither does linking a run *)
(* into it.                                                                *)
LEMMA CutKeeps ==
  ASSUME NEW chain \in Seq(Slot), NEW n \in Nat, n <= Len(chain)
  PROVE  PagesOf(chain) = PagesOf(SubSeq(chain, 1, n)) \cup PagesOf(After(chain, n))
  <1> DEFINE low == SubSeq(chain, 1, n)
             top == After(chain, n)
  <1>0. /\ low \in Seq(Slot) /\ Len(low) = n
        /\ top \in Seq(Slot) /\ Len(top) = Len(chain) - n
        /\ \A i \in 1..n : low[i] = chain[i]
        /\ \A i \in 1..(Len(chain) - n) : top[i] = chain[n + i]
    BY CutChain
  <1> HIDE DEF low, top
  <1>1. /\ DOMAIN low = 1..n
        /\ DOMAIN top = 1..(Len(chain) - n)
        /\ DOMAIN chain = 1..Len(chain)
        /\ \A i \in 1..n : low[i] = chain[i]
        /\ \A i \in 1..(Len(chain) - n) : top[i] = chain[n + i]
    BY <1>0
  <1>2. ASSUME NEW i \in 1..Len(chain)
        PROVE  chain[i] \in Range(low) \cup Range(top)
    <2>1. CASE i \in 1..n
      BY <1>1, <2>1 DEF Range
    <2>2. CASE i \notin 1..n
      <3>1. i - n \in 1..(Len(chain) - n) /\ i = n + (i - n)
        BY <2>2
      <3>2. chain[i] = top[i - n]
        BY <1>1, <3>1
      <3> QED
        BY <1>1, <3>1, <3>2 DEF Range
    <2> QED
      BY <2>1, <2>2
  <1>3. /\ \A i \in 1..n : low[i] \in Range(chain)
        /\ \A i \in 1..(Len(chain) - n) : top[i] \in Range(chain)
    <2>1. \A i \in 1..n : i \in 1..Len(chain)
      OBVIOUS
    <2>2. \A i \in 1..(Len(chain) - n) : n + i \in 1..Len(chain)
      OBVIOUS
    <2>3. \A i \in 1..Len(chain) : chain[i] \in Range(chain)
      BY <1>1 DEF Range
    <2> QED
      BY <1>1, <2>1, <2>2, <2>3, Zenon
  <1>4. Range(chain) = Range(low) \cup Range(top)
    <2>1. /\ Range(chain) = {chain[i] : i \in 1..Len(chain)}
          /\ Range(low) = {low[i] : i \in 1..n}
          /\ Range(top) = {top[i] : i \in 1..(Len(chain) - n)}
      BY <1>1 DEF Range
    <2> QED
      BY <1>2, <1>3, <2>1
  <1> QED
    BY <1>4 DEF PagesOf, low, top

LEMMA LinkKeeps ==
  ASSUME NEW chain \in Seq(Slot), NEW run \in Seq(Page), chain # <<>>,
         NEW new \in Seq(Slot),
         Len(new) >= Len(chain) + Len(run),
         new[1] = chain[1],
         \A i \in 1..Len(run) : new[1 + i] = run[i],
         \A i \in 2..Len(chain) : new[Len(run) + i] = chain[i]
  PROVE  PagesOf(chain) \cup PagesOf(run) \subseteq PagesOf(new)
  <1>1. /\ DOMAIN chain = 1..Len(chain) /\ DOMAIN run = 1..Len(run)
        /\ DOMAIN new = 1..Len(new) /\ Len(chain) >= 1
        /\ Len(chain) \in Nat /\ Len(run) \in Nat /\ Len(new) \in Nat
    OBVIOUS
  <1>2. ASSUME NEW i \in 1..Len(chain)
        PROVE  chain[i] \in Range(new)
    <2>1. CASE i = 1
      <3>1. 1 \in DOMAIN new
        BY <1>1
      <3> QED
        BY <2>1, <3>1 DEF Range
    <2>2. CASE i # 1
      <3>1. i \in 2..Len(chain) /\ Len(run) + i \in DOMAIN new
        BY <1>1, <2>2
      <3> QED
        BY <3>1 DEF Range
    <2> QED
      BY <2>1, <2>2
  <1>3. ASSUME NEW i \in 1..Len(run)
        PROVE  run[i] \in Range(new)
    <2>1. 1 + i \in DOMAIN new
      BY <1>1
    <2> QED
      BY <2>1 DEF Range
  <1> QED
    BY <1>1, <1>2, <1>3 DEF PagesOf, Range

(* A run without repetitions has as many pages as nodes.                   *)
LEMMA RunSize ==
  ASSUME NEW run \in Seq(Page), NEW n \in Nat, Len(run) = n, IsInjective(run)
  PROVE  IsFiniteSet(Range(run)) /\ Cardinality(Range(run)) = n
  <1>1. run \in Bijection(1..n, Range(run))
    BY DEF Bijection, Injection, Surjection, Range
  <1>2. ExistsBijection(1..n, Range(run))
    BY <1>1 DEF ExistsBijection
  <1> QED
    BY <1>2, FS_Interval, FS_Bijection, FS_CountingElements

-----------------------------------------------------------------------------
(* The boot puts every page of the pool into some list: what lies above    *)
(* the global chain is cut into runs of Fill pages with nothing between.   *)
LEMMA Quotient ==
  ASSUME NEW q \in Nat, NEW k \in Nat \ {0}
  PROVE  /\ q \div k \in Nat
         /\ (q \div k) * k <= q
         /\ q < (q \div k) * k + k
  <1>1. q = k * (q \div k) + (q % k) /\ q % k \in 0..(k - 1) /\ q \div k \in Nat
    OBVIOUS
  <1> QED
    BY <1>1

LEMMA RunOfPage ==
  ASSUME NEW p \in Page, p > NumPages - NumCarved * Fill
  PROVE  \E c \in 1..NumCarved :
           p \in (NumPages - c * Fill + 1)..(NumPages - (c - 1) * Fill)
  <1> DEFINE q == NumPages - p
             d == q \div Fill
  <1>1. /\ q \in Nat /\ Fill \in Nat \ {0} /\ NumCarved \in Nat
        /\ NumPages \in Nat /\ p \in Nat /\ q < NumCarved * Fill
    BY PoolAssumption DEF Page
  <1>2. d \in Nat /\ d * Fill <= q /\ q < d * Fill + Fill
    BY <1>1, Quotient
  <1> HIDE DEF d
  <1>3. d < NumCarved
    <2> SUFFICES ASSUME NumCarved <= d PROVE FALSE
      BY <1>1, <1>2
    <2>1. NumCarved * Fill <= d * Fill
      BY <1>1, <1>2, Monotone
    <2> QED
      BY <1>1, <1>2, <2>1
  <1>4. /\ d + 1 \in 1..NumCarved /\ (d + 1) - 1 = d
        /\ (d + 1) * Fill = d * Fill + Fill /\ d * Fill \in Nat
    BY <1>1, <1>2, <1>3
  <1>5. p \in (NumPages - (d + 1) * Fill + 1)..(NumPages - ((d + 1) - 1) * Fill)
    BY <1>1, <1>2, <1>4
  <1> QED
    BY <1>4, <1>5

(* The pages that PageLedger calls free.                                   *)
Free == UNION {Listed(l) : l \in List}

LEMMA DescendingCovers ==
  ASSUME NEW n \in Nat, NEW top \in Nat, n <= top,
         NEW p \in (top - n + 1)..top
  PROVE  p \in Range(Descending(top, n))
  <1>1. top + 1 - p \in 1..n /\ top + 1 - (top + 1 - p) = p
    OBVIOUS
  <1> QED
    BY <1>1 DEF Descending, Range

LEMMA InitAllFree ==
  Init => Free = Page
  <1> SUFFICES ASSUME Init, NEW p \in Page
               PROVE  \E l \in List : p \in Listed(l)
    BY DEF Free, Listed
  <1> DEFINE left == NumPages - NumCarved * Fill
             Base(c) == NumPages - (c - 1) * Fill
  <1>1. /\ GLOBAL \in List /\ GLOBAL \notin Cpu /\ Cpu \subseteq List
        /\ NumPages \in Nat /\ Fill \in Nat \ {0} /\ NumCarved \in Nat
        /\ NumCpus \in Nat /\ NumCarved <= NumCpus /\ p \in Nat /\ p >= 1
        /\ p <= NumPages
    BY PoolAssumption, Places DEF Page
  <1>2. left \in Nat
    <2>1. NumCarved * Fill \in Nat
      BY <1>1
    <2> QED
      BY <1>1, <2>1, PoolAssumption
  <1>3. CASE p <= left
    <2>1. p \in Range(Descending(left, left))
      <3>1. p \in (left - left + 1)..left
        BY <1>1, <1>2, <1>3
      <3> HIDE DEF left
      <3> QED
        BY <1>2, <3>1, DescendingCovers
    <2>2. pagelist[GLOBAL].chain = Descending(left, left)
      BY <1>1 DEF Init, BootGlobal
    <2> QED
      BY <1>1, <2>1, <2>2 DEF Listed
  <1>4. CASE ~(p <= left)
    <2>1. PICK c \in 1..NumCarved : p \in (NumPages - c * Fill + 1)..Base(c)
      BY <1>1, <1>2, <1>4, RunOfPage
    <2>2. /\ c \in Cpu /\ c <= NumCarved
          /\ Base(c) \in Nat /\ Fill <= Base(c)
          /\ NumPages - c * Fill = Base(c) - Fill
      BY <1>1, Carving DEF Cpu
    <2>3. pagelist[c].chain = Descending(Base(c), Fill)
      BY <1>1, <2>2 DEF Init, BootLocal
    <2> HIDE DEF Base
    <2>4. p \in Range(Descending(Base(c), Fill))
      BY <1>1, <2>1, <2>2, DescendingCovers
    <2> QED
      BY <1>1, <2>2, <2>3, <2>4 DEF Listed
  <1> QED
    BY <1>3, <1>4

-----------------------------------------------------------------------------
(* What the three steps that move pages do to the free and the held ones.  *)
LEMMA FillSpliceEffect ==
  ASSUME IInv, NEW t \in Thread, FillSplice(t)
  PROVE  Free' = Free
  <1> DEFINE c == at[t]
             g == pagelist[GLOBAL].chain
             old == pagelist[c].chain
             run == batch[t]
             new == SpliceRefill(old, run)
             top == After(g, Fill)
  <1>1. /\ c \in Cpu /\ c \in List /\ c # GLOBAL
        /\ Fill <= Len(g) /\ run = SubSeq(g, 1, Fill)
    BY Places DEF IInv, LockDiscipline, BatchFresh, FillSplice
  <1>2. /\ g \in Seq(Slot) /\ old \in Seq(Slot)
        /\ Len(g) \in Nat /\ DOMAIN g = 1..Len(g)
    BY <1>1, Places, ListTyping DEF IInv
  <1>3. /\ pagelist'[GLOBAL].chain = top
        /\ pagelist'[c].chain = new
        /\ \A l \in List : l # GLOBAL /\ l # c => pagelist'[l] = pagelist[l]
    BY <1>1, Places DEF FillSplice, IInv, TypeOK
  <1>4. PagesOf(g) = PagesOf(run) \cup PagesOf(top)
    BY <1>1, <1>2, CutKeeps, Places
  <1>5. run \in Seq(Page)
    <2>1. run \in Seq(Slot) /\ Len(run) = Fill /\ \A i \in 1..Fill : run[i] = g[i]
      BY <1>1, <1>2, CutChain, Places
    <2>2. \A i \in 1..Fill : run[i] \in Page
      <3>1. Range(g) \subseteq Page
        BY DEF IInv, GlobalReal
      <3>2. \A i \in 1..Fill : i \in 1..Len(g)
        BY <1>1, <1>2, Places
      <3> QED
        BY <1>2, <2>1, <3>1, <3>2 DEF Range
    <2> QED
      BY <2>1, <2>2
  <1>6. PagesOf(new) = PagesOf(old) \cup PagesOf(run)
    <2>1. CASE old = <<>>
      BY <2>1 DEF SpliceRefill, PagesOf, Range
    <2>2. CASE old # <<>>
      <3>1. /\ new \in Seq(Slot)
            /\ Len(new) >= Len(old) + Len(run)
            /\ new[1] = old[1]
            /\ \A i \in 1..Len(run) : new[1 + i] = run[i]
            /\ \A i \in 2..Len(old) : new[Len(run) + i] = old[i]
            /\ \A i \in (Len(old) + Len(run) + 1)..Len(new) : new[i] = SUPERBLOCK
        BY <1>2, <1>5, <2>2, RefillChain
      <3>2. NoRepeat(run) /\ PagesOf(run) \subseteq PagesOf(g)
        BY <1>1, <1>2, CutDisjoint, Places DEF IInv, NoDoubleAllocation
      <3>3. NoRepeat(old) /\ PagesOf(old) \cap PagesOf(g) = {}
        BY <1>1, Places DEF IInv, NoDoubleAllocation, Listed, PagesOf
      <3>4. PagesOf(old) \cap PagesOf(run) = {}
        BY <3>2, <3>3
      <3> HIDE DEF new, old, run
      <3>5. PagesOf(new) \subseteq PagesOf(old) \cup PagesOf(run)
        BY <1>2, <1>5, <2>2, <3>1, <3>2, <3>3, <3>4, LinkDisjoint
      <3>6. PagesOf(old) \cup PagesOf(run) \subseteq PagesOf(new)
        BY <1>2, <1>5, <2>2, <3>1, LinkKeeps
      <3> QED
        BY <3>5, <3>6
    <2> QED
      BY <2>1, <2>2
  <1> DEFINE Now(l) == PagesOf(pagelist'[l].chain)
  <1>7. /\ Now(GLOBAL) = PagesOf(top) /\ Now(c) = PagesOf(new)
        /\ Listed(GLOBAL) = PagesOf(g) /\ Listed(c) = PagesOf(old)
        /\ \A l \in List : l # GLOBAL /\ l # c => Now(l) = Listed(l)
    BY <1>3 DEF Listed, PagesOf
  <1>8. Free' = UNION {Now(l) : l \in List}
    BY DEF Free, Listed, PagesOf
  <1> HIDE DEF g, old, run, new, top, c, Now
  <1>9. \A x : (\E l \in List : x \in Now(l)) <=> (\E l \in List : x \in Listed(l))
    BY <1>1, <1>4, <1>6, <1>7, Places
  <1> QED
    BY <1>8, <1>9 DEF Free

LEMMA TakeUnlinkEffect ==
  ASSUME IInv, NEW t \in Thread, TakeUnlink(t)
  PROVE  /\ Range(batch[t]) \subseteq Free
         /\ Cardinality(Range(batch[t])) = want[t]
         /\ Free' = Free \ Range(batch[t])
  <1> DEFINE c == at[t]
             old == pagelist[c].chain
             n == pagelist[c].count
             k == want[t]
             run == batch[t]
             top == After(old, k)
  <1>1. /\ c \in Cpu /\ c \in List
        /\ k \in 1..MaxRequest /\ k <= n /\ run = SubSeq(old, 1, k)
    BY Places DEF IInv, LockDiscipline, BatchFresh, TakeUnlink
  <1>2. /\ old \in Seq(Slot) /\ n \in Nat /\ Len(old) \in Nat
        /\ DOMAIN old = 1..Len(old)
    BY <1>1, ListTyping DEF IInv
  <1>3. n <= Len(old) /\ \A i \in 1..n : old[i] \in Page
    BY <1>1 DEF IInv, CountCovered
  <1>4. k \in Nat /\ k <= Len(old)
    BY <1>1, <1>2, <1>3, PoolAssumption
  <1>5. /\ pagelist'[c].chain = top
        /\ \A l \in List : l # c => pagelist'[l] = pagelist[l]
    BY <1>1 DEF TakeUnlink, IInv, TypeOK
  <1>6. NoRepeat(old) /\ PagesOf(old) = Listed(c)
    BY <1>1 DEF IInv, NoDoubleAllocation, Listed, PagesOf
  <1>7. /\ NoRepeat(run) /\ PagesOf(run) \cap PagesOf(top) = {}
        /\ PagesOf(old) = PagesOf(run) \cup PagesOf(top)
    BY <1>1, <1>2, <1>4, <1>6, CutDisjoint, CutKeeps
  <1>8. run \in Seq(Page) /\ Len(run) = k /\ DOMAIN run = 1..k
    <2>1. run \in Seq(Slot) /\ Len(run) = k /\ \A i \in 1..k : run[i] = old[i]
      BY <1>1, <1>2, <1>4, CutChain
    <2>2. \A i \in 1..k : run[i] \in Page
      BY <1>1, <1>2, <1>3, <1>4, <2>1
    <2> QED
      BY <2>1, <2>2
  <1>9. Range(run) = PagesOf(run) /\ IsInjective(run)
    BY <1>7, <1>8 DEF Range, PagesOf, NoRepeat, IsInjective
  <1>10. Cardinality(Range(run)) = k
    BY <1>4, <1>8, <1>9, RunSize
  <1> DEFINE Now(l) == PagesOf(pagelist'[l].chain)
  <1>11. Now(c) = PagesOf(top) /\ \A l \in List : l # c => Now(l) = Listed(l)
    BY <1>5 DEF Listed, PagesOf
  <1>12. Free' = UNION {Now(l) : l \in List}
    BY DEF Free, Listed, PagesOf
  <1>13. \A l \in List : l # c => Listed(l) \cap Listed(c) = {}
    BY <1>1 DEF IInv, NoDoubleAllocation
  <1> HIDE DEF old, n, k, run, top, c, Now
  <1>14. Range(run) \subseteq Listed(c)
    BY <1>6, <1>7, <1>9
  <1>15. ASSUME NEW l \in List
         PROVE  Now(l) = Listed(l) \ Range(run)
    <2>1. CASE l = c
      BY <1>6, <1>7, <1>9, <1>11, <2>1
    <2>2. CASE l # c
      BY <1>11, <1>13, <1>14, <2>2
    <2> QED
      BY <2>1, <2>2
  <1> QED
    BY <1>1, <1>10, <1>12, <1>14, <1>15 DEF Free, run, k

LEMMA FreeLinkEffect ==
  ASSUME IInv, NEW t \in Thread, FreeLink(t)
  PROVE  /\ Range(batch[t]) # {} /\ Range(batch[t]) \subseteq held[t]
         /\ Free' = IF pagelist[at[t]].chain = <<>> THEN Free
                    ELSE Free \cup Range(batch[t])
  <1> DEFINE c == at[t]
             old == pagelist[c].chain
             run == batch[t]
             new == SpliceFreed(old, run)
  <1>1. /\ run \in Seq(held[t]) \ {<<>>} /\ IsInjective(run)
        /\ held[t] \subseteq Page /\ c \in List
    BY DEF IInv, TypeOK, BatchFresh, FreeLink
  <1>2. old \in Seq(Slot)
    BY <1>1, ListTyping DEF IInv
  <1>3. /\ pagelist'[c].chain = new
        /\ \A l \in List : l # c => pagelist'[l] = pagelist[l]
    BY <1>1 DEF FreeLink, IInv, TypeOK
  <1>4. NoRepeat(old) /\ PagesOf(old) = Listed(c)
    BY <1>1 DEF IInv, NoDoubleAllocation, Listed, PagesOf
  <1> DEFINE Now(l) == PagesOf(pagelist'[l].chain)
  <1>5. Now(c) = PagesOf(new) /\ \A l \in List : l # c => Now(l) = Listed(l)
    BY <1>3 DEF Listed, PagesOf
  <1>6. Free' = UNION {Now(l) : l \in List}
    BY DEF Free, Listed, PagesOf
  <1>7. new = SpliceFreed(old, run) /\ Listed(c) \cap held[t] = {}
    BY <1>1 DEF IInv, NoDoubleAllocation
  <1>8. c = at[t] /\ run = batch[t] /\ old = pagelist[at[t]].chain
    OBVIOUS
  <1> HIDE DEF old, run, new, c, Now
  <1>9. /\ run \in Seq(Page) /\ Len(run) \in Nat /\ Len(run) >= 1
        /\ DOMAIN run = 1..Len(run) /\ NoRepeat(run)
    BY <1>1 DEF NoRepeat, IsInjective
  <1>10. /\ Range(run) # {} /\ Range(run) \subseteq held[t]
         /\ PagesOf(run) = Range(run)
    <2>1. \A i \in 1..Len(run) : run[i] \in held[t]
      BY <1>1
    <2>2. 1 \in 1..Len(run)
      BY <1>9
    <2> QED
      BY <1>1, <1>9, <2>1, <2>2 DEF Range, PagesOf
  <1>11. CASE old = <<>>
    <2>1. Now(c) = Listed(c)
      BY <1>4, <1>5, <1>7, <1>11 DEF SpliceFreed
    <2>2. \A l \in List : Now(l) = Listed(l)
      BY <1>5, <2>1
    <2> QED
      BY <1>6, <1>8, <1>10, <1>11, <2>2 DEF Free
  <1>12. CASE old # <<>>
    <2>1. /\ new \in Seq(Slot) /\ Len(new) = Len(old) + Len(run)
          /\ new[1] = old[1]
          /\ \A i \in 1..Len(run) : new[1 + i] = run[i]
          /\ \A i \in 2..Len(old) : new[Len(run) + i] = old[i]
      BY <1>2, <1>7, <1>9, <1>12, FreedChain
    <2>2. /\ Len(new) >= Len(old) + Len(run)
          /\ \A i \in (Len(old) + Len(run) + 1)..Len(new) : new[i] = SUPERBLOCK
      BY <1>2, <1>9, <2>1
    <2>3. PagesOf(old) \cap PagesOf(run) = {}
      BY <1>4, <1>7, <1>10
    <2>4. PagesOf(new) \subseteq PagesOf(old) \cup PagesOf(run)
      BY <1>2, <1>4, <1>9, <1>12, <2>1, <2>2, <2>3, LinkDisjoint
    <2>5. PagesOf(old) \cup PagesOf(run) \subseteq PagesOf(new)
      BY <1>2, <1>9, <1>12, <2>1, <2>2, LinkKeeps
    <2>6. Now(c) = Listed(c) \cup Range(run)
      BY <1>4, <1>5, <1>10, <2>4, <2>5
    <2>7. \A x : (\E l \in List : x \in Now(l))
                  <=> (\E l \in List : x \in Listed(l)) \/ x \in Range(run)
      BY <1>1, <1>5, <2>6
    <2>8. Free' = Free \cup Range(run)
      BY <1>6, <2>7 DEF Free
    <2> QED
      BY <1>8, <1>10, <1>12, <2>8
  <1> QED
    BY <1>11, <1>12

-----------------------------------------------------------------------------
(* PageLedger counts pages as the allocator does.                          *)
LEMMA SameCardinality ==
  ASSUME NEW S
  PROVE  Ledger!Cardinality(S) = Cardinality(S)
  BY DEF Ledger!Cardinality, Cardinality

(* Every step of the allocator is one of PageLedger's, or none.            *)
LEMMA StepLedger ==
  IInv /\ [Next]_vars => [Ledger!Next]_(Ledger!vars)
  <1> SUFFICES ASSUME IInv, [Next]_vars PROVE [Ledger!Next]_(Ledger!vars)
    OBVIOUS
  <1> DEFINE Same == UNCHANGED <<Free, held, want, fault>>
  <1>1. ASSUME Same PROVE UNCHANGED Ledger!vars
    BY <1>1 DEF Ledger!vars, Free
  <1>2. CASE UNCHANGED vars
    BY <1>1, <1>2 DEF vars, Free, Listed
  <1>3. ASSUME fault = "none", NEW t \in Thread,
               CallAlloc(t) \/ Alloc(t) \/ CallFree(t) \/ FreeLink(t)
        PROVE  [Ledger!Next]_(Ledger!vars)
    <2>1. ASSUME pagelist' = pagelist
          PROVE  Free' = Free
      BY <2>1 DEF Free, Listed
    <2>2. CASE CallAlloc(t)
      <3>1. want[t] = 0 /\ UNCHANGED <<Free, held, fault>>
        BY <2>1, <2>2 DEF CallAlloc, IInv, LockDiscipline
      <3>2. Ledger!Ask(t)
        BY <2>2, <3>1 DEF CallAlloc, Ledger!Ask, Free
      <3> QED
        BY <1>3, <3>2 DEF Ledger!Next
    <2>3. CASE LockLocal(t) \/ FillWalk(t) \/ TakeWalk(t) \/ CallFree(t)
      BY <1>1, <2>1, <2>3 DEF LockLocal, FillWalk, TakeWalk, CallFree
    <2>4. CASE FillSplice(t)
      BY <1>1, <2>4, FillSpliceEffect DEF FillSplice
    <2>5. CASE TakeUnlink(t)
      <3>1. /\ want[t] # 0
            /\ held' = [held EXCEPT ![t] = @ \cup Range(batch[t])]
            /\ want' = [want EXCEPT ![t] = 0]
            /\ fault' = fault
        BY <2>5, PoolAssumption DEF TakeUnlink, Return, IInv, LockDiscipline
      <3>2. /\ Range(batch[t]) \subseteq Free
            /\ Ledger!Cardinality(Range(batch[t])) = want[t]
            /\ Free' = Free \ Range(batch[t])
        BY <2>5, TakeUnlinkEffect, SameCardinality
      <3>3. Ledger!Grant(t)
        BY <3>1, <3>2 DEF Ledger!Grant, Free
      <3> QED
        BY <1>3, <3>3 DEF Ledger!Next
    <2>6. CASE FreeLink(t)
      <3>1. /\ want[t] = 0
            /\ held' = [held EXCEPT ![t] = @ \ Range(batch[t])]
            /\ want' = [want EXCEPT ![t] = 0]
            /\ fault' = fault
        BY <2>6 DEF FreeLink, Return, IInv, LockDiscipline
      <3>2. want' = want
        BY <3>1 DEF IInv, TypeOK
      <3>3. Free' \in {Free, Free \cup Range(batch[t])}
        BY <2>6, FreeLinkEffect
      <3>4. Range(batch[t]) \in SUBSET held[t] /\ Range(batch[t]) # {}
        BY <2>6, FreeLinkEffect
      <3>5. Ledger!GiveUp(t)
        BY <3>1, <3>2, <3>3, <3>4 DEF Ledger!GiveUp, Free
      <3> QED
        BY <1>3, <3>5 DEF Ledger!Next
    <2>7. CASE WalkOff(t) \/ LinkSuperblock(t)
      <3>1. Ledger!Stop
        BY <2>1, <2>7 DEF WalkOff, LinkSuperblock, Ledger!Stop, Free
      <3> QED
        BY <1>3, <3>1 DEF Ledger!Next
    <2> QED
      BY <1>3, <2>2, <2>3, <2>4, <2>5, <2>6, <2>7 DEF Alloc
  <1> QED
    BY <1>2, <1>3 DEF Next

(* Callers of the allocator may reason with PageLedger: each allocation    *)
(* takes exactly page_num free pages at one instant, each free gives up    *)
(* pages that its caller holds, and no other step is seen.                 *)
THEOREM KeepsLedger == Spec => ImplementsLedger
  <1>1. Init => Ledger!Init
    BY InitAllFree DEF Init, Ledger!Init, Free
  <1> QED
    BY <1>1, StepLedger, Safety, PTL DEF Spec, ImplementsLedger, Ledger!Spec

-----------------------------------------------------------------------------
LEMMA StepDrops ==
  ASSUME IInv, [Next]_vars, ~ Owned \subseteq Owned'
  PROVE  \E t \in Thread : /\ pc[t] = "free" /\ pagelist[at[t]].chain = <<>>
                           /\ Owned \ Owned' = Range(batch[t])
  <1> DEFINE Hands == UNION {held[t] : t \in Thread}
  <1>1. Owned = Free \cup Hands /\ Owned' = Free' \cup Hands'
    BY DEF Owned, Free
  <1>2. ASSUME Free \subseteq Free', held' = held
        PROVE  FALSE
    BY <1>1, <1>2
  <1>3. CASE UNCHANGED vars
    BY <1>2, <1>3 DEF vars, Free, Listed
  <1>4. ASSUME fault = "none", NEW t \in Thread,
               CallAlloc(t) \/ Alloc(t) \/ CallFree(t) \/ FreeLink(t)
        PROVE  /\ pc[t] = "free" /\ pagelist[at[t]].chain = <<>>
               /\ Owned \ Owned' = Range(batch[t])
    <2>1. ASSUME pagelist' = pagelist, held' = held
          PROVE  FALSE
      BY <1>2, <2>1 DEF Free, Listed
    <2>2. CASE \/ CallAlloc(t) \/ LockLocal(t) \/ FillWalk(t) \/ TakeWalk(t)
               \/ CallFree(t) \/ WalkOff(t) \/ LinkSuperblock(t)
      BY <2>1, <2>2 DEF CallAlloc, LockLocal, FillWalk, TakeWalk, CallFree,
                        WalkOff, LinkSuperblock
    <2>3. CASE FillSplice(t)
      BY <1>2, <2>3, FillSpliceEffect DEF FillSplice
    <2>4. CASE TakeUnlink(t)
      <3>1. held' = [held EXCEPT ![t] = @ \cup Range(batch[t])]
        BY <2>4 DEF TakeUnlink
      <3>2. held \in [Thread -> SUBSET Page]
        BY DEF IInv, TypeOK
      <3>3. Hands' = Hands \cup Range(batch[t])
        BY <3>1, <3>2
      <3>4. Free' = Free \ Range(batch[t])
        BY <2>4, TakeUnlinkEffect
      <3> QED
        BY <1>1, <3>3, <3>4
    <2>5. CASE FreeLink(t)
      <3> DEFINE R == Range(batch[t])
      <3>1. /\ held' = [held EXCEPT ![t] = @ \ R] /\ pc[t] = "free"
            /\ R \subseteq held[t]
            /\ Free' = IF pagelist[at[t]].chain = <<>> THEN Free ELSE Free \cup R
        BY <2>5, FreeLinkEffect DEF FreeLink
      <3>2. /\ held \in [Thread -> SUBSET Page]
            /\ \A u \in Thread \ {t} : held[u] \cap held[t] = {}
            /\ Free \cap held[t] = {}
        BY DEF IInv, TypeOK, NoDoubleAllocation, Free
      <3> HIDE DEF R
      <3>3. Hands' = Hands \ R
        <4>1. \A u \in Thread : held'[u] = held[u] \ R
          BY <3>1, <3>2
        <4> QED
          BY <4>1
      <3>4. R \subseteq Hands /\ Free \cap R = {}
        BY <3>1, <3>2
      <3>5. pagelist[at[t]].chain = <<>>
        <4> SUFFICES ASSUME pagelist[at[t]].chain # <<>> PROVE FALSE
          OBVIOUS
        <4> QED
          BY <1>1, <3>1, <3>3
      <3>6. Owned \ Owned' = R
        BY <1>1, <3>1, <3>3, <3>4, <3>5
      <3> QED
        BY <3>1, <3>5, <3>6 DEF R
    <2> QED
      BY <1>4, <2>2, <2>3, <2>4, <2>5 DEF Alloc
  <1> QED
    BY <1>3, <1>4 DEF Next

(* No refill, no allocation and no free to a list that has a page loses a  *)
(* page, whatever the other threads do; free_pages loses the pages it is   *)
(* given, all of them, exactly when its list has run empty.                *)
THEOREM DropsNothingElse == Spec => DropsOnlyBehindNull
  <1>1. IInv /\ [Next]_vars =>
          [~ Owned \subseteq Owned' =>
             \E t \in Thread : /\ pc[t] = "free" /\ pagelist[at[t]].chain = <<>>
                               /\ Owned \ Owned' = Range(batch[t])]_vars
    BY StepDrops
  <1> QED
    BY <1>1, Safety, PTL DEF Spec, DropsOnlyBehindNull
=============================================================================
