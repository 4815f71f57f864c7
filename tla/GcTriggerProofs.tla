--------------------------- MODULE GcTriggerProofs ---------------------------
(***************************************************************************)
(* The safety of the collector's trigger, for any number of threads and    *)
(* any bound on the accesses between two resets.                           *)
(***************************************************************************)
EXTENDS GcTrigger, TLAPS

LEMMA Kinds ==
  Kind = {"write", "read"} /\ "idle" \notin Kind
  BY DEF Kind

LEMMA InitInv ==
  Init => IInv
  <1> SUFFICES ASSUME Init PROVE IInv
    OBVIOUS
  <1>1. TypeOK
    BY DEF Init, TypeOK, Nought, Kind
  <1>2. CountsDriftOnlyByRace
    BY DEF Init, CountsDriftOnlyByRace, Nought
  <1>3. LoadsFresh /\ SnapshotFresh
    BY Kinds DEF Init, LoadsFresh, SnapshotFresh
  <1> QED
    BY <1>1, <1>2, <1>3 DEF IInv

-----------------------------------------------------------------------------
LEMMA LoadCountInv ==
  ASSUME IInv, NEW t \in Thread, LoadCount(t)
  PROVE  IInv'
  <1>1. PICK k \in Kind : /\ pc' = [pc EXCEPT ![t] = k]
                          /\ reg' = [reg EXCEPT ![t] = times_cnt[k]]
    BY DEF LoadCount
  <1>2. UNCHANGED <<times_cnt, since, raced, word, gc, todo, access, times, torn>>
    BY DEF LoadCount, counters, collector
  <1>3. TypeOK'
    BY <1>1, <1>2 DEF IInv, TypeOK
  <1>4. CountsDriftOnlyByRace' /\ SnapshotFresh'
    BY <1>2 DEF IInv, CountsDriftOnlyByRace, SnapshotFresh
  <1>5. LoadsFresh'
    <2> SUFFICES ASSUME NEW u \in Thread, NEW j \in {pc'[u]} \cap Kind
                 PROVE  /\ raced[j] = {} => reg'[u] = times_cnt[j]
                        /\ "reset" \notin raced[j] => reg'[u] <= since[j]
      BY <1>2 DEF LoadsFresh
    <2>1. CASE u = t
      BY <1>1, <2>1 DEF IInv, TypeOK, CountsDriftOnlyByRace
    <2>2. CASE u # t
      BY <1>1, <2>2 DEF IInv, TypeOK, LoadsFresh
    <2> QED
      BY <2>1, <2>2
  <1> QED
    BY <1>3, <1>4, <1>5 DEF IInv

LEMMA StoreCountInv ==
  ASSUME IInv, NEW t \in Thread, StoreCount(t)
  PROVE  IInv'
  <1> DEFINE k == pc[t]
             race == IF Pending(k) # {t} THEN {"access"} ELSE {}
  <1>1. /\ k \in Kind
        /\ times_cnt' = [times_cnt EXCEPT ![k] = reg[t] + 1]
        /\ since' = [since EXCEPT ![k] = @ + 1]
        /\ raced' = [raced EXCEPT ![k] = @ \cup race]
        /\ pc' = [pc EXCEPT ![t] = "idle"]
        /\ reg' = [reg EXCEPT ![t] = 0]
        /\ torn' = TRUE
        /\ UNCHANGED <<word, gc, todo, access, times>>
    BY DEF StoreCount, collector
  <1>2. /\ race \subseteq {"access"}
        /\ race = {} => \A u \in Thread : pc[u] = k => u = t
    BY DEF Pending
  <1>3. pc[t] = k
    OBVIOUS
  <1> HIDE DEF k, race
  <1>4. TypeOK'
    <2>1. /\ reg[t] + 1 \in Nat /\ since[k] + 1 \in Nat
          /\ raced[k] \cup race \in SUBSET {"access", "reset"}
      <3>1. reg[t] \in Nat /\ since[k] \in Nat /\ raced[k] \in SUBSET {"access", "reset"}
        BY <1>1 DEF IInv, TypeOK
      <3>2. raced[k] \cup race \in SUBSET {"access", "reset"}
        BY <1>2, <3>1
      <3> QED
        BY <3>1, <3>2
    <2>2. /\ times_cnt' \in [Kind -> Nat] /\ since' \in [Kind -> Nat]
          /\ raced' \in [Kind -> SUBSET {"access", "reset"}]
          /\ pc' \in [Thread -> Kind \cup {"idle"}] /\ reg' \in [Thread -> Nat]
      BY <1>1, <2>1 DEF IInv, TypeOK
    <2> QED
      BY <1>1, <2>2 DEF IInv, TypeOK
  <1>5. CountsDriftOnlyByRace'
    <2> SUFFICES ASSUME NEW j \in Kind
                 PROVE  /\ raced'[j] = {} => times_cnt'[j] = since'[j]
                        /\ "reset" \notin raced'[j] => times_cnt'[j] <= since'[j]
      BY DEF CountsDriftOnlyByRace
    <2>1. CASE j # k
      BY <1>1, <2>1 DEF IInv, TypeOK, CountsDriftOnlyByRace
    <2>2. CASE j = k
      <3>1. /\ raced[k] = {} => reg[t] = times_cnt[k]
            /\ "reset" \notin raced[k] => reg[t] <= since[k]
            /\ raced[k] = {} => times_cnt[k] = since[k]
        BY <1>1, <1>3 DEF IInv, LoadsFresh, CountsDriftOnlyByRace
      <3>2. /\ raced'[k] = raced[k] \cup race /\ times_cnt'[k] = reg[t] + 1
            /\ since'[k] = since[k] + 1 /\ reg[t] \in Nat /\ since[k] \in Nat
        BY <1>1 DEF IInv, TypeOK
      <3> QED
        BY <2>2, <3>1, <3>2
    <2> QED
      BY <2>1, <2>2
  <1>6. LoadsFresh'
    <2> SUFFICES ASSUME NEW u \in Thread, NEW j \in {pc'[u]} \cap Kind
                 PROVE  /\ raced'[j] = {} => reg'[u] = times_cnt'[j]
                        /\ "reset" \notin raced'[j] => reg'[u] <= since'[j]
      BY DEF LoadsFresh
    <2>1. u # t /\ pc[u] = j /\ reg'[u] = reg[u]
      BY <1>1, Kinds DEF IInv, TypeOK
    <2>2. /\ raced[j] = {} => reg[u] = times_cnt[j]
          /\ "reset" \notin raced[j] => reg[u] <= since[j]
          /\ reg[u] \in Nat /\ since[j] \in Nat
      BY <2>1 DEF IInv, TypeOK, LoadsFresh
    <2>3. CASE j # k
      BY <1>1, <2>1, <2>2, <2>3 DEF IInv, TypeOK
    <2>4. CASE j = k
      <3>1. race = {"access"}
        BY <1>2, <2>1, <2>4
      <3>2. raced'[k] = raced[k] \cup race /\ since'[k] = since[k] + 1
        BY <1>1 DEF IInv, TypeOK
      <3> QED
        BY <2>1, <2>2, <2>4, <3>1, <3>2
    <2> QED
      BY <2>3, <2>4
  <1>7. SnapshotFresh'
    BY <1>1 DEF SnapshotFresh
  <1> QED
    BY <1>4, <1>5, <1>6, <1>7 DEF IInv

(* The steps of the collector that leave the counters and the threads      *)
(* alone disturb only what it has taken.                                   *)
LEMMA QuietCounters ==
  ASSUME IInv, UNCHANGED <<times_cnt, since, raced, pc, reg>>
  PROVE  CountsDriftOnlyByRace' /\ LoadsFresh'
  BY DEF IInv, CountsDriftOnlyByRace, LoadsFresh

LEMMA TakingInv ==
  ASSUME IInv,
         \/ FillFirstPage \/ WakeUp \/ Decide \/ Collect
         \/ \E k \in Kind : Sum(k) \/ Split(k)
  PROVE  IInv'
  <1> USE DEF At, Begin, counters, threads, collector
  <1>1. UNCHANGED <<times_cnt, since, raced, pc, reg>>
    BY DEF FillFirstPage, WakeUp, Decide, Collect, Sum, Split
  <1>2. CASE FillFirstPage
    <2>1. TypeOK' /\ SnapshotFresh'
      BY <1>2 DEF FillFirstPage, IInv, TypeOK, SnapshotFresh
    <2> QED
      BY <1>1, <2>1, QuietCounters DEF IInv
  <1>3. CASE WakeUp
    <2>1. TypeOK'
      BY <1>3, Kinds DEF WakeUp, IInv, TypeOK
    <2>2. SnapshotFresh'
      BY <1>3 DEF WakeUp, SnapshotFresh
    <2> QED
      BY <1>1, <2>1, <2>2, QuietCounters DEF IInv
  <1>4. CASE Decide
    <2>1. /\ UNCHANGED <<times_cnt, word, since, raced, pc, reg, torn>>
          /\ access' = [k \in Kind |-> 0] /\ times' = [k \in Kind |-> 0]
          /\ gc = "decide" /\ todo = {}
          /\ (gc' = "reset" /\ todo' = Kind) \/ (gc' = "sleep" /\ todo' = {})
      BY <1>4 DEF Decide, Forget, Nought
    <2>2. TypeOK'
      BY <2>1, Kinds DEF IInv, TypeOK
    <2>3. SnapshotFresh'
      BY <2>1 DEF SnapshotFresh
    <2> QED
      BY <1>1, <2>2, <2>3, QuietCounters DEF IInv
  <1>5. CASE Collect
    <2>1. TypeOK' /\ SnapshotFresh'
      BY <1>5 DEF Collect, IInv, TypeOK, SnapshotFresh
    <2> QED
      BY <1>1, <2>1, QuietCounters DEF IInv
  <1>6. ASSUME NEW k \in Kind, Sum(k)
        PROVE  IInv'
    <2>1. /\ gc = "sum" /\ k \in todo /\ todo \subseteq Kind
          /\ access' = [access EXCEPT ![k] = times_cnt[k]]
          /\ IF todo = {k} THEN gc' = "split" /\ todo' = Kind
                           ELSE gc' = "sum" /\ todo' = todo \ {k}
          /\ UNCHANGED <<times_cnt, word, since, raced, pc, reg, times, torn>>
          /\ access \in [Kind -> Nat] /\ times_cnt \in [Kind -> Nat]
      BY <1>6 DEF Sum, IInv, TypeOK
    <2>2. TypeOK'
      <3>1. access' \in [Kind -> Nat]
        BY <2>1
      <3>2. /\ gc' \in {"sum", "split"} /\ todo' \subseteq Kind /\ todo' # {}
        BY <2>1, Kinds
      <3> QED
        BY <2>1, <3>1, <3>2 DEF IInv, TypeOK
    <2>3. SnapshotFresh'
      <3> SUFFICES ASSUME ~torn
                   PROVE  /\ gc' = "sum" => \A j \in Kind \ todo' : access'[j] = times_cnt[j]
                          /\ gc' = "split" => /\ access' = times_cnt /\ Kind \ todo' = {}
        BY <2>1 DEF SnapshotFresh
      <3>1. \A j \in (Kind \ todo) \cup {k} : access'[j] = times_cnt[j]
        BY <2>1 DEF IInv, SnapshotFresh
      <3> QED
        BY <2>1, <3>1
    <2> QED
      BY <1>1, <2>2, <2>3, QuietCounters DEF IInv
  <1>7. ASSUME NEW k \in Kind, Split(k)
        PROVE  IInv'
    <2>1. PICK n \in {access[k], times_cnt[k]} : times' = [times EXCEPT ![k] = n]
      BY <1>7 DEF Split
    <2>2. /\ gc = "split" /\ k \in todo /\ todo \subseteq Kind /\ n \in Nat
          /\ IF todo = {k} THEN gc' = "decide" /\ todo' = {}
                           ELSE gc' = "split" /\ todo' = todo \ {k}
          /\ UNCHANGED <<times_cnt, word, since, raced, pc, reg, access, torn>>
          /\ times \in [Kind -> Nat] /\ times_cnt \in [Kind -> Nat]
      BY <1>7, <2>1 DEF Split, IInv, TypeOK
    <2>3. TypeOK'
      <3>1. times' \in [Kind -> Nat]
        BY <2>1, <2>2
      <3>2. /\ gc' \in {"split", "decide"} /\ todo' \subseteq Kind
            /\ gc' = "split" <=> todo' # {}
        BY <2>2, Kinds
      <3> QED
        BY <2>2, <3>1, <3>2 DEF IInv, TypeOK
    <2>4. SnapshotFresh'
      <3> SUFFICES ASSUME ~torn
                   PROVE  access = times_cnt /\ \A j \in Kind \ todo' : times'[j] = times_cnt[j]
        BY <2>2 DEF SnapshotFresh
      <3>1. access = times_cnt /\ n = times_cnt[k]
        BY <2>1, <2>2 DEF IInv, SnapshotFresh
      <3> QED
        BY <2>1, <2>2, <3>1 DEF IInv, SnapshotFresh
    <2> QED
      BY <1>1, <2>3, <2>4, QuietCounters DEF IInv
  <1> QED
    BY <1>2, <1>3, <1>4, <1>5, <1>6, <1>7

LEMMA ResetInv ==
  ASSUME IInv, NEW k \in Kind, Reset(k)
  PROVE  IInv'
  <1> DEFINE race == IF Pending(k) # {} THEN {"reset"} ELSE {}
  <1>1. /\ gc = "reset" /\ k \in todo
        /\ times_cnt' = [times_cnt EXCEPT ![k] = 0]
        /\ since' = [since EXCEPT ![k] = 0]
        /\ raced' = [raced EXCEPT ![k] = race]
        /\ todo' = todo \ {k}
        /\ gc' = IF todo' = {} THEN "collect" ELSE gc
        /\ UNCHANGED <<word, pc, reg, access, times, torn>>
    BY DEF Reset, threads
  <1>2. /\ race \subseteq {"reset"}
        /\ "reset" \notin race => \A u \in Thread : pc[u] # k
    BY DEF Pending
  <1> HIDE DEF race
  <1>3. TypeOK'
    BY <1>1, <1>2 DEF IInv, TypeOK
  <1>4. CountsDriftOnlyByRace'
    BY <1>1, <1>2 DEF IInv, TypeOK, CountsDriftOnlyByRace
  <1>5. LoadsFresh'
    <2> SUFFICES ASSUME NEW u \in Thread, NEW j \in {pc[u]} \cap Kind
                 PROVE  /\ raced'[j] = {} => reg[u] = times_cnt'[j]
                        /\ "reset" \notin raced'[j] => reg[u] <= since'[j]
      BY <1>1 DEF LoadsFresh
    <2>1. CASE j = k
      BY <1>1, <1>2, <2>1 DEF IInv, TypeOK
    <2>2. CASE j # k
      BY <1>1, <2>2 DEF IInv, TypeOK, LoadsFresh
    <2> QED
      BY <2>1, <2>2
  <1>6. SnapshotFresh'
    BY <1>1 DEF SnapshotFresh
  <1> QED
    BY <1>3, <1>4, <1>5, <1>6 DEF IInv

LEMMA StepInv ==
  IInv /\ [Next]_vars => IInv'
  <1> SUFFICES ASSUME IInv, [Next]_vars PROVE IInv'
    OBVIOUS
  <1>1. CASE UNCHANGED vars
    BY <1>1 DEF vars, counters, threads, collector, IInv, TypeOK,
                CountsDriftOnlyByRace, LoadsFresh, SnapshotFresh
  <1>2. CASE Next
    BY <1>2, LoadCountInv, StoreCountInv, TakingInv, ResetInv DEF Next, GcTaskThread
  <1> QED
    BY <1>1, <1>2

(* Every reachable state satisfies the inductive invariant; in particular  *)
(* the variables keep their types.                                         *)
THEOREM Safety == Spec => []IInv
  BY InitInv, StepInv, PTL DEF Spec

(* The unprotected counters of src/src/atfsrw.c are exact between resets   *)
(* when no increment overlaps another one or a reset, never ahead when     *)
(* none overlaps a reset, for any number of threads.                       *)
THEOREM DriftNeedsRace == Spec => []CountsDriftOnlyByRace
  <1>1. IInv => CountsDriftOnlyByRace
    BY DEF IInv
  <1> QED
    BY <1>1, Safety, PTL

-----------------------------------------------------------------------------
LEMMA StepDecides ==
  ASSUME IInv, Next, At("decide"), gc' # gc, ~torn
  PROVE  gc' = "reset" <=> Due
  <1>1. Decide
    BY DEF Next, At, LoadCount, StoreCount, FillFirstPage, GcTaskThread, WakeUp,
           Sum, Split, Reset, Collect, collector
  <1>2. access = times_cnt /\ times = times_cnt
    <2>1. access = times_cnt /\ \A k \in Kind : times[k] = times_cnt[k]
      BY DEF At, IInv, SnapshotFresh
    <2> QED
      BY <2>1 DEF IInv, TypeOK
  <1> DEFINE w == times_cnt["write"]
             r == times_cnt["read"]
  <1>3. w \in Nat /\ r \in Nat /\ Total(times_cnt) = w + r
    BY Kinds DEF IInv, TypeOK, Total
  <1>4. gc' = "reset" <=> Total(times_cnt) # 0 /\ Triggered
    BY <1>1, <1>2 DEF Decide, Begin, At
  <1>5. Triggered <=>
          \/ 4 * w >= 3 * (w + r) /\ Scarce("write")
          \/ 4 * r >= 3 * (w + r) /\ Scarce("read")
    BY <1>2, <1>3, Kinds DEF Triggered, Dominates
  <1>6. Due <=>
          \/ 4 * w >= 3 * (w + r) /\ w > 0 /\ Scarce("write")
          \/ 4 * r >= 3 * (w + r) /\ r > 0 /\ Scarce("read")
    BY <1>3, Kinds DEF Due
  <1> HIDE DEF w, r
  <1> QED
    BY <1>3, <1>4, <1>5, <1>6

(* gc_task_thread takes each counter up to three times and in any order;   *)
(* when no access comes in while it looks, it collects exactly when it is  *)
(* due.                                                                    *)
THEOREM DecidesByCounts == Spec => DecidesRightly
  <1>1. IInv /\ [Next]_vars =>
          [At("decide") /\ gc' # gc /\ ~torn => (gc' = "reset" <=> Due)]_vars
    BY StepDecides
  <1> QED
    BY <1>1, Safety, PTL DEF Spec, DecidesRightly
=============================================================================
