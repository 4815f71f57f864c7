------------------------------ MODULE BootProofs ------------------------------
(***************************************************************************)
(* The safety of the boot and of the superblock's mutex, for any number of *)
(* processes and threads that start, run and die in any order; and what    *)
(* the boot leaves of the page lists, for any number of pages.             *)
(***************************************************************************)
EXTENDS Boot, FiniteSetTheorems, WellFoundedInduction, TLAPS

LEMMA Labels ==
  /\ Parts = {"pages", "inodes", "super"}
  /\ BuiltBefore["pages"] = {} /\ BuiltBefore["inodes"] = {"pages"}
  /\ BuiltBefore["super"] = {"pages", "inodes"} /\ BuiltBefore["gc"] = Parts
  BY DEF Parts, BuiltBefore

LEMMA ProcessOfThread ==
  ASSUME NEW t \in Thread
  PROVE  ProcessOf(t) \in Process
  BY DEF Process

LEMMA AtMostOne ==
  ASSUME NEW S, \A x, y \in S : x = y
  PROVE  Cardinality(S) <= 1
  <1>1. CASE S = {}
    BY <1>1, FS_EmptySet
  <1>2. CASE S # {}
    <2>1. PICK x \in S : S = {x}
      BY <1>2
    <2> QED
      BY <2>1, FS_Singleton
  <1> QED
    BY <1>1, <1>2

LEMMA InitInv ==
  Init => IInv
  <1> SUFFICES ASSUME Init PROVE IInv
    OBVIOUS
  <1>1. TypeOK
    BY Labels, BootAssumption DEF Init, TypeOK, Open, NoLists
  <1>2. BootOrder /\ BaseMapped /\ HolderInside
    BY Labels DEF Init, BootOrder, BaseMapped, HolderInside
  <1> QED
    BY <1>1, <1>2 DEF IInv

-----------------------------------------------------------------------------
(* The end of a process, by whatever step.                                 *)
LEMMA DieInv ==
  ASSUME IInv, NEW p \in Process, Die(p)
  PROVE  IInv'
  <1>1. /\ process_initialized' = [process_initialized EXCEPT ![p] = FALSE]
        /\ base' = [base EXCEPT ![p] = Null]
        /\ collector' = collector \ {p}
        /\ pc' = [t \in Thread |-> IF ProcessOf(t) = p THEN "idle" ELSE pc[t]]
        /\ sleep' = [t \in Thread |-> IF ProcessOf(t) = p THEN "awake" ELSE sleep[t]]
        /\ mutex' = IF mutex.holder \in Thread /\ ProcessOf(mutex.holder) = p
                    THEN [mutex EXCEPT !.holder = Dead] ELSE mutex
        /\ UNCHANGED <<claimed, built, lists, anchor, early, fault>>
    BY DEF Die, file
  <1>2. TypeOK'
    <2>1. mutex' \in [holder : Thread \cup {Null, Dead}, contended : BOOLEAN]
      BY <1>1 DEF IInv, TypeOK
    <2> QED
      BY <1>1, <2>1 DEF IInv, TypeOK
  <1>3. BootOrder'
    BY <1>1, Labels DEF IInv, TypeOK, BootOrder
  <1>4. BaseMapped'
    BY <1>1, Labels, ProcessOfThread DEF IInv, TypeOK, BaseMapped
  <1>5. HolderInside'
    BY <1>1 DEF IInv, TypeOK, HolderInside
  <1> QED
    BY <1>2, <1>3, <1>4, <1>5 DEF IInv

-----------------------------------------------------------------------------
(* The way to the boot.                                                    *)
LEMMA CallInv ==
  ASSUME IInv, NEW t \in Thread, Call(t) \/ ClaimProcess(t)
  PROVE  IInv'
  <1>1. /\ pc[t] \in {"idle", "claim"}
        /\ \E label \in {"lookup", "claim", "map"} : pc' = [pc EXCEPT ![t] = label]
        /\ process_initialized' \in [Process -> BOOLEAN]
        /\ UNCHANGED <<base, collector, claimed, built, lists, anchor, mutex, sleep,
                       early, fault>>
    BY ProcessOfThread DEF IInv, TypeOK, Call, ClaimProcess, Goto, volatile, file, lock
  <1>2. TypeOK'
    BY <1>1 DEF IInv, TypeOK
  <1>3. BootOrder'
    BY <1>1, Labels DEF IInv, TypeOK, BootOrder
  <1>4. BaseMapped'
    BY <1>1, Labels DEF IInv, TypeOK, BaseMapped
  <1>5. HolderInside'
    BY <1>1 DEF IInv, TypeOK, HolderInside
  <1> QED
    BY <1>2, <1>3, <1>4, <1>5 DEF IInv

LEMMA MapFileInv ==
  ASSUME IInv, NEW t \in Thread, MapFile(t)
  PROVE  IInv'
  <1>1. PICK a \in Address :
          /\ pc[t] = "map"
          /\ base' = [base EXCEPT ![ProcessOf(t)] = a]
          /\ pc' = [pc EXCEPT ![t] = "stamp"]
          /\ UNCHANGED <<process_initialized, collector, claimed, built, lists, anchor,
                         mutex, sleep, early, fault>>
    BY DEF MapFile, Goto, file, lock
  <1>2. a # Null /\ ProcessOf(t) \in Process
    BY BootAssumption, ProcessOfThread
  <1>3. TypeOK'
    BY <1>1, <1>2 DEF IInv, TypeOK
  <1>4. BootOrder'
    BY <1>1, Labels DEF IInv, TypeOK, BootOrder
  <1>5. BaseMapped'
    <2>1. ASSUME NEW u \in Thread, pc'[u] \in Parts \cup {"stamp", "gc"}
          PROVE  base'[ProcessOf(u)] # Null
      BY <1>1, <1>2, <2>1, Labels, ProcessOfThread DEF IInv, TypeOK, BaseMapped
    <2>2. ASSUME NEW p \in Process, base'[p] # Null, ~claimed
          PROVE  \E u \in Thread : ProcessOf(u) = p /\ pc'[u] = "stamp"
      <3>1. CASE p = ProcessOf(t)
        BY <1>1, <3>1 DEF IInv, TypeOK
      <3>2. CASE p # ProcessOf(t)
        BY <1>1, <2>2, <3>2 DEF IInv, TypeOK, BaseMapped
      <3> QED
        BY <3>1, <3>2
    <2> QED
      BY <1>1, <2>1, <2>2 DEF BaseMapped
  <1>6. HolderInside'
    BY <1>1 DEF IInv, TypeOK, HolderInside
  <1> QED
    BY <1>3, <1>4, <1>5, <1>6 DEF IInv

LEMMA ClaimFileInv ==
  ASSUME IInv, NEW t \in Thread, ClaimFile(t)
  PROVE  IInv'
  <1>1. /\ pc[t] = "stamp" /\ claimed' = TRUE
        /\ pc' = [pc EXCEPT ![t] = IF claimed THEN "lookup" ELSE "pages"]
        /\ UNCHANGED <<process_initialized, base, collector, built, lists, anchor,
                       mutex, sleep, early, fault>>
    BY DEF ClaimFile, Goto, volatile, lock
  <1>2. TypeOK'
    BY <1>1 DEF IInv, TypeOK
  <1>3. BootOrder'
    <2>1. CASE claimed
      BY <1>1, <2>1, Labels DEF IInv, TypeOK, BootOrder
    <2>2. CASE ~claimed
      <3>1. built = {} /\ built # Parts
        BY <2>2, Labels DEF IInv, TypeOK
      <3>2. collector = {} /\ \A u \in Thread : pc[u] \notin Parts \cup {"gc"}
        BY <2>2, <3>1 DEF IInv, BootOrder
      <3>3. /\ pc'[t] = "pages"
            /\ \A u \in Thread : u # t => pc'[u] \notin Parts \cup {"gc"}
        BY <1>1, <2>2, <3>2 DEF IInv, TypeOK
      <3> QED
        BY <1>1, <3>1, <3>2, <3>3, Labels DEF BootOrder
    <2> QED
      BY <2>1, <2>2
  <1>4. BaseMapped'
    BY <1>1, Labels DEF IInv, TypeOK, BaseMapped
  <1>5. HolderInside'
    BY <1>1 DEF IInv, TypeOK, HolderInside
  <1> QED
    BY <1>2, <1>3, <1>4, <1>5 DEF IInv

-----------------------------------------------------------------------------
(* The boot.                                                               *)
LEMMA CarvedFill ==
  ASSUME NEW fill
  PROVE  Carved(fill).fill = fill
  BY DEF Carved

(* The three parts alike: the next one is built, and the thread goes on.   *)
LEMMA BuildOrder ==
  ASSUME IInv, NEW t \in Thread,
         NEW part \in Parts, pc[t] = part,
         NEW label \in Parts \cup {"gc"}, pc' = [pc EXCEPT ![t] = label],
         built' = built \cup {part}, BuiltBefore[label] = BuiltBefore[part] \cup {part},
         UNCHANGED <<base, collector, claimed>>
  PROVE  BootOrder' /\ BaseMapped'
  <1>1. /\ claimed /\ built = BuiltBefore[part] /\ collector = {}
        /\ \A u \in Thread : pc[u] \in Parts \cup {"gc"} => u = t
        /\ base[ProcessOf(t)] # Null
    BY DEF IInv, BootOrder, BaseMapped
  <1>2. /\ pc'[t] = label
        /\ \A u \in Thread : u # t => pc'[u] = pc[u]
    BY DEF IInv, TypeOK
  <1>3. BootOrder'
    BY <1>1, <1>2 DEF BootOrder
  <1>4. BaseMapped'
    BY <1>1, <1>2 DEF IInv, BaseMapped
  <1> QED
    BY <1>3, <1>4

LEMMA BuildPagesInv ==
  ASSUME IInv, NEW t \in Thread, BuildPages(t)
  PROVE  IInv'
  <1>1. PICK fill \in Fills :
          /\ pc[t] = "pages" /\ lists' = Carved(fill)
          /\ built' = built \cup {"pages"} /\ pc' = [pc EXCEPT ![t] = "inodes"]
          /\ UNCHANGED <<process_initialized, base, collector, claimed, anchor, mutex,
                         sleep, early, fault>>
    BY DEF BuildPages, Goto, volatile, lock
  <1>2. BootOrder' /\ BaseMapped'
    <2>1. BuiltBefore["inodes"] = BuiltBefore["pages"] \cup {"pages"}
      BY Labels
    <2>2. "pages" \in Parts /\ "inodes" \in Parts \cup {"gc"}
      BY Labels
    <2> QED
      BY <1>1, <2>1, <2>2, BuildOrder
  <1>3. TypeOK'
    <2>1. lists'.fill \in Fills \cup {0}
      BY <1>1, CarvedFill
    <2>2. claimed /\ "pages" \in Parts
      BY <1>1, Labels DEF IInv, BootOrder
    <2> QED
      BY <1>1, <2>1, <2>2 DEF IInv, TypeOK
  <1>4. HolderInside'
    BY <1>1 DEF IInv, TypeOK, HolderInside
  <1> QED
    BY <1>2, <1>3, <1>4 DEF IInv

LEMMA BuildInodesInv ==
  ASSUME IInv, NEW t \in Thread, BuildInodes(t)
  PROVE  IInv'
  <1>1. /\ pc[t] = "inodes" /\ fault' \in {"none", "wild_write"}
        /\ built' = built \cup {"inodes"} /\ pc' = [pc EXCEPT ![t] = "super"]
        /\ UNCHANGED <<process_initialized, base, collector, claimed, lists, anchor,
                       mutex, sleep, early>>
    BY DEF BuildInodes, Goto, volatile, lock
  <1>2. BootOrder' /\ BaseMapped'
    <2>1. BuiltBefore["super"] = BuiltBefore["inodes"] \cup {"inodes"}
      BY Labels
    <2>2. "inodes" \in Parts /\ "super" \in Parts \cup {"gc"}
      BY Labels
    <2> QED
      BY <1>1, <2>1, <2>2, BuildOrder
  <1>3. TypeOK'
    <2>1. claimed /\ "inodes" \in Parts
      BY <1>1, Labels DEF IInv, BootOrder
    <2> QED
      BY <1>1, <2>1 DEF IInv, TypeOK
  <1>4. HolderInside'
    BY <1>1 DEF IInv, TypeOK, HolderInside
  <1> QED
    BY <1>2, <1>3, <1>4 DEF IInv

(* The mutex is opened while nobody has come to use it, or somebody was    *)
(* early.                                                                  *)
LEMMA BuildSuperInv ==
  ASSUME IInv, NEW t \in Thread, BuildSuper(t)
  PROVE  IInv'
  <1>1. /\ pc[t] = "super" /\ anchor' = base[ProcessOf(t)] /\ mutex' = Open
        /\ built' = built \cup {"super"} /\ pc' = [pc EXCEPT ![t] = "gc"]
        /\ UNCHANGED <<process_initialized, base, collector, claimed, lists,
                       sleep, early, fault>>
    BY DEF BuildSuper, Goto, volatile
  <1>2. BootOrder' /\ BaseMapped'
    <2>1. BuiltBefore["gc"] = BuiltBefore["super"] \cup {"super"}
      BY Labels
    <2>2. "super" \in Parts /\ "gc" \in Parts \cup {"gc"}
      BY Labels
    <2> QED
      BY <1>1, <2>1, <2>2, BuildOrder
  <1>3. claimed /\ "super" \in Parts /\ "super" \notin built
    BY <1>1, Labels DEF IInv, BootOrder
  <1>4. base[ProcessOf(t)] \in Address
    BY <1>1, Labels, ProcessOfThread DEF IInv, TypeOK, BaseMapped
  <1>5. TypeOK'
    BY <1>1, <1>3, <1>4, BootAssumption DEF IInv, TypeOK, Open
  <1>6. HolderInside'
    BY <1>1, <1>3 DEF IInv, TypeOK, HolderInside
  <1> QED
    BY <1>2, <1>5, <1>6 DEF IInv

LEMMA StartCollectorInv ==
  ASSUME IInv, NEW t \in Thread, StartCollector(t)
  PROVE  IInv'
  <1>1. /\ pc[t] = "gc" /\ collector' = collector \cup {ProcessOf(t)}
        /\ pc' = [pc EXCEPT ![t] = "lookup"]
        /\ UNCHANGED <<process_initialized, base, claimed, built, lists, anchor, mutex,
                       sleep, early, fault>>
    BY DEF StartCollector, Goto, file, lock
  <1>2. /\ built = Parts /\ collector = {}
        /\ \A u \in Thread : pc[u] \in Parts \cup {"gc"} => u = t
    BY <1>1, Labels DEF IInv, BootOrder
  <1>3. \A u \in Thread : pc'[u] \notin Parts \cup {"gc"}
    BY <1>1, <1>2, Labels DEF IInv, TypeOK
  <1>4. TypeOK'
    BY <1>1, ProcessOfThread DEF IInv, TypeOK
  <1>5. BootOrder'
    BY <1>1, <1>2, <1>3 DEF BootOrder
  <1>6. BaseMapped'
    BY <1>1 DEF IInv, TypeOK, BaseMapped
  <1>7. HolderInside'
    BY <1>1 DEF IInv, TypeOK, HolderInside
  <1> QED
    BY <1>4, <1>5, <1>6, <1>7 DEF IInv

-----------------------------------------------------------------------------
(* The steps of atfscreat.                                                 *)
LEMMA ReleaseSleep ==
  ASSUME IInv, NEW t \in Thread, Release(t)
  PROVE  mutex' = Open /\ sleep' \in [Thread -> {"awake", "asleep", "woken"}]
  BY DEF IInv, TypeOK, Release, Sleepers

LEMMA CreateInv ==
  ASSUME IInv, NEW t \in Thread,
         LookUp(t) \/ EndLookUp(t) \/ Alloc(t) \/ Insert(t) \/ Link(t) \/ Wait(t)
  PROVE  IInv'
  <1> DEFINE Inside == {"looking", "alloc", "insert", "linking"}
  <1>1. /\ pc[t] \in {"lookup"} \cup Inside
        /\ \E label \in {"idle", "lookup"} \cup Inside : pc' = [pc EXCEPT ![t] = label]
        /\ UNCHANGED <<process_initialized, base, collector, claimed, built, lists, anchor>>
    <2>1. CASE Wait(t)
      <3>1. pc' = [pc EXCEPT ![t] = pc[t]]
        BY <2>1 DEF Wait, IInv, TypeOK
      <3> QED
        BY <2>1, <3>1 DEF Wait, volatile, file
    <2>2. CASE LookUp(t) \/ EndLookUp(t) \/ Alloc(t) \/ Insert(t) \/ Link(t)
      BY <2>2 DEF LookUp, EndLookUp, Alloc, Insert, Link, Goto, volatile, file
    <2> QED
      BY <2>1, <2>2
  <1>2. TypeOK'
    <2>1. pc' \in [Thread -> {"idle", "claim", "map", "stamp", "pages", "inodes", "super",
                              "gc", "lookup", "looking", "alloc", "insert", "linking"}]
      BY <1>1 DEF IInv, TypeOK
    <2>2. mutex' \in [holder : Thread \cup {Null, Dead}, contended : BOOLEAN]
      <3>1. CASE LookUp(t) \/ Insert(t)
        <4>1. PICK contended \in BOOLEAN :
                mutex' = [holder |-> t, contended |-> contended]
          BY <3>1 DEF LookUp, Insert, Acquire
        <4> QED
          BY <4>1
      <3>2. CASE EndLookUp(t) \/ Link(t)
        <4>1. mutex' = [holder |-> Null, contended |-> FALSE]
          BY <3>2, ReleaseSleep DEF EndLookUp, Link, Open
        <4> QED
          BY <4>1
      <3>3. CASE Alloc(t) \/ Wait(t)
        BY <3>3 DEF IInv, TypeOK, Alloc, Wait, lock
      <3> QED
        BY <3>1, <3>2, <3>3
    <2>3. sleep' \in [Thread -> {"awake", "asleep", "woken"}]
      BY ReleaseSleep DEF IInv, TypeOK, LookUp, EndLookUp, Alloc, Insert, Link, Wait,
                          Acquire, lock
    <2>4. early' \in BOOLEAN /\ fault' \in {"none", "wild_write", "unbuilt_used"}
      BY DEF IInv, TypeOK, LookUp, EndLookUp, Alloc, Insert, Link, Wait
    <2> QED
      BY <1>1, <2>1, <2>2, <2>3, <2>4 DEF IInv, TypeOK
  <1>3. BootOrder'
    BY <1>1, Labels DEF IInv, TypeOK, BootOrder
  <1>4. BaseMapped'
    BY <1>1, Labels DEF IInv, TypeOK, BaseMapped
  <1>5. HolderInside'
    <2> SUFFICES ASSUME ~early', NEW u \in Thread
                 PROVE  /\ pc'[u] \in {"looking", "linking"} => mutex'.holder = u
                        /\ pc'[u] \in Inside => "super" \in built
      BY <1>1 DEF HolderInside
    <2>1. ~early
      BY DEF LookUp, EndLookUp, Alloc, Insert, Link, Wait
    <2>2. /\ \A v \in Thread : pc[v] \in {"looking", "linking"} => mutex.holder = v
          /\ \A v \in Thread : pc[v] \in Inside => "super" \in built
      BY <2>1 DEF IInv, HolderInside
    <2>3. pc'[u] \in Inside => "super" \in built
      <3>1. CASE u # t
        BY <1>1, <2>2, <3>1 DEF IInv, TypeOK
      <3>2. CASE u = t /\ pc[t] # "lookup"
        BY <1>1, <2>2, <3>2
      <3>3. CASE u = t /\ pc[t] = "lookup"
        BY <3>3 DEF IInv, TypeOK, LookUp, EndLookUp, Alloc, Insert, Link, Wait
      <3> QED
        BY <3>1, <3>2, <3>3
    <2>4. ASSUME pc'[u] \in {"looking", "linking"}
          PROVE  mutex'.holder = u
      <3>1. CASE LookUp(t) \/ Insert(t)
        <4>1. /\ mutex.holder = Null /\ mutex'.holder = t
              /\ \E label \in {"looking", "linking"} : pc' = [pc EXCEPT ![t] = label]
          BY <3>1 DEF LookUp, Insert, Acquire, Goto
        <4>2. Null # u
          BY BootAssumption
        <4> QED
          BY <2>2, <2>4, <4>1, <4>2 DEF IInv, TypeOK
      <3>2. CASE EndLookUp(t) \/ Link(t)
        <4>1. /\ pc[t] \in {"looking", "linking"}
              /\ \E label \in {"alloc", "idle"} : pc' = [pc EXCEPT ![t] = label]
          BY <3>2 DEF EndLookUp, Link, Goto
        <4>2. u # t /\ pc[u] \in {"looking", "linking"}
          BY <2>4, <4>1 DEF IInv, TypeOK
        <4> QED
          BY <2>2, <4>1, <4>2
      <3>3. CASE Alloc(t)
        BY <2>2, <2>4, <3>3 DEF Alloc, Goto, lock, IInv, TypeOK
      <3>4. CASE Wait(t)
        <4>1. pc' = pc /\ mutex'.holder = mutex.holder
          BY <3>4 DEF Wait, IInv, TypeOK
        <4> QED
          BY <2>2, <2>4, <4>1
      <3> QED
        BY <3>1, <3>2, <3>3, <3>4
    <2> QED
      BY <2>3, <2>4
  <1> QED
    BY <1>2, <1>3, <1>4, <1>5 DEF IInv

LEMMA LinkFailsInv ==
  ASSUME IInv, NEW t \in Thread, LinkFails(t)
  PROVE  IInv'
  <1>1. CASE Die(ProcessOf(t))
    BY <1>1, DieInv, ProcessOfThread
  <1>2. CASE /\ fault' = "wild_write"
             /\ UNCHANGED <<volatile, file, lock, pc, early>>
    <2>1. TypeOK'
      BY <1>2 DEF IInv, TypeOK, volatile, file, lock
    <2>2. BootOrder' /\ BaseMapped' /\ HolderInside'
      BY <1>2 DEF IInv, BootOrder, BaseMapped, HolderInside, volatile, file, lock
    <2> QED
      BY <2>1, <2>2 DEF IInv
  <1> QED
    BY <1>1, <1>2 DEF LinkFails

LEMMA StepInv ==
  IInv /\ [Next]_vars => IInv'
  <1> SUFFICES ASSUME IInv, [Next]_vars PROVE IInv'
    OBVIOUS
  <1>1. CASE UNCHANGED vars
    BY <1>1 DEF vars, volatile, file, lock, IInv, TypeOK, BootOrder, BaseMapped, HolderInside
  <1>2. ASSUME NEW t \in Thread, Call(t) \/ Run(t)
        PROVE  IInv'
    <2>1. LookUpNowhere(t) => Die(ProcessOf(t))
      BY DEF LookUpNowhere
    <2> QED
      BY <1>2, <2>1, CallInv, MapFileInv, ClaimFileInv, BuildPagesInv, BuildInodesInv,
         BuildSuperInv, StartCollectorInv, CreateInv, LinkFailsInv, DieInv, ProcessOfThread
         DEF Run
  <1>3. ASSUME NEW p \in Process, Kill(p)
        PROVE  IInv'
    BY <1>3, DieInv DEF Kill
  <1> QED
    BY <1>1, <1>2, <1>3 DEF Next

(* Every reachable state satisfies the inductive invariant.                *)
THEOREM Safety == Spec => []IInv
  BY InitInv, StepInv, PTL DEF Spec

(* The init number is claimed and the file built once, part by part, by    *)
(* one thread, and one process runs the collector, whatever dies.          *)
THEOREM BootsOnce == Spec => []BootOnce
  <1>1. IInv => BootOnce
    <2> SUFFICES ASSUME IInv PROVE BootOnce
      OBVIOUS
    <2>1. Cardinality({t \in Thread : pc[t] \in Parts \cup {"gc"}}) <= 1
      <3> DEFINE S == {t \in Thread : pc[t] \in Parts \cup {"gc"}}
      <3>1. \A x, y \in S : x = y
        BY DEF IInv, BootOrder
      <3> HIDE DEF S
      <3>2. Cardinality(S) <= 1
        BY <3>1, AtMostOne
      <3> QED
        BY <3>2 DEF S
    <2>2. \A t \in Building : claimed /\ pc[t] \notin built
      BY Labels DEF IInv, BootOrder, Building
    <2>3. Cardinality(collector) <= 1
      BY AtMostOne DEF IInv, BootOrder
    <2>4. collector # {} => built = Parts /\ \A t \in Thread : pc[t] # "gc"
      BY DEF IInv, BootOrder
    <2> QED
      BY <2>1, <2>2, <2>3, <2>4 DEF BootOnce
  <1> QED
    BY <1>1, Safety, PTL

(* Between the first look-up and the last link of a file, the superblock's *)
(* mutex excludes, for threads of any processes, as long as nobody has     *)
(* taken it before kernel_superblock_init made it.                         *)
THEOREM MutexExcludes == Spec => []ExclusiveUnlessEarly
  <1>1. IInv => ExclusiveUnlessEarly
    <2> SUFFICES ASSUME IInv, ~early PROVE Exclusive
      BY DEF ExclusiveUnlessEarly
    <2> DEFINE S == {t \in Thread : pc[t] \in {"looking", "linking"}}
    <2>1. \A x, y \in S : x = y
      BY DEF IInv, HolderInside
    <2> HIDE DEF S
    <2>2. Cardinality(S) <= 1
      BY <2>1, AtMostOne
    <2> QED
      BY <2>2 DEF S, Exclusive
  <1> QED
    BY <1>1, Safety, PTL

-----------------------------------------------------------------------------
LEMMA StepEarly ==
  ASSUME IInv, [Next]_vars, ~early, early'
  PROVE  HalfBuilt \/ \E u \in Thread : pc'[u] \in Parts \cup {"stamp"}
  <1>1. early' # early
    OBVIOUS
  <1>2. PICK t \in Thread : LookUp(t)
    BY <1>1 DEF Next, vars, Run, Call, ClaimProcess, MapFile, ClaimFile, BuildPages,
       BuildInodes, BuildSuper, StartCollector, LookUpNowhere, EndLookUp, Alloc, Insert,
       Link, LinkFails, Wait, Kill, Die
  <1>3. /\ pc[t] = "lookup" /\ base[ProcessOf(t)] # Null /\ "super" \notin built
        /\ pc' = [pc EXCEPT ![t] = "looking"]
    BY <1>2 DEF LookUp, Goto
  <1>4. \A u \in Thread : u # t => pc'[u] = pc[u]
    BY <1>3 DEF IInv, TypeOK
  <1>5. ASSUME NEW u \in Thread, pc[u] \in Parts \cup {"stamp"}
        PROVE  pc'[u] \in Parts \cup {"stamp"}
    <2>1. u # t
      BY <1>3, <1>5, Labels
    <2> QED
      BY <1>4, <1>5, <2>1
  <1>6. CASE claimed
    <2>1. built # Parts
      BY <1>3, Labels
    <2>2. CASE Building = {}
      BY <1>6, <2>1, <2>2 DEF HalfBuilt
    <2>3. CASE Building # {}
      <3>1. PICK u \in Thread : pc[u] \in Parts
        BY <2>3 DEF Building
      <3> QED
        BY <1>5, <3>1
    <2> QED
      BY <2>2, <2>3
  <1>7. CASE ~claimed
    <2>1. \E u \in Thread : pc[u] = "stamp"
      BY <1>3, <1>7, ProcessOfThread DEF IInv, BaseMapped
    <2> QED
      BY <1>5, <2>1
  <1> QED
    BY <1>6, <1>7

(* A thread that runs into a superblock that is not built runs beside a    *)
(* boot that has begun, or after one that has died: init_atfs lets nobody  *)
(* through otherwise.                                                      *)
THEOREM EarlyOnlyBesideBoot == Spec => EarlyNeedsOpenBoot
  <1>1. IInv /\ [Next]_vars =>
          [~early /\ early' =>
             HalfBuilt \/ \E u \in Thread : pc'[u] \in Parts \cup {"stamp"}]_vars
    BY StepEarly
  <1> QED
    BY <1>1, Safety, PTL DEF Spec, EarlyNeedsOpenBoot

-----------------------------------------------------------------------------
(* What a step may do to the places of the threads and to the boot.        *)
LEMMA BootSteps ==
  ASSUME IInv, [Next]_vars
  PROVE  /\ claimed => claimed'
         /\ Building = {} => built' = built
         /\ claimed => \A t \in Thread : pc'[t] \in Parts =>
              pc[t] = pc'[t] \/ pc[t] \in Parts
         /\ \A t \in Thread : pc'[t] = "gc" => pc[t] \in {"super", "gc"}
         /\ collector' \subseteq collector \/ \E t \in Thread : pc[t] = "gc"
  <1> USE Labels DEF Building
  <1>1. CASE UNCHANGED vars
    BY <1>1 DEF vars, volatile, file
  <1>2. ASSUME NEW p \in Process, Die(p)
        PROVE  /\ UNCHANGED <<claimed, built>> /\ collector' \subseteq collector
               /\ \A t \in Thread : pc'[t] \in {"idle", pc[t]}
    BY <1>2 DEF Die, file
  <1>3. CASE \E p \in Process : Die(p)
    BY <1>2, <1>3
  <1>4. ASSUME NEW t \in Thread,
               \/ Call(t) \/ ClaimProcess(t) \/ MapFile(t) \/ LookUp(t) \/ EndLookUp(t)
               \/ Alloc(t) \/ Insert(t) \/ Link(t) \/ Wait(t)
        PROVE  /\ UNCHANGED <<claimed, built, collector>>
               /\ \A u \in Thread : pc'[u] = pc[u] \/ pc'[u] \notin Parts \cup {"gc"}
    BY <1>4 DEF Call, ClaimProcess, MapFile, LookUp, EndLookUp, Alloc, Insert, Link, Wait,
                Goto, volatile, file, IInv, TypeOK
  <1>5. ASSUME NEW t \in Thread, ClaimFile(t)
        PROVE  /\ claimed' /\ UNCHANGED <<built, collector>>
               /\ \A u \in Thread : \/ pc'[u] \in {pc[u], "lookup"}
                                    \/ ~claimed /\ pc'[u] = "pages"
    BY <1>5 DEF ClaimFile, Goto, volatile, IInv, TypeOK
  <1>6. ASSUME NEW t \in Thread, BuildPages(t) \/ BuildInodes(t) \/ BuildSuper(t)
        PROVE  /\ pc[t] \in Parts /\ UNCHANGED <<claimed, collector>>
               /\ pc'[t] \in {"inodes", "super", "gc"} /\ (pc'[t] = "gc" => pc[t] = "super")
               /\ \A u \in Thread : u # t => pc'[u] = pc[u]
    BY <1>6 DEF BuildPages, BuildInodes, BuildSuper, Goto, volatile, IInv, TypeOK
  <1>7. ASSUME NEW t \in Thread, StartCollector(t)
        PROVE  /\ pc[t] = "gc" /\ UNCHANGED <<claimed, built>>
               /\ \A u \in Thread : pc'[u] = pc[u] \/ pc'[u] = "lookup"
    BY <1>7 DEF StartCollector, Goto, file, IInv, TypeOK
  <1>8. ASSUME NEW t \in Thread, LinkFails(t), ~ \E p \in Process : Die(p)
        PROVE  UNCHANGED <<claimed, built, collector, pc>>
    BY <1>8, ProcessOfThread DEF LinkFails, volatile, file
  <1>9. ASSUME NEW t \in Thread, LookUpNowhere(t)
        PROVE  \E p \in Process : Die(p)
    BY <1>9, ProcessOfThread DEF LookUpNowhere
  <1>10. ASSUME NEW p \in Process, Kill(p)
         PROVE  \E q \in Process : Die(q)
    BY <1>10 DEF Kill
  <1>11. CASE \E t \in Thread : \/ Call(t) \/ ClaimProcess(t) \/ MapFile(t) \/ LookUp(t)
                                \/ EndLookUp(t) \/ Alloc(t) \/ Insert(t) \/ Link(t)
                                \/ Wait(t)
    BY <1>4, <1>11
  <1>12. CASE \E t \in Thread : ClaimFile(t)
    BY <1>5, <1>12
  <1>13. CASE \E t \in Thread : BuildPages(t) \/ BuildInodes(t) \/ BuildSuper(t)
    BY <1>6, <1>13
  <1>14. CASE \E t \in Thread : StartCollector(t)
    BY <1>7, <1>14
  <1>15. CASE \E t \in Thread : LinkFails(t)
    BY <1>3, <1>8, <1>15
  <1> QED
    BY <1>1, <1>3, <1>9, <1>10, <1>11, <1>12, <1>13, <1>14, <1>15 DEF Next, Run

LEMMA StepLoss ==
  ASSUME IInv, [Next]_vars
  PROVE  (HalfBuilt => HalfBuilt') /\ (Uncollected => Uncollected')
  <1>1. ASSUME HalfBuilt
        PROVE  HalfBuilt'
    <2>1. /\ claimed' /\ built' = built
          /\ \A t \in Thread : pc'[t] \notin Parts
      BY <1>1, BootSteps DEF HalfBuilt, Building
    <2> QED
      BY <1>1, <2>1 DEF HalfBuilt, Building
  <1>2. ASSUME Uncollected
        PROVE  Uncollected'
    <2>1. /\ built = Parts /\ collector = {} /\ \A t \in Thread : pc[t] # "gc"
      BY <1>2 DEF Uncollected
    <2>2. Building = {}
      BY <2>1, Labels DEF IInv, BootOrder, Building
    <2>3. built' = Parts /\ collector' = {} /\ \A t \in Thread : pc'[t] # "gc"
      BY <2>1, <2>2, BootSteps, Labels DEF Building
    <2> QED
      BY <2>3 DEF Uncollected
  <1> QED
    BY <1>1, <1>2

(* A boot that dies half-way is never taken up again, and a collector that *)
(* dies is never replaced, however often processes start on the file.      *)
THEOREM LossesStay == Spec => LossIsFinal
  <1>1. IInv /\ [Next]_vars =>
          [(HalfBuilt => HalfBuilt') /\ (Uncollected => Uncollected')]_vars
    BY StepLoss
  <1> QED
    BY <1>1, Safety, PTL DEF Spec, LossIsFinal

-----------------------------------------------------------------------------
(* Remainders of whole numbers.                                            *)
LEMMA Divided ==
  ASSUME NEW d \in Nat \ {0}, NEW x \in Int
  PROVE  \E q \in Int, r \in 0..(d - 1) : x = d * q + r /\ x % d = r
  <1>1. /\ x \div d \in Int /\ x % d \in 0..(d - 1)
        /\ x = d * (x \div d) + (x % d)
    OBVIOUS
  <1> QED
    BY <1>1

LEMMA ProductGap ==
  ASSUME NEW d \in Nat \ {0}, NEW c \in Int, c # 0
  PROVE  d * c \in Int /\ (d * c >= d \/ d * c <= 0 - d)
  <1>1. CASE c > 0
    <2>1. PICK n \in Nat : c = n + 1
      <3>1. c - 1 \in Nat /\ c = (c - 1) + 1
        BY <1>1
      <3> QED
        BY <3>1
    <2>2. d * c = d * n + d /\ d * n \in Nat
      BY <2>1
    <2> QED
      BY <2>2
  <1>2. CASE c < 0
    <2>1. PICK n \in Nat : c = 0 - n - 1
      <3>1. 0 - c - 1 \in Nat /\ c = 0 - (0 - c - 1) - 1
        BY <1>2
      <3> QED
        BY <3>1
    <2>2. d * c = 0 - d * n - d /\ d * n \in Nat
      BY <2>1
    <2> QED
      BY <2>2
  <1> QED
    BY <1>1, <1>2

LEMMA RemainderIs ==
  ASSUME NEW d \in Nat \ {0}, NEW x \in Int, NEW q \in Int, NEW r \in 0..(d - 1),
         x = d * q + r
  PROVE  x % d = r
  <1>1. PICK e \in Int, s \in 0..(d - 1) : x = d * e + s /\ x % d = s
    BY Divided
  <1>2. CASE e = q
    BY <1>1, <1>2
  <1>3. CASE e # q
    <2>1. PICK c \in Int : c = q - e
      OBVIOUS
    <2>2. d * q = d * e + d * c /\ d * e \in Int /\ d * q \in Int /\ d * c \in Int
      <3>1. q = e + c
        BY <2>1
      <3> QED
        BY <3>1
    <2>3. d * c >= d \/ d * c <= 0 - d
      BY <1>3, <2>1, ProductGap
    <2> QED
      BY <1>1, <2>2, <2>3
  <1> QED
    BY <1>2, <1>3

(* Taking off again and again, modulo d, is taking off the sum.            *)
LEMMA TakenOff ==
  ASSUME NEW d \in Nat \ {0}, NEW x \in Int, NEW y \in Int
  PROVE  ((x % d) - y) % d = (x - y) % d
  <1>1. PICK q \in Int, r \in 0..(d - 1) : x = d * q + r /\ x % d = r
    BY Divided
  <1>2. PICK e \in Int, s \in 0..(d - 1) : r - y = d * e + s /\ (r - y) % d = s
    <2>1. r - y \in Int
      OBVIOUS
    <2> QED
      BY <2>1, Divided
  <1>3. d * (q + e) = d * q + d * e /\ d * q \in Int /\ d * e \in Int
    OBVIOUS
  <1>4. x - y = d * (q + e) + s /\ x - y \in Int /\ q + e \in Int
    BY <1>1, <1>2, <1>3
  <1>5. (x - y) % d = s
    BY <1>4, RemainderIs
  <1> QED
    BY <1>1, <1>2, <1>5

-----------------------------------------------------------------------------
(* A set of naturals that is not empty has a smallest element.             *)
LEMMA SmallestIn ==
  ASSUME NEW T \in SUBSET Nat, T # {}
  PROVE  \E x \in T : \A y \in T : x <= y
  <1> DEFINE R == {p \in Nat \X Nat : p[1] < p[2]}
  <1>1. IsWellFoundedOn(R, Nat)
    BY NatLessThanWellFounded DEF OpToRel
  <1>2. PICK x \in T : \A y \in T : ~(<<y, x>> \in R)
    BY <1>1, WFMin
  <1>3. ASSUME NEW y \in T PROVE x <= y
    <2>1. x \in Nat /\ y \in Nat /\ <<y, x>> \in Nat \X Nat
      OBVIOUS
    <2>2. ~(y < x)
      BY <1>2, <2>1
    <2> QED
      BY <2>1, <2>2
  <1> QED
    BY <1>3

(* The carving loop.  Its first turn cuts the chain behind the page below  *)
(* the last one, its second the memory behind OFFSET_NULL, and the others  *)
(* change the count only.                                                  *)
CutLinks == [FreshLinks EXCEPT ![NumPages - 1] = OFFSET_NULL]

AfterTurn(j, fill) ==
  [node  |-> IF j = 0 THEN NumPages ELSE IF j = 1 THEN NumPages - 1 ELSE OFFSET_NULL,
   head  |-> IF j = 0 THEN NumPages ELSE IF j = 1 THEN FreshLinks[NumPages - 1]
             ELSE IF j = 2 THEN SUPERBLOCK ELSE OFFSET_NULL,
   count |-> (NumPages - j * fill) % U64,
   next  |-> IF j = 0 THEN FreshLinks ELSE IF j = 1 THEN CutLinks
             ELSE [CutLinks EXCEPT ![OFFSET_NULL] = OFFSET_NULL]]

(* What Turns(fill) is asked to be a solution of.                          *)
Taken(f, fill) ==
  [j \in 0..(fill - 1) |->
     IF j = 0 THEN [node |-> NumPages, head |-> NumPages, count |-> NumPages,
                    next |-> FreshLinks]
     ELSE CarveTurn(f[j - 1], fill)]

LEMMA FreshAre ==
  ASSUME NumPages >= 2
  PROVE  /\ NumPages \in Nat /\ OFFSET_NULL = NumPages + 1 /\ SUPERBLOCK = 0
         /\ FreshLinks \in [1..OFFSET_NULL -> 0..OFFSET_NULL]
         /\ FreshLinks[OFFSET_NULL] = SUPERBLOCK /\ FreshLinks[1] = OFFSET_NULL
         /\ \A p \in 2..NumPages : FreshLinks[p] = p - 1
         /\ CutLinks \in [1..OFFSET_NULL -> 0..OFFSET_NULL]
         /\ CutLinks[NumPages - 1] = OFFSET_NULL
         /\ \A p \in 1..OFFSET_NULL : p # NumPages - 1 => CutLinks[p] = FreshLinks[p]
  <1>1. NumPages \in Nat /\ OFFSET_NULL = NumPages + 1 /\ SUPERBLOCK = 0
    BY BootAssumption DEF OFFSET_NULL, SUPERBLOCK
  <1>2. /\ DOMAIN FreshLinks = 1..OFFSET_NULL
        /\ FreshLinks[OFFSET_NULL] = SUPERBLOCK /\ FreshLinks[1] = OFFSET_NULL
        /\ \A p \in 2..NumPages : FreshLinks[p] = p - 1
    BY <1>1 DEF FreshLinks
  <1>3. FreshLinks \in [1..OFFSET_NULL -> 0..OFFSET_NULL]
    BY <1>1 DEF FreshLinks
  <1> QED
    BY <1>1, <1>2, <1>3 DEF CutLinks

LEMMA NextTurn ==
  ASSUME NumPages >= 2, NEW fill \in Nat, NEW j \in Nat, j # 0
  PROVE  AfterTurn(j, fill) = CarveTurn(AfterTurn(j - 1, fill), fill)
  <1> DEFINE r == AfterTurn(j - 1, fill)
             n == r.next[r.node]
  <1>1. /\ n = IF j = 1 THEN NumPages - 1 ELSE OFFSET_NULL
        /\ r.next[n] = IF j = 1 THEN FreshLinks[NumPages - 1]
                       ELSE IF j = 2 THEN SUPERBLOCK ELSE OFFSET_NULL
        /\ [r.next EXCEPT ![n] = OFFSET_NULL] = IF j = 1 THEN CutLinks
             ELSE [CutLinks EXCEPT ![OFFSET_NULL] = OFFSET_NULL]
    <2>1. CASE j = 1
      <3>1. r.node = NumPages /\ r.next = FreshLinks
        BY <2>1 DEF AfterTurn
      <3>2. FreshLinks[NumPages] = NumPages - 1
        BY FreshAre
      <3> QED
        BY <2>1, <3>1, <3>2 DEF CutLinks
    <2>2. CASE j = 2
      <3>1. r.node = NumPages - 1 /\ r.next = CutLinks
        BY <2>2 DEF AfterTurn
      <3>2. CutLinks[NumPages - 1] = OFFSET_NULL /\ CutLinks[OFFSET_NULL] = SUPERBLOCK
        BY FreshAre
      <3> QED
        BY <2>2, <3>1, <3>2
    <2>3. CASE j > 2
      <3>1. r.node = OFFSET_NULL
        BY <2>3 DEF AfterTurn
      <3>2. r.next = [CutLinks EXCEPT ![OFFSET_NULL] = OFFSET_NULL]
        BY <2>3 DEF AfterTurn
      <3>3. PICK c : c = [CutLinks EXCEPT ![OFFSET_NULL] = OFFSET_NULL]
        OBVIOUS
      <3>4. OFFSET_NULL \in 1..OFFSET_NULL /\ OFFSET_NULL \in 0..OFFSET_NULL
        BY FreshAre
      <3>5. c \in [1..OFFSET_NULL -> 0..OFFSET_NULL] /\ c[OFFSET_NULL] = OFFSET_NULL
        BY <3>3, <3>4, FreshAre
      <3>6. [c EXCEPT ![OFFSET_NULL] = OFFSET_NULL] = c
        BY <3>4, <3>5
      <3>7. r.next[OFFSET_NULL] = OFFSET_NULL
        BY <3>2, <3>3, <3>5
      <3>8. [r.next EXCEPT ![OFFSET_NULL] = OFFSET_NULL]
              = [CutLinks EXCEPT ![OFFSET_NULL] = OFFSET_NULL]
        BY <3>2, <3>3, <3>6
      <3>9. n = OFFSET_NULL
        BY <3>1, <3>7
      <3> QED
        BY <2>3, <3>7, <3>8, <3>9
    <2> QED
      BY <2>1, <2>2, <2>3
  <1>2. (r.count - fill) % U64 = (NumPages - j * fill) % U64
    <2>1. r.count = (NumPages - (j - 1) * fill) % U64
      BY DEF AfterTurn
    <2>2. /\ (j - 1) * fill \in Int
          /\ NumPages - (j - 1) * fill - fill = NumPages - j * fill
      BY BootAssumption
    <2>3. U64 \in Nat \ {0} /\ NumPages - (j - 1) * fill \in Int
      BY <2>2, BootAssumption
    <2>4. (((NumPages - (j - 1) * fill) % U64) - fill) % U64
            = (NumPages - (j - 1) * fill - fill) % U64
      BY <2>3, TakenOff
    <2> QED
      BY <2>1, <2>2, <2>4
  <1>3. CarveTurn(r, fill)
          = [node |-> n, head |-> r.next[n], count |-> (r.count - fill) % U64,
             next |-> [r.next EXCEPT ![n] = OFFSET_NULL]]
    BY DEF CarveTurn
  <1> HIDE DEF r
  <1>4. j # 0 /\ AfterTurn(j, fill)
          = [node |-> IF j = 1 THEN NumPages - 1 ELSE OFFSET_NULL,
             head |-> IF j = 1 THEN FreshLinks[NumPages - 1]
                      ELSE IF j = 2 THEN SUPERBLOCK ELSE OFFSET_NULL,
             count |-> (NumPages - j * fill) % U64,
             next  |-> IF j = 1 THEN CutLinks
                       ELSE [CutLinks EXCEPT ![OFFSET_NULL] = OFFSET_NULL]]
    BY DEF AfterTurn
  <1> QED
    BY <1>1, <1>2, <1>3, <1>4 DEF r

(* The recursion over the turns has a value, and no other.                 *)
LEMMA TurnsSolve ==
  ASSUME NumPages >= 2, NEW fill \in Nat
  PROVE  Turns(fill) = Taken(Turns(fill), fill)
  <1>1. Turns(fill) = CHOOSE f : f = Taken(f, fill)
    BY DEF Turns, Taken
  <1>2. PICK f : f = [j \in 0..(fill - 1) |-> AfterTurn(j, fill)]
    OBVIOUS
  <1>3. ASSUME NEW j \in 0..(fill - 1)
        PROVE  f[j] = IF j = 0 THEN [node |-> NumPages, head |-> NumPages,
                                     count |-> NumPages, next |-> FreshLinks]
                      ELSE CarveTurn(f[j - 1], fill)
    <2>1. CASE j = 0
      <3>1. (NumPages - 0 * fill) % U64 = NumPages
        <4>1. NumPages - 0 * fill = NumPages
          BY BootAssumption
        <4> QED
          BY <4>1, BootAssumption
      <3> QED
        BY <1>2, <2>1, <3>1 DEF AfterTurn
    <2>2. CASE j # 0
      <3>1. j - 1 \in 0..(fill - 1) /\ j \in Nat
        BY <2>2
      <3> QED
        BY <1>2, <2>2, <3>1, NextTurn
    <2> QED
      BY <2>1, <2>2
  <1>4. f = [j \in 0..(fill - 1) |-> f[j]]
    BY <1>2
  <1>5. f = Taken(f, fill)
    BY <1>3, <1>4 DEF Taken
  <1> QED
    BY <1>1, <1>5, Zenon

LEMMA TurnsAre ==
  ASSUME NumPages >= 2, NEW fill \in Nat, NEW j \in 0..(fill - 1)
  PROVE  Turns(fill)[j] = AfterTurn(j, fill)
  <1> DEFINE Bad == {k \in 0..(fill - 1) : Turns(fill)[k] # AfterTurn(k, fill)}
  <1>1. SUFFICES ASSUME Bad # {} PROVE FALSE
    OBVIOUS
  <1>2. PICK k \in Bad : \A y \in Bad : k <= y
    <2>1. Bad \in SUBSET Nat
      OBVIOUS
    <2> QED
      BY <1>1, <2>1, SmallestIn
  <1>3. k \in 0..(fill - 1) /\ k \in Nat /\ Turns(fill)[k] # AfterTurn(k, fill)
    BY <1>2
  <1>4. Turns(fill)[k] = Taken(Turns(fill), fill)[k]
    BY TurnsSolve
  <1>5. CASE k = 0
    <2>1. NumPages - 0 * fill = NumPages
      BY BootAssumption
    <2>2. (NumPages - 0 * fill) % U64 = NumPages
      BY <2>1, BootAssumption
    <2> QED
      BY <1>3, <1>4, <1>5, <2>2 DEF Taken, AfterTurn
  <1>6. CASE k # 0
    <2>1. k - 1 \in 0..(fill - 1) /\ k - 1 \notin Bad
      BY <1>2, <1>3, <1>6
    <2>2. Turns(fill)[k - 1] = AfterTurn(k - 1, fill)
      BY <2>1
    <2>3. Turns(fill)[k] = CarveTurn(Turns(fill)[k - 1], fill)
      BY <1>3, <1>4, <1>6 DEF Taken
    <2> QED
      BY <1>3, <1>6, <2>2, <2>3, NextTurn
  <1> QED
    BY <1>5, <1>6

-----------------------------------------------------------------------------
(* The chains that are left.                                               *)
Down(p) == [i \in 1..p |-> p + 1 - i]

Followed(f, next) ==
  [p \in 0..OFFSET_NULL |->
     CASE p = OFFSET_NULL -> <<>>
       [] p = SUPERBLOCK  -> <<SUPERBLOCK>>
       [] OTHER           -> <<p>> \o f[next[p]]]

(* The links after the carving, but for that behind OFFSET_NULL.           *)
IsCut(next) == \A p \in 1..NumPages : next[p] = CutLinks[p]

ChainFrom(p) ==
  IF p = OFFSET_NULL THEN <<>>
  ELSE IF p = SUPERBLOCK THEN <<SUPERBLOCK>>
  ELSE IF p = NumPages THEN <<NumPages>> \o <<NumPages - 1>>
  ELSE IF p = NumPages - 1 THEN <<NumPages - 1>>
  ELSE Down(p)

LEMMA SeqIs ==
  ASSUME NEW f \in Seq(Nat), NEW n, n = Len(f)
  PROVE  f = [k \in 1..n |-> f[k]]
  OBVIOUS

LEMMA DownNext ==
  ASSUME NEW p \in Nat, p # 0
  PROVE  Down(p) = <<p>> \o Down(p - 1)
  <1>1. Down(p) = [i \in 1..p |-> p + 1 - i]
    BY DEF Down
  <1>2. /\ Down(p - 1) \in Seq(Nat) /\ Len(Down(p - 1)) = p - 1
        /\ \A i \in 1..(p - 1) : Down(p - 1)[i] = p - i
    BY DEF Down
  <1>3. PICK b : b = <<p>> \o Down(p - 1)
    OBVIOUS
  <1>4. b \in Seq(Nat) /\ Len(b) = p
    BY <1>2, <1>3
  <1>5. \A i \in 1..p : b[i] = IF i = 1 THEN p ELSE Down(p - 1)[i - 1]
    BY <1>2, <1>3
  <1>6. ASSUME NEW i \in 1..p PROVE b[i] = p + 1 - i
    <2>1. CASE i = 1
      BY <1>5, <2>1
    <2>2. CASE i # 1
      <3>1. i - 1 \in 1..(p - 1) /\ p - (i - 1) = p + 1 - i
        BY <2>2
      <3> QED
        BY <1>2, <1>5, <2>2, <3>1
    <2> QED
      BY <2>1, <2>2
  <1>7. b = [i \in 1..p |-> b[i]]
    BY <1>4, SeqIs
  <1>8. b = [i \in 1..p |-> p + 1 - i]
    BY <1>6, <1>7
  <1> QED
    BY <1>1, <1>3, <1>8

LEMMA DownEnds == Down(0) = <<>> /\ Down(1) = <<1>>
  <1>1. Down(0) = <<>>
    BY DEF Down
  <1>2. Down(1) = <<1>>
    <2>1. \A i \in 1..1 : i = 1
      OBVIOUS
    <2>2. Down(1) = [i \in 1..1 |-> 1]
      BY <2>1 DEF Down
    <2> QED
      BY <2>2
  <1> QED
    BY <1>1, <1>2

LEMMA ChainNext ==
  ASSUME NumPages >= 2, NEW next, IsCut(next), NEW p \in 1..NumPages
  PROVE  next[p] \in 0..OFFSET_NULL /\ ChainFrom(p) = <<p>> \o ChainFrom(next[p])
  <1>1. /\ NumPages \in Nat /\ OFFSET_NULL = NumPages + 1 /\ SUPERBLOCK = 0
        /\ p \in 1..OFFSET_NULL /\ next[p] = CutLinks[p]
    BY FreshAre DEF IsCut
  <1>2. next[p] \in 0..OFFSET_NULL
    BY <1>1, FreshAre
  <1>3. ChainFrom(OFFSET_NULL) = <<>>
    BY DEF ChainFrom
  <1>4. CASE p = NumPages
    <2>1. next[p] = NumPages - 1
      BY <1>1, <1>4, FreshAre
    <2>2. ChainFrom(NumPages - 1) = <<NumPages - 1>>
      BY <1>1 DEF ChainFrom
    <2>3. ChainFrom(p) = <<NumPages>> \o <<NumPages - 1>>
      BY <1>1, <1>4 DEF ChainFrom
    <2> QED
      BY <1>2, <1>4, <2>1, <2>2, <2>3
  <1>5. CASE p = NumPages - 1
    <2>1. next[p] = OFFSET_NULL
      BY <1>1, <1>5, FreshAre
    <2>2. ChainFrom(p) = <<p>>
      BY <1>1, <1>5 DEF ChainFrom
    <2>3. <<p>> \o <<>> = <<p>>
      OBVIOUS
    <2> QED
      BY <1>2, <1>3, <2>1, <2>2, <2>3
  <1>6. CASE p < NumPages - 1
    <2>1. ChainFrom(p) = Down(p) /\ p \in Nat /\ p # 0
      BY <1>1, <1>6 DEF ChainFrom
    <2>2. CASE p = 1
      <3>1. next[p] = OFFSET_NULL
        BY <1>1, <1>6, <2>2, FreshAre
      <3>2. Down(p) = <<p>>
        BY <2>2, DownEnds
      <3> QED
        BY <1>2, <1>3, <2>1, <3>1, <3>2
    <2>3. CASE p # 1
      <3>1. next[p] = p - 1 /\ p - 1 # SUPERBLOCK /\ p - 1 < NumPages - 1
        BY <1>1, <1>6, <2>3, FreshAre
      <3>2. ChainFrom(p - 1) = Down(p - 1)
        BY <1>1, <3>1 DEF ChainFrom
      <3> QED
        BY <1>2, <2>1, <3>1, <3>2, DownNext
    <2> QED
      BY <2>2, <2>3
  <1> QED
    BY <1>1, <1>4, <1>5, <1>6

(* The recursion that reads a chain has a value, and no other.             *)
LEMMA ChainsSolve ==
  ASSUME NumPages >= 2, NEW next, IsCut(next)
  PROVE  ChainsBy(next) = Followed(ChainsBy(next), next)
  <1>1. ChainsBy(next) = CHOOSE f : f = Followed(f, next)
    BY DEF ChainsBy, Followed
  <1>2. PICK f : f = [p \in 0..OFFSET_NULL |-> ChainFrom(p)]
    OBVIOUS
  <1>3. ASSUME NEW p \in 0..OFFSET_NULL
        PROVE  f[p] = CASE p = OFFSET_NULL -> <<>>
                        [] p = SUPERBLOCK  -> <<SUPERBLOCK>>
                        [] OTHER           -> <<p>> \o f[next[p]]
    <2>1. CASE p \in {OFFSET_NULL, SUPERBLOCK}
      <3>1. OFFSET_NULL # SUPERBLOCK
        BY FreshAre
      <3>2. f[p] = ChainFrom(p)
        BY <1>2
      <3> QED
        BY <2>1, <3>1, <3>2 DEF ChainFrom
    <2>2. CASE p \notin {OFFSET_NULL, SUPERBLOCK}
      <3>1. p \in 1..NumPages
        BY <2>2, FreshAre
      <3>2. next[p] \in 0..OFFSET_NULL /\ ChainFrom(p) = <<p>> \o ChainFrom(next[p])
        BY <3>1, ChainNext
      <3> QED
        BY <1>2, <2>2, <3>2
    <2> QED
      BY <2>1, <2>2
  <1>4. f = [p \in 0..OFFSET_NULL |-> f[p]]
    BY <1>2
  <1>5. f = Followed(f, next)
    BY <1>3, <1>4 DEF Followed
  <1> QED
    BY <1>1, <1>5, Zenon

LEMMA ChainsAre ==
  ASSUME NumPages >= 2, NEW next, IsCut(next)
  PROVE  /\ ChainsBy(next)[OFFSET_NULL] = <<>>
         /\ ChainsBy(next)[SUPERBLOCK] = <<SUPERBLOCK>>
         /\ \A p \in 1..(NumPages - 2) : ChainsBy(next)[p] = Down(p)
  <1> DEFINE Chain == ChainsBy(next)
             Bad == {p \in 1..(NumPages - 2) : Chain[p] # Down(p)}
  <1>1. \A p \in 0..OFFSET_NULL :
          Chain[p] = CASE p = OFFSET_NULL -> <<>>
                       [] p = SUPERBLOCK  -> <<SUPERBLOCK>>
                       [] OTHER           -> <<p>> \o Chain[next[p]]
    <2>1. PICK f : f = Chain
      OBVIOUS
    <2>2. f = Followed(f, next)
      BY <2>1, ChainsSolve
    <2> HIDE DEF Chain
    <2>3. \A p \in 0..OFFSET_NULL :
            f[p] = CASE p = OFFSET_NULL -> <<>>
                     [] p = SUPERBLOCK  -> <<SUPERBLOCK>>
                     [] OTHER           -> <<p>> \o f[next[p]]
      BY <2>2, Zenon DEF Followed
    <2> QED
      BY <2>1, <2>3
  <1> HIDE DEF Chain
  <1>2. NumPages \in Nat /\ OFFSET_NULL = NumPages + 1 /\ SUPERBLOCK = 0
    BY FreshAre
  <1>3. Chain[OFFSET_NULL] = <<>> /\ Chain[SUPERBLOCK] = <<SUPERBLOCK>>
    <2>1. OFFSET_NULL \in 0..OFFSET_NULL /\ SUPERBLOCK \in 0..OFFSET_NULL
      BY <1>2
    <2>2. SUPERBLOCK # OFFSET_NULL
      BY <1>2
    <2>3. Chain[OFFSET_NULL] = <<>>
      BY <1>1, <2>1, <2>2
    <2>4. Chain[SUPERBLOCK] = <<SUPERBLOCK>>
      BY <1>1, <2>1, <2>2
    <2> QED
      BY <2>3, <2>4
  <1>4. ASSUME Bad # {} PROVE FALSE
    <2>1. PICK p \in Bad : \A y \in Bad : p <= y
      <3>1. Bad \in SUBSET Nat
        BY <1>2
      <3> QED
        BY <1>4, <3>1, SmallestIn
    <2>2. p \in 1..(NumPages - 2) /\ Chain[p] # Down(p) /\ p \in Nat /\ p # 0
      BY <1>2, <2>1
    <2>3. Chain[p] = <<p>> \o Chain[next[p]]
      <3>1. p \in 0..OFFSET_NULL /\ p # OFFSET_NULL /\ p # SUPERBLOCK
        BY <1>2, <2>2
      <3> QED
        BY <1>1, <3>1
    <2>4. next[p] = FreshLinks[p]
      BY <1>2, <2>2, FreshAre DEF IsCut
    <2>5. CASE p = 1
      <3>1. next[p] = OFFSET_NULL
        BY <2>4, <2>5, FreshAre
      <3>2. Chain[p] = <<p>> \o <<>>
        BY <1>3, <2>3, <3>1
      <3> QED
        BY <2>2, <2>5, <3>2, DownEnds
    <2>6. CASE p # 1
      <3>1. next[p] = p - 1
        BY <1>2, <2>2, <2>4, <2>6, FreshAre
      <3>2. p - 1 \in 1..(NumPages - 2) /\ p - 1 \notin Bad
        BY <1>2, <2>1, <2>2, <2>6
      <3>3. Chain[p - 1] = Down(p - 1)
        BY <3>2
      <3> QED
        BY <2>2, <2>3, <3>1, <3>3, DownNext
    <2> QED
      BY <2>5, <2>6
  <1> QED
    BY <1>3, <1>4 DEF Chain

(* What the carving leaves, for any number of pages and any refill.        *)
LEMMA CarvedIs ==
  ASSUME NEW fill \in Fills
  PROVE  /\ Carved(fill).fill = fill
         /\ Carved(fill).count = (NumPages - (fill - 1) * fill) % U64
         /\ Carved(fill).chain = IF fill = 2 THEN Down(NumPages - 2)
                                 ELSE IF fill = 3 THEN <<SUPERBLOCK>> ELSE <<>>
  <1>1. NumPages >= 2 /\ NumPages \in Nat /\ fill \in Nat /\ fill >= 2 /\ fill <= NumPages
    BY BootAssumption
  <1>2. PICK end : end = AfterTurn(fill - 1, fill)
    OBVIOUS
  <1>3. Turns(fill)[fill - 1] = end
    <2>1. fill - 1 \in 0..(fill - 1)
      BY <1>1
    <2> QED
      BY <1>1, <1>2, <2>1, TurnsAre
  <1>4. Carved(fill) = [fill |-> fill, chain |-> ChainsBy(end.next)[end.head],
                        count |-> end.count]
    BY <1>3 DEF Carved
  <1>5. end.count = (NumPages - (fill - 1) * fill) % U64
    BY <1>2 DEF AfterTurn
  <1>6. IsCut(end.next)
    <2>1. CASE fill = 2
      <3>1. end.next = CutLinks
        BY <1>2, <2>1 DEF AfterTurn
      <3> QED
        BY <3>1 DEF IsCut
    <2>2. CASE fill # 2
      <3>1. end.next = [CutLinks EXCEPT ![OFFSET_NULL] = OFFSET_NULL]
        BY <1>1, <1>2, <2>2 DEF AfterTurn
      <3> QED
        BY <1>1, <3>1, FreshAre DEF IsCut
    <2> QED
      BY <2>1, <2>2
  <1>7. ChainsBy(end.next)[end.head] = IF fill = 2 THEN Down(NumPages - 2)
                                       ELSE IF fill = 3 THEN <<SUPERBLOCK>> ELSE <<>>
    <2>1. CASE fill = 2
      <3>1. end.head = FreshLinks[NumPages - 1]
        BY <1>2, <2>1 DEF AfterTurn
      <3>2. CASE NumPages = 2
        <4>1. end.head = OFFSET_NULL
          BY <3>1, <3>2, FreshAre
        <4>2. Down(NumPages - 2) = <<>>
          BY <1>1, <3>2, DownEnds
        <4> QED
          BY <1>1, <1>6, <2>1, <4>1, <4>2, ChainsAre
      <3>3. CASE NumPages > 2
        <4>1. end.head = NumPages - 2 /\ NumPages - 2 \in 1..(NumPages - 2)
          BY <1>1, <3>1, <3>3, FreshAre
        <4> QED
          BY <1>1, <1>6, <2>1, <4>1, ChainsAre
      <3> QED
        BY <1>1, <3>2, <3>3
    <2>2. CASE fill = 3
      <3>1. end.head = SUPERBLOCK
        BY <1>2, <2>2 DEF AfterTurn
      <3> QED
        BY <1>1, <1>6, <2>2, <3>1, ChainsAre
    <2>3. CASE fill > 3
      <3>1. end.head = OFFSET_NULL
        BY <1>1, <1>2, <2>3 DEF AfterTurn
      <3> QED
        BY <1>1, <1>6, <2>3, <3>1, ChainsAre
    <2> QED
      BY <1>1, <2>1, <2>2, <2>3
  <1> QED
    BY <1>4, <1>5, <1>7

(* The lists stay what the boot has carved.                                *)
CarvedLists == "pages" \in built => \E fill \in Fills : lists = Carved(fill)

LEMMA CarvedInit == Init => CarvedLists
  BY DEF Init, CarvedLists

LEMMA CarvedStep == CarvedLists /\ [Next]_vars => CarvedLists'
  <1> SUFFICES ASSUME CarvedLists, [Next]_vars PROVE CarvedLists'
    OBVIOUS
  <1>1. CASE \E t \in Thread : BuildPages(t)
    BY <1>1 DEF BuildPages, CarvedLists
  <1>2. CASE UNCHANGED lists /\ ("pages" \in built' => "pages" \in built)
    BY <1>2 DEF CarvedLists, Carved
  <1>3. CASE UNCHANGED vars
    BY <1>2, <1>3 DEF vars, file
  <1>4. ASSUME NEW p \in Process, Die(p)
        PROVE  UNCHANGED <<lists, built>>
    BY <1>4 DEF Die, file
  <1>5. ASSUME NEW t \in Thread, ~BuildPages(t), Call(t) \/ Run(t)
        PROVE  UNCHANGED lists /\ ("pages" \in built' => "pages" \in built)
    <2>1. CASE LinkFails(t) \/ LookUpNowhere(t)
      BY <1>4, <2>1 DEF LinkFails, LookUpNowhere, file, Process, ProcessOf
    <2> QED
      BY <1>5, <2>1 DEF Run, Call, ClaimProcess, MapFile, ClaimFile, BuildInodes,
         BuildSuper, StartCollector, LookUp, EndLookUp, Alloc, Insert, Link, Wait, volatile, file
  <1>6. ASSUME NEW p \in Process, Kill(p)
        PROVE  UNCHANGED <<lists, built>>
    BY <1>4, <1>6 DEF Kill
  <1> QED
    BY <1>1, <1>2, <1>3, <1>5, <1>6 DEF Next, Run

(* What kernel_page_list_init leaves is what the allocator starts from, if *)
(* a refill is of two pages, and a list without a page otherwise, whatever *)
(* the number of pages.                                                    *)
THEOREM CarvingFits == Spec => []CarvingFitsTwo
  <1>1. CarvedLists => CarvingFitsTwo
    <2> SUFFICES ASSUME CarvedLists, "pages" \in built PROVE CarvingFitsTwo
      BY DEF CarvingFitsTwo
    <2>1. PICK fill \in Fills : lists = Carved(fill)
      BY DEF CarvedLists
    <2>2. /\ lists.fill = fill /\ lists.count = (NumPages - (fill - 1) * fill) % U64
          /\ lists.chain = IF fill = 2 THEN Down(NumPages - 2)
                           ELSE IF fill = 3 THEN <<SUPERBLOCK>> ELSE <<>>
      BY <2>1, CarvedIs
    <2>3. CASE fill = 2
      <3>1. /\ NumPages - (fill - 1) * fill = NumPages - 2 /\ NumPages - 2 \in Nat
            /\ NumPages - 2 < U64
        BY <2>3, BootAssumption
      <3>2. lists.count = NumPages - 2
        <4>1. \A x \in 0..(U64 - 1) : x % U64 = x
          BY BootAssumption
        <4>2. NumPages - 2 \in 0..(U64 - 1)
          BY <3>1, BootAssumption
        <4> QED
          BY <2>2, <3>1, <4>1, <4>2
      <3>3. Pool!BootGlobal = [chain |-> Down(NumPages - 2), count |-> NumPages - 2]
        BY <3>1 DEF Pool!BootGlobal, Pool!Descending, Down
      <3>4. \A c \in 1..NumCpus : Pool!BootLocal(c) = [chain |-> <<SUPERBLOCK>>, count |-> 0]
        BY DEF Pool!BootLocal, Pool!SUPERBLOCK, SUPERBLOCK
      <3>5. Pool!List = 0..NumCpus /\ Pool!GLOBAL = 0
        BY BootAssumption DEF Pool!List, Pool!GLOBAL, Pool!Cpu
      <3>6. Pool!Init
        BY <2>2, <2>3, <3>2, <3>3, <3>4, <3>5 DEF Pool!Init, PageLists
      <3> QED
        BY <2>2, <2>3, <3>6 DEF CarvingFitsTwo
    <2>4. CASE fill # 2
      <3>1. \A i \in DOMAIN lists.chain : lists.chain[i] = SUPERBLOCK
        BY <2>2, <2>4
      <3> QED
        BY <2>2, <2>4, <3>1 DEF CarvingFitsTwo
    <2> QED
      BY <2>3, <2>4
  <1> QED
    BY <1>1, CarvedInit, CarvedStep, PTL DEF Spec
=============================================================================
