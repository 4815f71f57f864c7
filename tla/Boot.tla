-------------------------------- MODULE Boot --------------------------------
(***************************************************************************)
(* How threads and processes come to use the file system: init_atfs and    *)
(* init_env (src/src/nvmio.c), the kernel_*_init functions they call       *)
(* (src/src/super.c), the start of the collector's thread, and the part of *)
(* atfscreat that first touches what has been built.                       *)
(*                                                                         *)
(* A process has its own process_initialized and its own base address; the *)
(* init number, the lists, the superblock and its mutex are in the mapped  *)
(* file and outlive it.  A process may die at any step, by a signal or by  *)
(* following a bad pointer; its slot is then a new process on the same     *)
(* file.  What it held stays locked, since nothing in the code recovers a  *)
(* mutex or the boot.                                                      *)
(*                                                                         *)
(* The mutex of the superblock is zeroed memory before the boot, which is  *)
(* an unlocked mutex, and pthread_mutex_init(.., NULL) makes one that is   *)
(* private to a process: an unlock wakes a sleeper of the own process and  *)
(* no other.  s_list is built of addresses of the process that built it.   *)
(***************************************************************************)
EXTENDS Integers, Sequences, FiniteSets

CONSTANTS
  Thread,       \* pairs of a process that uses the file and a thread of it
  Address,      \* where mmap may map the file
  Null,         \* NULL, and the holder of a free mutex
  Dead,         \* the holder of a mutex whose holder has died
  NumPages,     \* NVM_FREE_NUM_PAGES
  Fills,        \* the values of FILL_LOCAL_PAGE_LIST_MAX to look at
  NumCpus,      \* g_cpu_nums
  U64           \* number of values of a u64 (2^64)

ASSUME BootAssumption ==
  /\ \A t \in Thread : t = <<t[1], t[2]>>
  /\ Null \notin Address /\ Null # Dead /\ {Null, Dead} \cap Thread = {}
  /\ NumPages \in Nat /\ NumCpus \in Nat \ {0}
  /\ Fills \subseteq 2..NumPages
  /\ U64 \in Nat /\ U64 > NumPages

ProcessOf(t) == t[1]
Process == {ProcessOf(t) : t \in Thread}
Parts == {"pages", "inodes", "super"}

VARIABLES
  process_initialized,  \* of every process
  base,                 \* g_nvm_base_addr of every process
  claimed,              \* whether the file has its init number
  built,                \* the parts that have been built in the file
  lists,                \* what kernel_page_list_init has left
  anchor,               \* the base address that the pointers of s_list are for
  mutex,                \* sb->mutex: its holder, and whether an unlock must wake
  sleep,                \* of every thread: "awake", "asleep" on the mutex or "woken"
  collector,            \* the processes that run gc_task_thread
  pc,                   \* where each thread is
  early,                \* whether the mutex was used before it was built
  fault                 \* "none", or how memory was damaged

volatile == <<process_initialized, base, collector>>
file == <<claimed, built, lists, anchor>>
lock == <<mutex, sleep>>
vars == <<volatile, file, lock, pc, early, fault>>

Open == [holder |-> Null, contended |-> FALSE]
NoLists == [fill |-> 0, chain |-> <<>>, count |-> 0]

Init ==
  /\ process_initialized = [p \in Process |-> FALSE]
  /\ base = [p \in Process |-> Null]
  /\ claimed = FALSE
  /\ built = {}
  /\ lists = NoLists
  /\ anchor = Null
  /\ mutex = Open
  /\ sleep = [t \in Thread |-> "awake"]
  /\ collector = {}
  /\ pc = [t \in Thread |-> "idle"]
  /\ early = FALSE
  /\ fault = "none"

Goto(t, label) == pc' = [pc EXCEPT ![t] = label]

-----------------------------------------------------------------------------
(* atfscreat tests process_initialized, init_atfs tests and sets it.       *)
Call(t) ==
  /\ pc[t] = "idle"
  /\ Goto(t, IF process_initialized[ProcessOf(t)] THEN "lookup" ELSE "claim")
  /\ UNCHANGED <<volatile, file, lock, early, fault>>

ClaimProcess(t) ==
  /\ pc[t] = "claim"
  /\ process_initialized' = [process_initialized EXCEPT ![ProcessOf(t)] = TRUE]
  /\ Goto(t, IF process_initialized[ProcessOf(t)] THEN "lookup" ELSE "map")
  /\ UNCHANGED <<base, collector, file, lock, early, fault>>

MapFile(t) ==
  /\ pc[t] = "map"
  /\ \E a \in Address : base' = [base EXCEPT ![ProcessOf(t)] = a]
  /\ Goto(t, "stamp")
  /\ UNCHANGED <<process_initialized, collector, file, lock, early, fault>>

(* The compare-and-swap of the init number: whoever finds it set takes the *)
(* file for built.                                                         *)
MutantClaimFileByLists(t) ==   \* goes by what has been built
  /\ pc[t] = "stamp"
  /\ claimed' = TRUE
  /\ Goto(t, IF built = Parts THEN "lookup" ELSE "pages")
  /\ UNCHANGED <<volatile, built, lists, anchor, lock, early, fault>>

MutantClaimFileWeakly(t) ==   \* the swap may fail although the file is fresh
  /\ pc[t] = "stamp"
  /\ \/ claimed' = TRUE /\ Goto(t, IF claimed THEN "lookup" ELSE "pages")
     \/ claimed' = claimed /\ Goto(t, "lookup")
  /\ UNCHANGED <<volatile, built, lists, anchor, lock, early, fault>>

ClaimFile(t) ==
  /\ pc[t] = "stamp"
  /\ claimed' = TRUE
  /\ Goto(t, IF claimed THEN "lookup" ELSE "pages")
  /\ UNCHANGED <<volatile, built, lists, anchor, lock, early, fault>>

-----------------------------------------------------------------------------
(* kernel_page_list_init.  The pages are chained from the last one down to *)
(* the first.  The carving loop then runs fill - 1 times; every turn steps *)
(* to the next node, cuts the chain behind it, moves the global head there *)
(* and takes fill pages off the count.  The second turn steps through      *)
(* OFFSET_NULL to memory that reads as zeros, that is page 0, until the    *)
(* loop itself writes there.  The carved list is no CPU's.                 *)
SUPERBLOCK == 0
OFFSET_NULL == NumPages + 1

MutantCarveTurnCountsOne(r, fill) ==
  LET n == r.next[r.node]
  IN  [node |-> n, head |-> r.next[n], count |-> (r.count - 1) % U64,
       next |-> [r.next EXCEPT ![n] = OFFSET_NULL]]

CarveTurn(r, fill) ==
  LET n == r.next[r.node]
  IN  [node |-> n, head |-> r.next[n], count |-> (r.count - fill) % U64,
       next |-> [r.next EXCEPT ![n] = OFFSET_NULL]]

FreshLinks ==
  [p \in 1..OFFSET_NULL |->
     CASE p = OFFSET_NULL -> SUPERBLOCK
       [] p = 1           -> OFFSET_NULL
       [] OTHER           -> p - 1]

Turns(fill) ==
  LET Turn[j \in 0..(fill - 1)] ==
        IF j = 0 THEN [node |-> NumPages, head |-> NumPages, count |-> NumPages,
                       next |-> FreshLinks]
        ELSE CarveTurn(Turn[j - 1], fill)
  IN  Turn

ChainsBy(next) ==
  LET Chain[p \in 0..OFFSET_NULL] ==
        CASE p = OFFSET_NULL -> <<>>
          [] p = SUPERBLOCK  -> <<SUPERBLOCK>>
          [] OTHER           -> <<p>> \o Chain[next[p]]
  IN  Chain

Carved(fill) ==
  LET end == Turns(fill)[fill - 1]
  IN  [fill |-> fill, chain |-> ChainsBy(end.next)[end.head], count |-> end.count]

BuildPages(t) ==
  /\ pc[t] = "pages"
  /\ \E fill \in Fills : lists' = Carved(fill)
  /\ built' = built \cup {"pages"}
  /\ Goto(t, "inodes")
  /\ UNCHANGED <<volatile, claimed, anchor, lock, early, fault>>

(* kernel_inode_list_init fills the list of an index that is not set: one  *)
(* of the lists of the table, or memory that is anything else.             *)
BuildInodes(t) ==
  /\ pc[t] = "inodes"
  /\ built' = built \cup {"inodes"}
  /\ fault' \in {"none", "wild_write"}
  /\ Goto(t, "super")
  /\ UNCHANGED <<volatile, claimed, lists, anchor, lock, early>>

(* kernel_superblock_init: the list of inodes is empty, and the mutex is   *)
(* unlocked, whoever holds it.                                             *)
MutantBuildSuperForgetsList(t) ==
  /\ pc[t] = "super"
  /\ built' = built \cup {"super"}
  /\ mutex' = Open
  /\ Goto(t, "gc")
  /\ UNCHANGED <<volatile, claimed, lists, anchor, sleep, early, fault>>

BuildSuper(t) ==
  /\ pc[t] = "super"
  /\ built' = built \cup {"super"}
  /\ anchor' = base[ProcessOf(t)]
  /\ mutex' = Open
  /\ Goto(t, "gc")
  /\ UNCHANGED <<volatile, claimed, lists, sleep, early, fault>>

StartCollector(t) ==
  /\ pc[t] = "gc"
  /\ collector' = collector \cup {ProcessOf(t)}
  /\ Goto(t, "lookup")
  /\ UNCHANGED <<process_initialized, base, file, lock, early, fault>>

-----------------------------------------------------------------------------
(* The mutex.  A thread that finds it held sleeps, and asks the holder to  *)
(* wake somebody; one that was woken asks the same when it gets it.        *)
MutantAcquireTrustsWake(t) ==   \* does not test again after its sleep
  /\ mutex.holder = Null \/ sleep[t] = "woken"
  /\ sleep[t] # "asleep"
  /\ mutex' = [holder |-> t, contended |-> sleep[t] = "woken"]
  /\ sleep' = [sleep EXCEPT ![t] = "awake"]

Acquire(t) ==
  /\ mutex.holder = Null
  /\ sleep[t] # "asleep"
  /\ mutex' = [holder |-> t, contended |-> sleep[t] = "woken"]
  /\ sleep' = [sleep EXCEPT ![t] = "awake"]

Wait(t) ==
  /\ pc[t] \in {"lookup", "insert"}
  /\ base[ProcessOf(t)] # Null
  /\ mutex.holder # Null
  /\ sleep[t] # "asleep"
  /\ mutex' = [mutex EXCEPT !.contended = TRUE]
  /\ sleep' = [sleep EXCEPT ![t] = "asleep"]
  /\ UNCHANGED <<volatile, file, pc, early, fault>>

Sleepers(p) == {u \in Thread : ProcessOf(u) = p /\ sleep[u] = "asleep"}

MutantReleaseWakesNobody(t) ==
  /\ mutex' = Open
  /\ UNCHANGED sleep

Release(t) ==
  /\ mutex' = Open
  /\ IF mutex.contended /\ Sleepers(ProcessOf(t)) # {}
     THEN \E u \in Sleepers(ProcessOf(t)) : sleep' = [sleep EXCEPT ![u] = "woken"]
     ELSE UNCHANGED sleep

(* The end of a process: nothing of it is left but what is in the file.    *)
Die(p) ==
  /\ process_initialized' = [process_initialized EXCEPT ![p] = FALSE]
  /\ base' = [base EXCEPT ![p] = Null]
  /\ collector' = collector \ {p}
  /\ pc' = [t \in Thread |-> IF ProcessOf(t) = p THEN "idle" ELSE pc[t]]
  /\ sleep' = [t \in Thread |-> IF ProcessOf(t) = p THEN "awake" ELSE sleep[t]]
  /\ mutex' = IF mutex.holder \in Thread /\ ProcessOf(mutex.holder) = p
              THEN [mutex EXCEPT !.holder = Dead] ELSE mutex
  /\ UNCHANGED <<file, early, fault>>

Kill(p) ==   \* before ClaimProcess there is nothing to lose
  /\ process_initialized[p]
  /\ Die(p)

-----------------------------------------------------------------------------
(* atfscreat: the critical section of the look-up, the allocation of the   *)
(* inode, and the critical section that links it.  get_superblock() is     *)
(* NULL in a process that has not mapped the file.                         *)
LookUp(t) ==
  /\ pc[t] = "lookup"
  /\ base[ProcessOf(t)] # Null
  /\ Acquire(t)
  /\ early' = (early \/ "super" \notin built)
  /\ Goto(t, "looking")
  /\ UNCHANGED <<volatile, file, fault>>

LookUpNowhere(t) ==
  /\ pc[t] = "lookup"
  /\ base[ProcessOf(t)] = Null
  /\ Die(ProcessOf(t))

EndLookUp(t) ==
  /\ pc[t] = "looking"
  /\ Release(t)
  /\ Goto(t, "alloc")
  /\ UNCHANGED <<volatile, file, early, fault>>

(* An inode list that is not built is one that needs a refill; page lists  *)
(* that are not built lead into the reserved pages.                        *)
Alloc(t) ==
  /\ pc[t] = "alloc"
  /\ fault' = IF "pages" \in built THEN fault ELSE "unbuilt_used"
  /\ Goto(t, "insert")
  /\ UNCHANGED <<volatile, file, lock, early>>

Insert(t) ==
  /\ pc[t] = "insert"
  /\ Acquire(t)
  /\ Goto(t, "linking")
  /\ UNCHANGED <<volatile, file, early, fault>>

(* list_add writes through the addresses in s_list.                        *)
Link(t) ==
  /\ pc[t] = "linking"
  /\ anchor = base[ProcessOf(t)]
  /\ Release(t)
  /\ Goto(t, "idle")
  /\ UNCHANGED <<volatile, file, early, fault>>

(* ... which are NULL before the superblock is built, and in a process     *)
(* that has mapped the file elsewhere they are unmapped or somebody's.     *)
LinkFails(t) ==
  /\ pc[t] = "linking"
  /\ anchor # base[ProcessOf(t)]
  /\ \/ Die(ProcessOf(t))
     \/ /\ anchor # Null
        /\ fault' = "wild_write"
        /\ UNCHANGED <<volatile, file, lock, pc, early>>

-----------------------------------------------------------------------------
Run(t) ==
  \/ ClaimProcess(t) \/ MapFile(t) \/ ClaimFile(t)
  \/ BuildPages(t) \/ BuildInodes(t) \/ BuildSuper(t) \/ StartCollector(t)
  \/ LookUp(t) \/ LookUpNowhere(t) \/ EndLookUp(t) \/ Alloc(t)
  \/ Insert(t) \/ Link(t) \/ LinkFails(t) \/ Wait(t)

Next ==
  \/ /\ fault = "none"
     /\ \/ \E t \in Thread : Call(t) \/ Run(t)
        \/ \E p \in Process : Kill(p)
  \/ fault # "none" /\ UNCHANGED vars   \* after a fault nothing is claimed

(* A thread inside a call is scheduled; nobody has to call, and the mutex  *)
(* is not fair.                                                            *)
Spec == Init /\ [][Next]_vars /\ \A t \in Thread : WF_vars(fault = "none" /\ Run(t))

-----------------------------------------------------------------------------
TypeOK ==
  /\ process_initialized \in [Process -> BOOLEAN]
  /\ base \in [Process -> Address \cup {Null}]
  /\ claimed \in BOOLEAN
  /\ built \subseteq Parts
  /\ lists.fill \in Fills \cup {0}
  /\ anchor \in Address \cup {Null}
  /\ mutex \in [holder : Thread \cup {Null, Dead}, contended : BOOLEAN]
  /\ sleep \in [Thread -> {"awake", "asleep", "woken"}]
  /\ collector \subseteq Process
  /\ pc \in [Thread -> {"idle", "claim", "map", "stamp", "pages", "inodes", "super", "gc",
                        "lookup", "looking", "alloc", "insert", "linking"}]
  /\ early \in BOOLEAN
  /\ fault \in {"none", "wild_write", "unbuilt_used"}
  /\ built # {} => claimed
  /\ "super" \in built <=> anchor # Null

(* The file is booted once in its life, however many threads and processes *)
(* find it fresh and whatever restarts: one thread builds at a time, what  *)
(* it is about to build is not there yet, and the one collector starts     *)
(* when all of it is.                                                      *)
Building == {t \in Thread : pc[t] \in Parts}

BootOnce ==
  /\ Cardinality({t \in Thread : pc[t] \in Parts \cup {"gc"}}) <= 1
  /\ \A t \in Building : claimed /\ pc[t] \notin built
  /\ Cardinality(collector) <= 1
  /\ collector # {} => built = Parts /\ \A t \in Thread : pc[t] # "gc"

(* The mutex of the superblock is exclusive, over deaths, restarts and     *)
(* other processes, unless somebody has used it before the boot made it:   *)
(* kernel_superblock_init then unlocks it under its holder.                *)
Exclusive == Cardinality({t \in Thread : pc[t] \in {"looking", "linking"}}) <= 1

ExclusiveUnlessEarly == ~early => Exclusive

(* Such an early use needs a boot that somebody else has begun and not     *)
(* finished, or one that died: a thread that boots the file itself, or     *)
(* that comes later, finds all of it.                                      *)
HalfBuilt == claimed /\ built # Parts /\ Building = {}

EarlyNeedsOpenBoot ==
  [][~early /\ early' =>
       HalfBuilt \/ \E u \in Thread : pc'[u] \in Parts \cup {"stamp"}]_vars

(* What the death of the process that boots takes away never comes back,   *)
(* since the init number is there: neither the rest of the boot, nor the   *)
(* collector of a file that is built.                                      *)
Uncollected == built = Parts /\ collector = {} /\ \A t \in Thread : pc[t] # "gc"

LossIsFinal == [][(HalfBuilt => HalfBuilt') /\ (Uncollected => Uncollected')]_vars

(* The rest of the inductive invariant.  The thread that boots is the only *)
(* one, and its place tells what is built; there is a base address until   *)
(* its process dies, and whoever has one while the file is fresh owes it   *)
(* to a thread that is about to claim it.                                  *)
BuiltBefore ==
  [pages |-> {}, inodes |-> {"pages"}, super |-> {"pages", "inodes"}, gc |-> Parts]

BootOrder ==
  /\ \A t \in Thread : pc[t] \in Parts \cup {"gc"} =>
       /\ claimed /\ built = BuiltBefore[pc[t]] /\ collector = {}
       /\ \A u \in Thread : pc[u] \in Parts \cup {"gc"} => u = t
  /\ collector # {} => built = Parts
  /\ \A p, q \in collector : p = q

BaseMapped ==
  /\ \A t \in Thread : pc[t] \in Parts \cup {"stamp", "gc"} => base[ProcessOf(t)] # Null
  /\ \A p \in Process : base[p] # Null =>
       claimed \/ \E u \in Thread : ProcessOf(u) = p /\ pc[u] = "stamp"

HolderInside ==
  ~early => \A t \in Thread :
    /\ pc[t] \in {"looking", "linking"} => mutex.holder = t
    /\ pc[t] \in {"looking", "alloc", "insert", "linking"} => "super" \in built

IInv ==
  /\ TypeOK
  /\ BootOrder
  /\ BaseMapped
  /\ HolderInside

(* The page lists that the boot leaves are those that PagePool starts      *)
(* from, without the two pages of the carved list, when a refill is of two *)
(* pages.  When it is of more, the global list has no page at all, while   *)
(* its count is short by a whole refill for every turn of the loop, which  *)
(* may be below zero: a very large u64.                                    *)
PageLists ==
  [l \in 0..NumCpus |-> IF l = 0 THEN [chain |-> lists.chain, count |-> lists.count]
                        ELSE [chain |-> <<SUPERBLOCK>>, count |-> 0]]

Pool == INSTANCE PagePool WITH
          NoThread <- Null, NumPages <- NumPages - 2, Fill <- 2, MaxRequest <- 1,
          NumCarved <- 0, pagelist <- PageLists, mutex <- [l \in 0..NumCpus |-> Null],
          pc <- [t \in Thread |-> "idle"], at <- [t \in Thread |-> 0],
          want <- [t \in Thread |-> 0], batch <- [t \in Thread |-> <<>>],
          held <- [t \in Thread |-> {}], fault <- "none"

CarvingFitsTwo ==
  "pages" \in built =>
    IF lists.fill = 2 THEN Pool!Init
    ELSE /\ \A i \in DOMAIN lists.chain : lists.chain[i] = SUPERBLOCK
         /\ lists.count = (NumPages - (lists.fill - 1) * lists.fill) % U64

(* Among the threads of one process nobody is forgotten: as long as none   *)
(* has come early and none has died with the mutex held, and processes do  *)
(* not die for ever, either all calls have returned again and again, or    *)
(* some call does.                                                         *)
Alone(p) == \A q \in Process \ {p} : base[q] = Null

Returns == \E t \in Thread : pc[t] = "linking" /\ pc'[t] = "idle"

Dies == \E p \in Process : process_initialized[p] /\ ~process_initialized'[p]

SomebodyReturns ==
  \A p \in Process :
    [](Alone(p) /\ ~early /\ fault = "none" /\ mutex.holder # Dead) =>
      \/ []<><<Dies>>_vars
      \/ []<>(\A t \in Thread : pc[t] = "idle")
      \/ []<><<Returns>>_vars
=============================================================================
