----------------------------- MODULE PagePool -----------------------------
(***************************************************************************)
(* The page allocator of src/src/allocator.c: the global page list, the    *)
(* local page lists that are refilled from it Fill pages at a time, and    *)
(* the operations alloc_free_pages, fill_local_page_list and free_pages,   *)
(* run by threads that interleave at every mutex operation.                *)
(*                                                                         *)
(* A page is its index; page 0 is offset 0, the page of the superblock,    *)
(* which is in no list the boot builds on purpose.  A page list is the     *)
(* record of its count field and of the chain of pages met by following    *)
(* next_offset from head; the empty chain is head = OFFSET_NULL.  List 0   *)
(* is the global list (get_local_page_list_addr(0) is                      *)
(* get_page_list_base_addr()), list c the one of CPU c.                    *)
(*                                                                         *)
(* The node of offset o is at o + PAGE_SIZE (src/src/addr.c:29), so that   *)
(* of offset 0 lies in the reserved inodes: its fields read as zeros and   *)
(* name page 0, and so does the offset field read through OFFSET_NULL.     *)
(* One operation writes there: a free to an emptied list puts the run into *)
(* the next_offset that it finds through OFFSET_NULL, eight bytes that are *)
(* the last one of the superblock's page and seven of the next_offset of   *)
(* page 0, and takes what they held for the end of the run.  No list is    *)
(* read there: a later free of the kind finds that run, and page 0 is      *)
(* followed in a state of fault only.  The offset that a refill reads lies *)
(* behind these bytes.  So for the allocator the run is lost, and what the *)
(* superblock's page loses by it is left out.                              *)
(*                                                                         *)
(* Once the code follows OFFSET_NULL in a walk, or writes a link into the  *)
(* node of page 0, it overwrites memory that is not the allocator's; the   *)
(* model records the fault and stops there.                                *)
(***************************************************************************)
EXTENDS Integers, Sequences, FiniteSets, Functions

CONSTANTS
  Thread,      \* the threads that call the allocator
  NoThread,    \* the holder of a free mutex
  NumCpus,     \* number of local lists (g_cpu_nums)
  NumPages,    \* pages of the pool (NVM_FREE_NUM_PAGES)
  Fill,        \* pages moved by a refill (FILL_LOCAL_PAGE_LIST_MAX)
  MaxRequest,  \* largest page_num of a call (MAX_NUM_PAGE_PER_ENTRY)
  NumCarved,   \* local lists that the boot has carved out of the global one
  U64          \* number of values of a u64 (2^64)

ASSUME PoolAssumption ==
  /\ NoThread \notin Thread
  /\ NumCpus \in Nat \ {0}
  /\ NumPages \in Nat
  /\ Fill \in Nat \ {0}
  /\ MaxRequest \in Nat \ {0}
  /\ NumCarved \in 0..NumCpus
  /\ NumCarved * Fill <= NumPages
  /\ U64 \in Nat /\ U64 > NumPages

Page == 1..NumPages
SUPERBLOCK == 0
GLOBAL == 0
Cpu == 1..NumCpus
List == {GLOBAL} \cup Cpu

VARIABLES
  pagelist,    \* pagelist[l]: the chain and the count of list l
  mutex,       \* mutex[l]: the thread that holds the mutex of list l
  pc,          \* where each thread is
  at,          \* at[t]: the list that t's call works on
  want,        \* want[t]: page_num of t's alloc_free_pages, 0 outside one
  batch,       \* batch[t]: the pages between the node pointers of t's call
  held,        \* held[t]: the pages that t has been given and has not freed
  fault        \* how the allocator has failed, if it has

vars == <<pagelist, mutex, pc, at, want, batch, held, fault>>

-----------------------------------------------------------------------------
(* The carving of the boot: list c <= NumCarved takes the next Fill pages  *)
(* from the head of the global chain, which runs from the last page down   *)
(* to the first.  A local list that is not carved is zeroed memory: its    *)
(* head is offset 0 and its count is 0.                                    *)
Descending(top, n) == [i \in 1..n |-> top + 1 - i]

BootGlobal ==
  LET left == NumPages - NumCarved * Fill
  IN  [chain |-> Descending(left, left), count |-> left]

BootLocal(c) ==
  IF c <= NumCarved
  THEN [chain |-> Descending(NumPages - (c - 1) * Fill, Fill), count |-> Fill]
  ELSE [chain |-> <<SUPERBLOCK>>, count |-> 0]

Init ==
  /\ pagelist = [l \in List |-> IF l = GLOBAL THEN BootGlobal ELSE BootLocal(l)]
  /\ mutex = [l \in List |-> NoThread]
  /\ pc = [t \in Thread |-> "idle"]
  /\ at = [t \in Thread |-> GLOBAL]
  /\ want = [t \in Thread |-> 0]
  /\ batch = [t \in Thread |-> <<>>]
  /\ held = [t \in Thread |-> {}]
  /\ fault = "none"

-----------------------------------------------------------------------------
(* The two ways of linking a run of pages into a chain, both right after   *)
(* its head.  A refill ends the run with the offset field of the second    *)
(* node; when there is no second node that field is read through           *)
(* OFFSET_NULL and names page 0.  A free ends it with the head's old       *)
(* next_offset, and loses the run when there is no head to link it to: the *)
(* link is then written through OFFSET_NULL, where no list looks for it.   *)
MutantSpliceRefillForgetsTail(chain, run) ==   \* for lists of any length
  IF chain = <<>> THEN run
  ELSE <<Head(chain)>> \o run \o (IF Len(chain) = 1 THEN <<SUPERBLOCK>> ELSE <<>>)

SpliceRefill(chain, run) ==
  IF chain = <<>> THEN run
  ELSE <<Head(chain)>> \o run
         \o (IF Len(chain) = 1 THEN <<SUPERBLOCK>> ELSE Tail(chain))

SpliceFreed(chain, run) ==
  IF chain = <<>> THEN chain ELSE <<Head(chain)>> \o run \o Tail(chain)

HeadIsSuperblock(l) ==
  pagelist[l].chain # <<>> /\ Head(pagelist[l].chain) = SUPERBLOCK

After(chain, n) == SubSeq(chain, n + 1, Len(chain))

(* The loop condition of alloc_free_pages.                                 *)
NeedsFill(list, n) == list.count = 0 \/ list.count < n

(* Where a thread that holds its local mutex walks next, and how far.      *)
Source(t) == IF NeedsFill(pagelist[at[t]], want[t]) THEN GLOBAL ELSE at[t]
Distance(t) == IF NeedsFill(pagelist[at[t]], want[t]) THEN Fill ELSE want[t]

Goto(t, label) == pc' = [pc EXCEPT ![t] = label]

(* Back to the caller, with nothing left on the call's stack.              *)
Return(t) ==
  /\ Goto(t, "idle")
  /\ at' = [at EXCEPT ![t] = GLOBAL]
  /\ want' = [want EXCEPT ![t] = 0]
  /\ batch' = [batch EXCEPT ![t] = <<>>]

-----------------------------------------------------------------------------
(* alloc_free_pages.  get_cpuid hands out the CPUs in turn to all callers  *)
(* of the process, so a call may meet any of them.                         *)
CallAlloc(t) ==
  /\ pc[t] = "idle"
  /\ \E c \in Cpu, n \in 1..MaxRequest :
       /\ at' = [at EXCEPT ![t] = c]
       /\ want' = [want EXCEPT ![t] = n]
  /\ Goto(t, "lock")
  /\ UNCHANGED <<pagelist, mutex, batch, held, fault>>

MutantLockLocalBarges(t) ==   \* no mutex around the local list
  /\ pc[t] = "lock"
  /\ mutex' = [mutex EXCEPT ![at[t]] = t]
  /\ Goto(t, "check")
  /\ UNCHANGED <<pagelist, at, want, batch, held, fault>>

LockLocal(t) ==
  /\ pc[t] = "lock"
  /\ mutex[at[t]] = NoThread
  /\ mutex' = [mutex EXCEPT ![at[t]] = t]
  /\ Goto(t, "check")
  /\ UNCHANGED <<pagelist, at, want, batch, held, fault>>

(* fill_local_page_list, up to the end of its walk over the global chain.  *)
FillWalk(t) ==
  /\ pc[t] = "check"
  /\ NeedsFill(pagelist[at[t]], want[t])
  /\ mutex[GLOBAL] = NoThread
  /\ Fill <= Len(pagelist[GLOBAL].chain)
  /\ mutex' = [mutex EXCEPT ![GLOBAL] = t]
  /\ batch' = [batch EXCEPT ![t] = SubSeq(pagelist[GLOBAL].chain, 1, Fill)]
  /\ Goto(t, "splice")
  /\ UNCHANGED <<pagelist, at, want, held, fault>>

(* The rest of it: unlink the run, link it into the local chain, move the  *)
(* two counts (u64 arithmetic) and release the global mutex.               *)
FillSplice(t) ==
  /\ pc[t] = "splice"
  /\ ~HeadIsSuperblock(at[t])
  /\ pagelist' = [pagelist EXCEPT
       ![GLOBAL] = [chain |-> After(@.chain, Fill),
                    count |-> (@.count - Fill) % U64],
       ![at[t]]  = [chain |-> SpliceRefill(@.chain, batch[t]),
                    count |-> @.count + Fill]]
  /\ mutex' = [mutex EXCEPT ![GLOBAL] = NoThread]
  /\ batch' = [batch EXCEPT ![t] = <<>>]
  /\ Goto(t, "check")
  /\ UNCHANGED <<at, want, held, fault>>

(* The walk over the first page_num pages of the local chain.              *)
TakeWalk(t) ==
  /\ pc[t] = "check"
  /\ ~NeedsFill(pagelist[at[t]], want[t])
  /\ want[t] <= Len(pagelist[at[t]].chain)
  /\ batch' = [batch EXCEPT ![t] = SubSeq(pagelist[at[t]].chain, 1, want[t])]
  /\ Goto(t, "take")
  /\ UNCHANGED <<pagelist, mutex, at, want, held, fault>>

(* The unlinking of these pages, the count, the unlock and the return.     *)
MutantTakeKeepsMutex(t) ==   \* returns with the local mutex held
  /\ pc[t] = "take"
  /\ pagelist' = [pagelist EXCEPT ![at[t]] =
                    [chain |-> After(@.chain, want[t]),
                     count |-> @.count - want[t]]]
  /\ held' = [held EXCEPT ![t] = @ \cup Range(batch[t])]
  /\ Return(t)
  /\ UNCHANGED <<mutex, fault>>

MutantTakeSkipsUnlink(t) ==   \* the head of the list is left as it was
  /\ pc[t] = "take"
  /\ pagelist' = [pagelist EXCEPT ![at[t]].count = @ - want[t]]
  /\ held' = [held EXCEPT ![t] = @ \cup Range(batch[t])]
  /\ mutex' = [mutex EXCEPT ![at[t]] = NoThread]
  /\ Return(t)
  /\ UNCHANGED fault

MutantTakeForgetsCount(t) ==
  /\ pc[t] = "take"
  /\ pagelist' = [pagelist EXCEPT ![at[t]].chain = After(@, want[t])]
  /\ held' = [held EXCEPT ![t] = @ \cup Range(batch[t])]
  /\ mutex' = [mutex EXCEPT ![at[t]] = NoThread]
  /\ Return(t)
  /\ UNCHANGED fault

TakeUnlink(t) ==
  /\ pc[t] = "take"
  /\ pagelist' = [pagelist EXCEPT ![at[t]] =
                    [chain |-> After(@.chain, want[t]),
                     count |-> @.count - want[t]]]
  /\ held' = [held EXCEPT ![t] = @ \cup Range(batch[t])]
  /\ mutex' = [mutex EXCEPT ![at[t]] = NoThread]
  /\ Return(t)
  /\ UNCHANGED fault

(* Either walk when the chain is shorter than the walk: nothing in the     *)
(* loops tests next_offset against OFFSET_NULL.                            *)
WalkOff(t) ==
  /\ pc[t] = "check"
  /\ mutex[Source(t)] \in {NoThread, t}
  /\ Len(pagelist[Source(t)].chain) < Distance(t)
  /\ fault' = "walked_off_list"
  /\ UNCHANGED <<pagelist, mutex, pc, at, want, batch, held>>

-----------------------------------------------------------------------------
(* free_pages, given a chain of pages that its caller holds.  The count    *)
(* that decides between the local and the global list is read with no      *)
(* mutex held.                                                             *)
Chains(S) == UNION {{s \in [1..n -> S] : IsInjective(s)} : n \in 1..MaxRequest}

CallFree(t) ==
  /\ pc[t] = "idle"
  /\ \E c \in Cpu, s \in Chains(held[t]) :
       /\ at' = [at EXCEPT ![t] = IF pagelist[c].count > Fill THEN GLOBAL ELSE c]
       /\ batch' = [batch EXCEPT ![t] = s]
  /\ Goto(t, "free")
  /\ UNCHANGED <<pagelist, mutex, want, held, fault>>

(* The critical section: the count of the list is left as it was.          *)
MutantFreeUnlocked(t) ==   \* links while another call is in its critical section
  /\ pc[t] = "free"
  /\ ~HeadIsSuperblock(at[t])
  /\ pagelist' = [pagelist EXCEPT ![at[t]].chain = SpliceFreed(@, batch[t])]
  /\ held' = [held EXCEPT ![t] = @ \ Range(batch[t])]
  /\ Return(t)
  /\ UNCHANGED <<mutex, fault>>

FreeLink(t) ==
  /\ pc[t] = "free"
  /\ mutex[at[t]] = NoThread
  /\ ~HeadIsSuperblock(at[t])
  /\ pagelist' = [pagelist EXCEPT ![at[t]].chain = SpliceFreed(@, batch[t])]
  /\ held' = [held EXCEPT ![t] = @ \ Range(batch[t])]
  /\ Return(t)
  /\ UNCHANGED <<mutex, fault>>

(* A refill or a free that links its run behind page 0: it writes the node *)
(* of page 0, and the next pages that the list serves start with page 0.   *)
LinkSuperblock(t) ==
  /\ \/ pc[t] = "splice"
     \/ pc[t] = "free" /\ mutex[at[t]] = NoThread
  /\ HeadIsSuperblock(at[t])
  /\ fault' = "superblock_linked"
  /\ UNCHANGED <<pagelist, mutex, pc, at, want, batch, held>>

-----------------------------------------------------------------------------
Alloc(t) ==
  \/ LockLocal(t)
  \/ FillWalk(t) \/ FillSplice(t)
  \/ TakeWalk(t) \/ TakeUnlink(t)
  \/ WalkOff(t) \/ LinkSuperblock(t)

Next ==
  \/ /\ fault = "none"
     /\ \E t \in Thread : CallAlloc(t) \/ Alloc(t) \/ CallFree(t) \/ FreeLink(t)
  \/ fault # "none" /\ UNCHANGED vars   \* after a fault nothing is claimed

Spec == Init /\ [][Next]_vars

(* A thread inside a call keeps running; nobody is obliged to make calls.  *)
FairSpec ==
  Spec /\ \A t \in Thread : WF_vars(fault = "none" /\ (Alloc(t) \/ FreeLink(t)))

-----------------------------------------------------------------------------
TypeOK ==
  /\ pagelist \in [List -> [chain : Seq(Page \cup {SUPERBLOCK}), count : Nat]]
  /\ mutex \in [List -> Thread \cup {NoThread}]
  /\ pc \in [Thread -> {"idle", "lock", "check", "splice", "take", "free"}]
  /\ at \in [Thread -> List]
  /\ want \in [Thread -> 0..MaxRequest]
  /\ batch \in [Thread -> Seq(Page \cup {SUPERBLOCK})]
  /\ held \in [Thread -> SUBSET Page]
  /\ fault \in {"none", "superblock_linked", "walked_off_list"}

(* No page is in two hands or twice in the lists: two calls that run at    *)
(* the same time on any CPUs never get the same page, and a page somebody  *)
(* holds is in no chain.                                                   *)
Listed(l) == Range(pagelist[l].chain) \cap Page

NoRepeat(chain) ==
  \A i, j \in DOMAIN chain : chain[i] = chain[j] /\ chain[i] \in Page => i = j

NoDoubleAllocation ==
  /\ \A l \in List : NoRepeat(pagelist[l].chain)
  /\ \A l, m \in List : l # m => Listed(l) \cap Listed(m) = {}
  /\ \A t, u \in Thread : t # u => held[t] \cap held[u] = {}
  /\ \A l \in List, t \in Thread : Listed(l) \cap held[t] = {}

(* The count of a local list, which the frees of its pages and the         *)
(* unlocked read in free_pages leave behind the chain, never runs ahead of *)
(* it: the pages it promises are there, and page 0 is not among them, so a *)
(* walk for them neither leaves the list nor serves the superblock.        *)
CountCovered ==
  \A c \in Cpu :
    /\ pagelist[c].count <= Len(pagelist[c].chain)
    /\ \A i \in 1..pagelist[c].count : pagelist[c].chain[i] \in Page

(* The walk that takes pages for a caller never leaves the local list, so  *)
(* the allocator can only walk off a list in a refill, and then because    *)
(* the global list holds fewer pages than a refill moves.                  *)
DryOnlyInRefill ==
  fault = "walked_off_list" => Len(pagelist[GLOBAL].chain) < Fill

(* A page leaves the lists and the hands of the callers together only when *)
(* it is freed to a list that has no page left, whose head is OFFSET_NULL  *)
(* (free_pages links it behind that head): no refill, no allocation and no *)
(* other free ever drops a page, whatever runs at the same time.           *)
Owned == (UNION {Listed(l) : l \in List}) \cup (UNION {held[t] : t \in Thread})

DropsOnlyBehindNull ==
  [][~ Owned \subseteq Owned' =>
       \E t \in Thread : /\ pc[t] = "free" /\ pagelist[at[t]].chain = <<>>
                         /\ Owned \ Owned' = Range(batch[t])]_vars

(* The rest of the inductive invariant.  A thread between LockLocal and    *)
(* TakeUnlink holds the mutex of its list, and that of the global list     *)
(* while it refills; so what it has walked over is still the front of the  *)
(* chain when it unlinks it.  Page 0 never gets into the global chain.     *)
LockDiscipline ==
  \A t \in Thread :
    /\ IF pc[t] \in {"lock", "check", "splice", "take"}
       THEN at[t] \in Cpu /\ want[t] \in 1..MaxRequest
       ELSE want[t] = 0
    /\ pc[t] \in {"check", "splice", "take"} => mutex[at[t]] = t
    /\ pc[t] = "splice" => mutex[GLOBAL] = t

BatchFresh ==
  \A t \in Thread :
    /\ pc[t] = "splice" =>
         /\ Fill <= Len(pagelist[GLOBAL].chain)
         /\ batch[t] = SubSeq(pagelist[GLOBAL].chain, 1, Fill)
    /\ pc[t] = "take" =>
         /\ want[t] <= pagelist[at[t]].count
         /\ batch[t] = SubSeq(pagelist[at[t]].chain, 1, want[t])
    /\ pc[t] = "free" =>
         batch[t] \in Seq(held[t]) \ {<<>>} /\ IsInjective(batch[t])

GlobalReal == Range(pagelist[GLOBAL].chain) \subseteq Page

IInv ==
  /\ TypeOK
  /\ LockDiscipline
  /\ BatchFresh
  /\ GlobalReal
  /\ CountCovered
  /\ NoDoubleAllocation
  /\ DryOnlyInRefill

(* No set of calls waits on itself, however many threads there are.  A     *)
(* mutex is only held by a call that is inside its critical section, never *)
(* by one that has returned; and who waits, waits for a call that runs or, *)
(* when that is in its refill, for the one whose refill is at the global   *)
(* list: alloc_free_pages takes the global mutex second and nobody takes a *)
(* local one behind it.                                                    *)
Inside(t, l) ==
  IF l = GLOBAL THEN pc[t] = "splice"
                ELSE at[t] = l /\ pc[t] \in {"check", "splice", "take"}

Asks(t) ==
  {l \in List :
     \/ pc[t] \in {"lock", "free"} /\ l = at[t]
     \/ pc[t] = "check" /\ NeedsFill(pagelist[at[t]], want[t]) /\ l = GLOBAL}

BlockedBy(t) == {mutex[l] : l \in Asks(t)} \ {NoThread}

WaitsEnd ==
  /\ \A l \in List : mutex[l] # NoThread => Inside(mutex[l], l)
  /\ \A t \in Thread : \A u \in BlockedBy(t) : \A v \in BlockedBy(u) : BlockedBy(v) = {}

(* Every allocator call that is not stopped by a fault returns, whatever   *)
(* the other threads do: nobody waits for ever on a list mutex, and the    *)
(* loop of alloc_free_pages ends.                                          *)
CallsReturn == \A t \in Thread : pc[t] # "idle" ~> pc[t] = "idle" \/ fault # "none"

(* The allocator implements PageLedger: free are the pages of all chains,  *)
(* and a call takes effect when TakeUnlink or FreeLink does.               *)
Ledger == INSTANCE PageLedger WITH
            free    <- UNION {Listed(l) : l \in List},
            stopped <- fault # "none"

ImplementsLedger == Ledger!Spec

-----------------------------------------------------------------------------
(* What the repository says of the allocator and the code does not do.     *)

(* internal.h gives page 0 to the superblock, page 1 to the reserved       *)
(* inodes and starts the free space at page 28, so page 0 is not a page of *)
(* the allocator: nothing is linked behind it and no list serves it.       *)
SuperblockNeverLinked == fault # "superblock_linked"
=============================================================================
