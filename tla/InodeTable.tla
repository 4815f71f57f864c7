---------------------------- MODULE InodeTable ----------------------------
(***************************************************************************)
(* The inode lists of src/src/allocator.c, one per CPU: alloc_atfs_inode,  *)
(* fill_atfs_inode_list and free_atfs_inode, run by threads.  Inodes are   *)
(* numbered in the order the refills make them and are chained by their    *)
(* next field from the head of a list.                                     *)
(*                                                                         *)
(* free_atfs_inode reads the head of its list and the inode after it       *)
(* before it locks the list, and links the freed inode between the two.    *)
(* Between the reads and the lock the list may change; stale records that  *)
(* an inode has been linked to what was no longer there.                   *)
(*                                                                         *)
(* NoInode stands for the two heads of a list without inodes, OFFSET_NULL  *)
(* and the zero of a list that was never filled.  The next field that is   *)
(* read and written through either lies in the volume name of the          *)
(* superblock, so NoInode has one too; nothing else reads it.              *)
(***************************************************************************)
EXTENDS Integers, Sequences, FiniteSets, Functions

CONSTANTS
  Thread,      \* the threads that call the table
  NoThread,    \* the holder of a free mutex
  NumCpus,     \* number of lists (g_cpu_nums)
  NumFilled,   \* lists that kernel_inode_list_init has filled
  PerRefill,   \* inodes of a refill
  NumInodes,   \* bound on the inodes made
  NoInode      \* OFFSET_NULL, and the head of a zeroed list

ASSUME TableAssumption ==
  /\ NoThread \notin Thread
  /\ NumCpus \in Nat \ {0}
  /\ NumFilled \in 0..NumCpus
  /\ PerRefill \in Nat \ {0}
  /\ NumInodes \in Nat /\ NumFilled * PerRefill <= NumInodes
  /\ NoInode \notin Nat

Cpu == 1..NumCpus
Inode == 1..NumInodes

VARIABLES
  next,    \* next[i]: the inode after i
  head,    \* head[c], count[c], mutex[c]: the list of CPU c
  count,
  mutex,
  pc,      \* where each thread is
  at,      \* at[t]: the list that t's call works on
  node,    \* node[t]: the inode that t is taking or freeing
  seen,    \* seen[t]: the head and the next that t has read
  held,    \* held[t]: the inodes that t has been given and has not freed
  made,    \* the inodes made so far
  stale    \* whether an inode has been linked to a list that had changed

lists == <<next, head, count, mutex, made>>
vars == <<lists, pc, at, node, seen, held, stale>>

NothingSeen == [head |-> NoInode, next |-> NoInode]

(* The inodes that a refill makes out of its pages: the last one made is   *)
(* the head, and each one is chained to the one made before it.            *)
Batch(n) == (n + 1)..(n + PerRefill)
ChainedDown(n, i) == IF i = n + 1 THEN NoInode ELSE i - 1

Init ==
  /\ made = NumFilled * PerRefill
  /\ next = [i \in Inode \cup {NoInode} |->
               IF i \in Inode /\ i <= made
               THEN ChainedDown(((i - 1) \div PerRefill) * PerRefill, i) ELSE NoInode]
  /\ head = [c \in Cpu |-> IF c <= NumFilled THEN c * PerRefill ELSE NoInode]
  /\ count = [c \in Cpu |-> IF c <= NumFilled THEN PerRefill ELSE 0]
  /\ mutex = [c \in Cpu |-> NoThread]
  /\ pc = [t \in Thread |-> "idle"]
  /\ at = [t \in Thread |-> 1]
  /\ node = [t \in Thread |-> NoInode]
  /\ seen = [t \in Thread |-> NothingSeen]
  /\ held = [t \in Thread |-> {}]
  /\ stale = FALSE

Goto(t, label) == pc' = [pc EXCEPT ![t] = label]

-----------------------------------------------------------------------------
(* alloc_atfs_inode, on the list of any CPU that get_cpuid may return.     *)
CallAlloc(t) ==
  /\ pc[t] = "idle"
  /\ \E c \in Cpu : at' = [at EXCEPT ![t] = c]
  /\ Goto(t, "lock")
  /\ UNCHANGED <<lists, node, seen, held, stale>>

MutantLockListBarges(t) ==   \* no mutex around the list
  /\ pc[t] = "lock"
  /\ mutex' = [mutex EXCEPT ![at[t]] = t]
  /\ Goto(t, "check")
  /\ UNCHANGED <<next, head, count, made, at, node, seen, held, stale>>

LockList(t) ==
  /\ pc[t] = "lock"
  /\ mutex[at[t]] = NoThread
  /\ mutex' = [mutex EXCEPT ![at[t]] = t]
  /\ Goto(t, "check")
  /\ UNCHANGED <<next, head, count, made, at, node, seen, held, stale>>

MutantUsedUpByHead(c) == head[c] = NoInode

UsedUp(c) == count[c] = 0

(* fill_atfs_inode_list: the new inodes take the place of whatever the     *)
(* list still holds.                                                       *)
Refill(t) ==
  /\ pc[t] = "check"
  /\ UsedUp(at[t])
  /\ made + PerRefill <= NumInodes
  /\ next' = [i \in Inode \cup {NoInode} |->
                IF i \in Batch(made) THEN ChainedDown(made, i) ELSE next[i]]
  /\ made' = made + PerRefill
  /\ head' = [head EXCEPT ![at[t]] = made']
  /\ count' = [count EXCEPT ![at[t]] = PerRefill]
  /\ UNCHANGED <<mutex, pc, at, node, seen, held, stale>>

(* The head of the list, which is then taken off it and returned.          *)
Pick(t) ==
  /\ pc[t] = "check"
  /\ ~UsedUp(at[t])
  /\ node' = [node EXCEPT ![t] = head[at[t]]]
  /\ Goto(t, "take")
  /\ UNCHANGED <<lists, at, seen, held, stale>>

Return(t) ==
  /\ Goto(t, "idle")
  /\ at' = [at EXCEPT ![t] = 1]
  /\ node' = [node EXCEPT ![t] = NoInode]
  /\ seen' = [seen EXCEPT ![t] = NothingSeen]

MutantUnlinkKeepsHead(t) ==
  /\ next' = [next EXCEPT ![node[t]] = NoInode]
  /\ held' = [held EXCEPT ![t] = @ \cup ({node[t]} \ {NoInode})]
  /\ mutex' = [mutex EXCEPT ![at[t]] = NoThread]
  /\ UNCHANGED head

Unlink(t) ==
  /\ head' = [head EXCEPT ![at[t]] = next[node[t]]]
  /\ next' = [next EXCEPT ![node[t]] = NoInode]
  /\ held' = [held EXCEPT ![t] = @ \cup ({node[t]} \ {NoInode})]
  /\ mutex' = [mutex EXCEPT ![at[t]] = NoThread]

Take(t) ==
  /\ pc[t] = "take"
  /\ Unlink(t)
  /\ count' = [count EXCEPT ![at[t]] = @ - 1]
  /\ Return(t)
  /\ UNCHANGED <<made, stale>>

-----------------------------------------------------------------------------
(* free_atfs_inode: the two reads, then the critical section.              *)
CallFree(t) ==
  /\ pc[t] = "idle"
  /\ \E c \in Cpu, i \in held[t] :
       /\ at' = [at EXCEPT ![t] = c]
       /\ node' = [node EXCEPT ![t] = i]
       /\ seen' = [seen EXCEPT ![t].head = head[c]]
  /\ Goto(t, "read")
  /\ UNCHANGED <<lists, held, stale>>

ReadNext(t) ==
  /\ pc[t] = "read"
  /\ seen' = [seen EXCEPT ![t].next = next[seen[t].head]]
  /\ Goto(t, "link")
  /\ UNCHANGED <<lists, at, node, held, stale>>

(* What the thread has read is no longer so.                               *)
Outdated(t) ==
  \/ head[at[t]] # seen[t].head
  \/ seen[t].head # NoInode /\ next[seen[t].head] # seen[t].next

MutantLinkFreeCutsOff(t) ==   \* what followed the head is forgotten
  /\ pc[t] = "link"
  /\ mutex[at[t]] = NoThread
  /\ next' = [next EXCEPT ![seen[t].head] = node[t]]
  /\ held' = [held EXCEPT ![t] = @ \ {node[t]}]
  /\ stale' = (stale \/ Outdated(t))
  /\ Return(t)
  /\ UNCHANGED <<head, count, mutex, made>>

LinkFree(t) ==
  /\ pc[t] = "link"
  /\ mutex[at[t]] = NoThread
  /\ next' = [next EXCEPT ![seen[t].head] = node[t], ![node[t]] = seen[t].next]
  /\ held' = [held EXCEPT ![t] = @ \ {node[t]}]
  /\ stale' = (stale \/ Outdated(t))
  /\ Return(t)
  /\ UNCHANGED <<head, count, mutex, made>>

Step(t) ==
  \/ CallAlloc(t) \/ LockList(t) \/ Refill(t) \/ Pick(t) \/ Take(t)
  \/ CallFree(t) \/ ReadNext(t) \/ LinkFree(t)

OutOfInodes ==
  \E t \in Thread : pc[t] = "check" /\ UsedUp(at[t]) /\ made + PerRefill > NumInodes

Next ==
  \/ \E t \in Thread : Step(t)
  \/ OutOfInodes /\ UNCHANGED vars       \* the bound is reached

Spec == Init /\ [][Next]_vars

-----------------------------------------------------------------------------
TypeOK ==
  /\ next \in [Inode \cup {NoInode} -> Inode \cup {NoInode}]
  /\ head \in [Cpu -> Inode \cup {NoInode}]
  /\ count \in [Cpu -> 0..PerRefill]
  /\ mutex \in [Cpu -> Thread \cup {NoThread}]
  /\ pc \in [Thread -> {"idle", "lock", "check", "take", "read", "link"}]
  /\ at \in [Thread -> Cpu]
  /\ node \in [Thread -> Inode \cup {NoInode}]
  /\ seen \in [Thread -> [head : Inode \cup {NoInode}, next : Inode \cup {NoInode}]]
  /\ held \in [Thread -> SUBSET (1..made)]
  /\ made \in 0..NumInodes
  /\ stale \in BOOLEAN

(* The inodes that are reached from a head over the next fields, and so    *)
(* those of a list.                                                        *)
Reached(from, links) ==
  LET Reach[n \in 0..NumInodes] ==
        IF n = 0 THEN {from}
        ELSE Reach[n - 1] \cup {links[i] : i \in Reach[n - 1] \ {NoInode}}
  IN  Reach[NumInodes] \ {NoInode}

Listed(c) == Reached(head[c], next)

Given == UNION {held[t] : t \in Thread}

(* Unless a free has linked to a list that had changed under it, every     *)
(* list is a chain of inodes of its own, and no inode is given to two      *)
(* callers: two files never share one.                                     *)
InodeExclusive ==
  ~stale =>
    /\ \A c, d \in Cpu : c # d => Listed(c) \cap Listed(d) = {}
    /\ \A c \in Cpu :
         /\ Listed(c) \cap Given = {}
         /\ \A i, j \in Listed(c) : next[i] = next[j] /\ next[i] # NoInode => i = j
         /\ \A i \in Listed(c) : next[i] # head[c]
    /\ \A t, u \in Thread : t # u => held[t] \cap held[u] = {}

(* Likewise, the inodes that a count promises are in its list, so that no  *)
(* caller is given OFFSET_NULL: the frees, which add to no count, leave    *)
(* the counts behind the lists and never ahead.                            *)
CountCovered ==
  ~stale => \A c \in Cpu : count[c] <= Cardinality(Listed(c))

-----------------------------------------------------------------------------
(* What makes the two invariants inductive.  A run is the inodes of a list *)
(* in order, ended by NoInode.                                             *)
Run == {s \in UNION {[1..n -> Inode] : n \in 0..NumInodes} : IsInjective(s)}

ChainedFrom(from, links, s) ==
  /\ from = IF s = <<>> THEN NoInode ELSE s[1]
  /\ \A i \in 1..Len(s) : links[s[i]] = IF i = Len(s) THEN NoInode ELSE s[i + 1]

(* Only what a refill has made is ever linked, read or given.              *)
MadeOnly ==
  LET MadeOrNone == (1..made) \cup {NoInode}
  IN  /\ \A i \in Inode \cup {NoInode} : next[i] \in MadeOrNone
      /\ \A c \in Cpu : head[c] \in MadeOrNone
      /\ \A t \in Thread : /\ node[t] \in MadeOrNone
                           /\ seen[t].head \in MadeOrNone /\ seen[t].next \in MadeOrNone

(* The list of an alloc is locked, so the head it has picked stays the     *)
(* head and the count it has tested stays positive.                        *)
LockDiscipline ==
  \A t \in Thread :
    /\ pc[t] \in {"check", "take"} => mutex[at[t]] = t
    /\ pc[t] = "take" => node[t] = head[at[t]] /\ count[at[t]] > 0
    /\ pc[t] \in {"read", "link"} => node[t] \in held[t]

Chains == {s \in Run : \E c \in Cpu : ChainedFrom(head[c], next, s)}

(* The lists are runs apart from one another and from what was given, each *)
(* as long as its count says or longer.                                    *)
Apart(chain) ==
  /\ \A c \in Cpu : /\ ChainedFrom(head[c], next, chain[c])
                    /\ Range(chain[c]) \cap Given = {}
                    /\ Range(chain[c]) \subseteq 1..made
                    /\ count[c] <= Len(chain[c])
  /\ \A c, d \in Cpu : c # d => Range(chain[c]) \cap Range(chain[d]) = {}

ListsApart == ~stale => \E chain \in [Cpu -> Chains] : Apart(chain)

HeldApart == ~stale => \A t, u \in Thread : t # u => held[t] \cap held[u] = {}

IInv == TypeOK /\ MadeOnly /\ LockDiscipline /\ ListsApart /\ HeldApart

-----------------------------------------------------------------------------
(* An inode that was given or listed drops out of sight in two ways only:  *)
(* it is freed to a list that has none, or it has been freed and not       *)
(* counted, and a refill takes the place of the list.                      *)
Known == Given \cup UNION {Listed(c) : c \in Cpu}

DropsOnlyUncounted ==
  [][~stale' /\ ~ Known \subseteq Known' =>
       \E t \in Thread :
         \/ pc[t] = "link" /\ seen[t].head = NoInode /\ Known \ Known' = {node[t]}
         \/ pc[t] = "check" /\ count[at[t]] = 0 /\ Known \ Known' = Listed(at[t])]_vars

(* What the file API relies on: up to a stale link the lists are a ledger  *)
(* of inodes.  Every call is granted one inode that is free, whether it    *)
(* has been made yet or not, and no call goes away with OFFSET_NULL; only  *)
(* its holder gives an inode up.                                           *)
Ledger == INSTANCE PageLedger WITH
            Page <- Inode, MaxRequest <- 1, free <- Inode \ Given,
            want <- [t \in Thread |-> IF pc[t] \in {"lock", "check", "take"} THEN 1 ELSE 0],
            stopped <- FALSE

ImplementsLedger ==
  Ledger!Init /\ [][~stale' => [Ledger!Next]_(Ledger!vars)]_vars
=============================================================================
