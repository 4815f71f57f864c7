# ATFS: a verification project

TLA+ models of ATFS, a user-space file system for non-volatile memory that is
written in C (`src/src`, `src/include`).  The file system lives in one mapped
file; every process that uses it runs the same library code on the same memory
and synchronises by mutexes that are in that memory.

This document is the inventory of the system, the plan of the project, and the
account of what is modelled, checked and proved so far.

## 1. The system

The repository is an unfinished port of an earlier file system: it calls
functions it does not contain (`update_radixtree`, `get_bplustree_node`,
`kernel_radixtree_list_init`) and has lookups commented out.  The models take
the code as it is, and treat what is missing from how the rest uses it
("external" in `PROJECT.json`).  `kernel_superblock_init` has a `char` where its
declaration (`super.h:34`) and its caller have a `char *`; the declaration is
taken.

| Component | State | Operations | Interacts with |
|---|---|---|---|
| page allocator (`allocator.c`, `addr.c`, `cpu.c`) | one global and one local list per CPU: `head`, `count`, `mutex`; a node per page with `next_offset` | `alloc_free_pages`, `fill_local_page_list`, `free_pages` | called by the inode table, the logs and the collector; the CPU is handed out in turn by `get_cpuid` |
| inode table (`allocator.c`, `inode.c`) | a list of inodes per CPU | `fill_atfs_inode_list`, `alloc_atfs_inode`, `free_atfs_inode`, `init_atfs_inode` | takes pages from the page allocator, under its own mutex |
| boot (`super.c`) | superblock, page lists, inode lists | `kernel_*_init` | run once by `init_env` |
| process initialisation (`nvmio.c:34-83`) | `process_initialized`, the init number in the file | `init_atfs`, `init_env` | starts the boot and the collector's thread |
| file logs (`nvmio.c:85-357`) | `log_head`, `log_tail`, the entries, the counters in the nodes of log pages, the back pointers in the nodes of data pages | `get_log_entry`, `init_log_entry`, `invalidate_old_log_entry`, `nvmio_write` | page allocator, B+tree |
| file data (`nvmio.c:205-414`) | bytes of data pages, `i_size` | `nvmio_write`, `nvmio_read` | B+tree |
| B+tree (only its header is here) | file page to data page | `get_bplustree_node`, `update_radixtree` | external |
| garbage collector (`gc.c:22-177`) | none of its own | `start_gc_task`, `gc_log_block` | file logs, page allocator, the list of inodes |
| collection trigger (`gc.c:179-219`) | the access counters | `gc_task_thread` | bumped by the API without a lock |
| file API (`atfsrw.c`) | `s_list`, `file_off`, `i_size` | creat, open, read, write, lseek, pread, pwrite | everything above; `sb->mutex`, then the inode's mutex |
| intrusive list, path hash, debugging (`list.h`, `hashmap.c`, `debug.c`) | | | |

What is hard here:

* *Concurrency.*  Threads and processes share the page lists.  `free_pages`
  decides by a count it reads without the mutex; a refill holds two mutexes.
* *Sequences of legal calls.*  Counts and chains are kept separately and not
  always together; pages are recycled between the roles of data page and log
  page, with the contents of their nodes; the collector rewrites the log that
  it walks.
* *Boundaries.*  A list of exactly one page, an empty one, the last entry of a
  log page, a pool that runs out.
* *Stale references.*  A data page points back to its log entry; entries move.
* *Restart.*  Mutexes, lists and the init number persist in the mapped file.

What makes each component correct:

* page allocator: a page has one owner; a count never promises what the chain
  does not hold; a call returns; nothing outside the pool is served;
* file logs and collector: a log is a chain of pages of its own; it holds
  the B+tree; marks and counters say which pages are superseded; only
  superseded pages are freed; work on one file leaves the others alone;
* inode table: an inode has one owner and is not lost;
* initialisation: nobody uses the lists before they are built; they are built
  once;
* file data: a read returns what was last written, at every offset below the
  size;
* file API: one inode per name, in the list once; the offset moves by what was
  read or written;
* trigger: a collection follows when writes dominate and the pool is short.

## 2. The modules

| Module | Models |
|---|---|
| `PageLedger` | what an allocator promises: pages granted to one caller at a time and given up by their holder |
| `Boot` | `nvmio.c:28-83`, `super.c`, `gc.c:209-219` and `atfscreat`: how threads and processes come to a file, fresh or left by others |
| `MCBoot` | the threads of `Boot` |
| `BootProofs` | theorems about `Boot` |
| `PagePool` | `allocator.c:19-116`, split at its mutex operations |
| `MCPagePool` | the threads for `PagePool` |
| `PagePoolProofs` | theorems about `PagePool`, its refinement of `PageLedger` among them |
| `FileLog` | the logs of files and `start_gc_task` / `gc_log_block` |
| `MCFileLog` | search order and symmetry for `FileLog` |
| `FileLogProofs` | the inductive invariant of `FileLog` and the theorems that follow from it; the lemmas on chains, runs and induction |
| `FileLogSteps` | the action properties of `FileLog` |
| `FileData` | the bytes of one file: `nvmio_write`, `nvmio_read`, and the calls that move the offset and the size |
| `MCFileData` | the reach of the file offset |
| `FileDataProofs` | theorems about `FileData` |
| `InodeTable` | `allocator.c:207-292`: the inode lists |
| `MCInodeTable` | symmetry, and where the search stops |
| `InodeTableProofs` | theorems about `InodeTable` |
| `PathHash` | the end of `hashmap_hash_s32`, and what it means for the callers of creat and open |
| `GcTrigger` | `gc.c:179-207` and the access counters |
| `MCGcTrigger` | `GcTrigger` for TLC |
| `GcTriggerProofs` | theorems about `GcTrigger` |
| `AtfsApi` | creat and open, the look-up of a descriptor, and the list of inodes that the calls and the collector share |
| `MCAtfsApi` | `AtfsApi` for TLC |
| `AtfsApiProofs` | theorems about `AtfsApi` and `PathHash` |

How they fit together: `Boot` leaves the lists that `PagePool` and `InodeTable`
start from; `AtfsApi` says which inode a call works on and in which
order the collector takes the inodes; `InodeTable` where inodes come from;
`FileLog` and `FileData` are two views of what happens under the mutex of one
inode, the first of its log and pages, the second of its bytes; `PagePool` is
where all of them get their pages, and `PageLedger` what they may rely on.
`GcTrigger` says when the collector works.

Three seams are checked and not only said:

* `Boot!CarvingFitsTwo` states that what the boot leaves is `PagePool!Init`, and
  when it is not;
* `PagePool` and `InodeTable` both implement `PageLedger` (the second up to its
  first stale link).  `FileLog` allocates and frees as the ledger does, and
  `AtfsApi!AllocInode` takes an inode that nobody has;
* `AtfsApi!EveryFileServed` assumes that the collector takes a victim again and
  again; `GcTrigger!NeverIgnored` says what that takes: a collection that is due
  comes.

The order of the mutexes follows from the modules: `sb->mutex` is never held
together with another; the mutex of an inode, or of an inode list, comes before
that of a local page list, and that before the global one.  No two threads can
wait for each other.

### Boot

A thread is in `pc`; `process_initialized`, `base` (`g_nvm_base_addr`) and
`collector` belong to its process and go with it; `claimed` (the init number),
`built`, `lists`, `anchor` and `mutex` are in the file and stay.

| Code | Action |
|---|---|
| `atfscreat`, test of `process_initialized` | `Call` |
| `init_atfs`; `mmap`; the swap of the init number | `ClaimProcess`; `MapFile`; `ClaimFile` |
| `kernel_page_list_init`, `kernel_inode_list_init`, `kernel_superblock_init`, `kernel_gc_thread_init` | `BuildPages`, `BuildInodes`, `BuildSuper`, `StartCollector` |
| `atfscreat`, its two critical sections and the allocation | `LookUp`, `EndLookUp`, `Alloc`, `Insert`, `Link` |
| a signal, a failing system call of `init_env`, `exit` | `Kill` |
| a bad pointer | `LookUpNowhere`, `LinkFails` |

`Kill` may happen at any step; the process that takes its place finds the file as
it was.  The mutex is one of glibc with default attributes: zeroed memory is an
unlocked one, a waiter sleeps until an unlock of its own process wakes it, and a
lock whose holder has died stays locked.  `Carved` runs the carving loop turn by
turn, for several values of `FILL_LOCAL_PAGE_LIST_MAX`.  Each of the four
building functions is one step; what they have done in part is not told apart
from what they have not done.  After `wild_write` (the uninitialised index of
`kernel_inode_list_init`, a pointer for another base address) and `unbuilt_used`
nothing is claimed.

### GcTrigger

`times_cnt` holds `g_write_times_cnt` and `g_read_times_cnt`; an increment is
`LoadCount` and `StoreCount`.  The collector goes `WakeUp`, `Sum` (`access_times`),
`Split` (`write_times`, `read_times`), `Decide`, `Reset`, `Collect`.  The counters
are plain variables and the accesses race: a compiler may use the first load
again (`-O3` does) or load once more, take the two counters in either order, and
reset them in either order, and the model lets it.  `since` counts the accesses,
`raced` records what an increment has overlapped, `torn` whether a counter has
changed since the collector woke up; the code has none of these.  `word` is what
`g_list->count` reads: `g_list` is the start of the free space, so the word is in
the first page of data, and any write to that page may change it.

### PagePool

`pagelist[l]` is list `l`: its chain, the sequence of pages that following
`next_offset` from `head` meets, and its `count`.  List 0 is the global list.
`alloc_free_pages` is `CallAlloc`, `LockLocal`, then `FillWalk` and
`FillSplice` for every turn of its loop, then `TakeWalk` and `TakeUnlink`;
`free_pages` is `CallFree`, which reads the count without the mutex, and
`FreeLink`.  A step ends where another thread can interfere or where the code
has walked over nodes and is about to relink them, so that what it walked over
could have changed if a mutex were missing.  `get_cpuid` hands out CPUs in turn
to all threads; any call may therefore run on any CPU, and does in the model.

Two things the code does are damage to memory that is not the allocator's, and
the model stops there, with the kind of the damage in `fault`:

* `walked_off_list`: neither walk tests `next_offset`, so a chain that is too
  short is left through `OFFSET_NULL`;
* `superblock_linked`: the node of offset 0 is in the reserved pages.  A list
  whose head is 0 serves the superblock's page, and linking a run behind that
  head writes the reserved page.

A third one does not stop it.  A free to a list that has been emptied follows
`OFFSET_NULL` (`allocator.c:108-111`): the run is linked into the eight bytes that
are `next_offset` of a node at `PAGE_SIZE - 1`, which are the last byte of the superblock's
page and the low seven of the `next_offset` of page 0, and what stood there ends the
run.  No list is read there, except by the next free of the kind, and the `offset`
that a refill reads through `OFFSET_NULL` is behind these bytes; so for the
allocator the run is lost and nothing else happens (`SpliceFreed`), and the
overwritten bytes are left out of the model.

*Where it starts.*  `kernel_page_list_init` (`super.c:60-71`) carves one list, that
of index `i`, which after the loop above is `free_num_pages`: no CPU has that
list, so the lists of the CPUs stay zeroed.  The carving loop takes the whole
length of the list off the count in every turn and, from the second turn on,
follows the `OFFSET_NULL` that it has just written.  With
`FILL_LOCAL_PAGE_LIST_MAX = 2` it leaves an initial state of `PagePool` with
`NumPages - 2` pages and `NumCarved = 0`; with more, a global list without any
page and a count that says otherwise (`Boot!CarvingFitsTwo`).  With the shipped
512 every refill then fails; `PagePool` is the allocator on lists that are as
they are meant to be.  Its constant `NumCarved` says how many CPU lists have been
carved; what is proved holds for none, for all and for everything between.

### FileLog

A log page has `Slots` entries; `memory[p][s]` is what slot `s` of page `p`
reads as an entry, whatever the page is used for now, because stale pointers
make the code read and write there.  `node[p]` holds the four counters of the
page's node, `origin[p]` the `log_entry` of a data page.  The B+tree is the
function `index[f]`.  Addresses are pairs of a page and a slot.

| Code | Action |
|---|---|
| `init_atfs_inode` | `Create` (does not touch `node`, as the code does not) |
| `nvmio_write` | `BeginWrite`, one `WriteEntry` per turn of the loop, `IndexPage` per page of `update_radixtree` with `invalidate_old_log_entry`, `EndWrite` |
| `get_log_entry`, `init_log_entry` | `AppendEntry` |
| `start_gc_task` | `BeginScan`, `SkipPage` or `TakePage` per page, `EndScan` |
| `gc_log_block` | `TakePage` (reads the entries), one `MoveRun` per run of valid pages, `FreeBlock` |

`update_radixtree` is external.  It is called at the end of `nvmio_write` with
the old tail; what it has to do with the superseded page follows from
`log_entry`, which `nvmio_write` sets in the data pages and which nothing
else reads, and from `invalidate_old_log_entry`, which nothing else calls.
A call for no bytes inside a page is the exception (`NoBytes`): the page it takes
is neither a first nor a middle nor a last page (`nvmio.c:260-311`), and keeps the
`log_entry` of its last owner.  The old page points to an entry (`Invalidate`), or
to file data, the node of which is counted up in any case (`MarkData`), or, if its
`log_entry` has never been set, to the start of the mapped file (`MarkSuperblock`).

`tail[f]` is the tail of the running call.  The code moves a local `log_tail` and puts
it into the inode at the end, `nvmio_write` before it updates the B+tree
(`nvmio.c:351`) and `gc_log_block` after it has given the old pages back
(`gc.c:111-115`).  Nobody reads the inode's field in between, as the mutex is held;
after a crash it would matter, and the model has none.

Every use of a file is under the mutex of its inode.  Critical sections on two
inodes share the pool only; a page passes from one to the other by a free and a
later allocation, so sections that overlap in time can be put one after the
other in the order of these passages, and the model runs one at a time.  That
stops being so once a stale pointer has led one section into a page of another
file; the properties that say what happens up to that point do not depend on it.
The pool is the one of `PageLedger`, with every freed page available again: a
page that the allocator drops is a page not chosen again.

Damage again ends a behaviour: `data_marked` (an invalidation is written into
file data), `superblock_marked` (or into the start of the mapped file),
`entries_overrun` (a block counts more entries than fit),
`page_in_use_freed`, `nothing_freed` (`free_pages` called with no page) and
`exhausted`.

`LogCoversIndex` and `LogShape` follow from `IInv`, whose parts are named for what
they say: the logs are disjoint chains and the collector's place is in the one
it walks (`LogsApart`); what a call leaves behind between its steps (`CallShape`);
data pages are neither free nor log pages, and the pages of a write not indexed
yet (`DataApart`); every data page is named once, by an entry or by a run that is
on its way to one (`NamedOnce`); a page counts at least its entries
(`ObjCovers`); what is to be indexed is logged (`LogCoversFresh`).  A page that is
marked although the B+tree names it is in `scan.dead` between `TakePage` and
`FreeBlock`, which then ends the behaviour with `page_in_use_freed`.

`Exact` says that marks, counters and back pointers are right: `MarksExact` for
entries and for runs on their way (the pages of a run carry no mark),
`CountersExact` for the sums over a log page, `OriginsRight` for the pages in use.
`MarksStayExact` excepts `Create`, which leaves the counters of a recycled page
alone.  What makes back pointers wrong are the collection, which moves pages and
leaves theirs (`gc.c:117`), and the call for no bytes.

### FileData

A page is what it holds, a function from byte positions to bytes; `Junk` is
what a page has kept from its last owner, and what lies behind it.  Every byte of every call has a value
of its own (`Token`), so a byte read tells which call wrote it, and where.
`wr` holds the locals of `nvmio_write`.  The properties of a write compare the
file before and after it, which makes a separate abstract file unnecessary:
`WriteLands`, `NeighboursKept` and `ReadAgrees` are that refinement, less the cases
in which it fails; `LastPageFilled` is one of these.

The last page of a turn is filled up from the page it replaces, from the wrong place:
`part_page` is a `list_node_t *` (`nvmio.c:222`), so that `part_page + last_page_wr`
(`nvmio.c:328`) is `last_page_wr * sizeof(list_node_t)` bytes on.  `Behind` says what is
found there, `NodeSize` is the size of a node: the bytes of the old page as far as it
goes, then its node and the next page, which the model takes for junk.  If the old
page is the last one of the region, the copy may leave the mapping (`LeaveMapping`),
after which nothing is claimed.

| Code | Action or operator |
|---|---|
| `nvmio_write` up to its loop | `BeginWrite` with `PageNums` (u64 arithmetic: a call for no bytes at the start of a page asks for 2^52 pages) |
| a turn of its loop | `WriteEntry`: `Share` divides the bytes, `Pages` fills the pages (`FirstPage`, `LastPage` with `Behind`); or `LeaveMapping` |
| the update of the B+tree and the offset | `EndWrite` |
| `nvmio_read` | `NvmioRead` with its loop `Copied`, `Oversize` |
| `atfswrite`, `atfspwrite`, `atfsread`, `atfslseek` | `AtfsWrite`, `AtfsPwrite`, `AtfsRead`, `AtfsLseek` (`atfspread` changes nothing) |

`IInv` adds to the types what the loop of `nvmio_write` keeps from turn to turn:
`Divided`, where its locals stand in the call, and `Filled`, what the pages filled
so far hold (`Holds`).

### InodeTable

The `next` fields, heads and counts of the lists are variables as in the code,
and not sequences: `free_atfs_inode` reads the head of its list and the inode
after it without the mutex (`CallFree`, `ReadNext`) and links between them later
(`LinkFree`), when both may have gone elsewhere.  `stale` records that this has
happened.  The properties hold up to then, and the search stops there; beyond
it lists can become cyclic and inodes are shared (with one list of six inodes,
two threads and a free that overlaps an allocation and another free, two files
end up with one inode).  No call in the repository reaches `free_atfs_inode`
yet; `atfsunlink`, which will, is a stub.

### AtfsApi

`ring` holds the `next` and `prev` of every `list_head`; `ListAdd`, `ListDel` and
`ListMove` are the assignments of `list.h`, in order, which do not check that
their argument is, or is not, in the list.  Every critical section of
`sb->mutex` is one step; `atfscreat` and `atfsopen` take two, with the allocation
in between.  The look-up tree (commented out in the source) is the function
`inodeOf`.

## 3. Runs

Pages, threads and files are few; every run ends by itself.

| Run | Bounds | Shows |
|---|---|---|
| `boot` | 2 threads of one process and 1 of another, 2 addresses, any number of deaths, 8 pages, local lists of 2, 3 and 4 | `BootOnce`, `ExclusiveUnlessEarly`, `EarlyNeedsOpenBoot`, `LossIsFinal`, `CarvingFitsTwo`, `SomebodyReturns`, `IInv` |
| `pool_shared` | 2 threads, 2 CPUs (one list carved, one zeroed), 5 pages, refill of 2, requests of up to 3 pages | `IInv` with `DryOnlyInRefill` as a part, `NoDoubleAllocation`, `CountCovered`, `WaitsEnd`; every step is a step of `PageLedger` or a stutter; `DropsOnlyBehindNull`, `CallsReturn` |
| `pool_superblock` | 1 thread | *violation*: page 0 gets into a list |
| `log_marks` | 1 file of 2 pages, 6 pages, 2 entries per page, 6 writes | `IInv`, `LogCoversIndex`, `MarksStayExact`, `DamageNeedsStale`, `CallsEnd` |
| `log_apart` | 2 files of 2 pages, 6 pages, 1 entry per page, 4 writes | `LogShape`, `FilesKeepApart`, `DamageNeedsStale`, `WalkShortens` |
| `log_live` | 1 file of 2 pages, 8 pages, 7 writes | *violation*: current data freed |
| `data_write` | 3 pages of 4 bytes, nodes of 3 bytes, 2 pages per entry, 2 writes of 0, 3 or 9 bytes | `IInv`, `WriteLands`, `NeighboursKept`, `ReadAgrees`, `SizeShortOnlyByPwrite` |
| `data_tail` | 2 pages of 4 bytes, 2 writes of 5 or 8 bytes | *violation*: bytes behind a write of two pages change |
| `inode_table` | 2 threads, 2 CPUs (one list filled), refill of 2, 4 inodes | `IInv`, `InodeExclusive`, `DropsOnlyUncounted`, `ImplementsLedger` |
| `trigger` | 2 threads, 3 accesses of a kind between two resets | `IInv`, `CountsDriftOnlyByRace`, `DecidesRightly`, `NeverIgnored` |
| `api_list` | 2 threads and the collector, 2 descriptors, 3 inodes | `IInv`, `RingBreaksOnlyByReopen`, `ServedInLine`, `EveryFileServed` |
| `api_create` | 2 threads, 1 descriptor | *violation*: a file created twice |

Why these bounds: in the pool, two threads on two CPUs with five pages reach
every pair of program points with either list shared, refills in the middle of
a request (a request of three from an empty list refills twice), frees to the
local and to the global list, and exhaustion.  In the log, two entries of two
pages allow an entry of which one page is superseded, a split at either side, a
full log page, a collected page at the head and (in `log_apart`, with one entry
per page) in the middle of the log, and pages that change roles; `log_marks`
reaches a mark in file data, and `log_apart` a collection that reads past the
entries of a page, so that `DamageNeedsStale` is put to the test by both.  In
the data, nine bytes are a call of three pages and two entries, which starts or
ends inside a page; with four bytes per page and nodes of three, the scaled copy
finds its bytes in the old page for a last page of one byte, and may leave the
region for one of two or three.  In the boot, two threads of a process meet in
`init_atfs`, two processes at the init number, and a third generation finds what
the first two have left; lists of 2, 3 and 4 pages are the three ways the carving
loop ends.  In the trigger, three
accesses and one make exactly the rate of 0.75; `MaxCount` also bounds what the
counters can drift to.  Three inodes
and two descriptors allow a ring of two files and one more inode, that of a
file created twice.

Pages that were never used are interchangeable; `MCFileLog` takes them in
ascending order (`FirstUseInOrder`).  `log_live` uses `LowestFirst`, which serves
the lowest free pages, and `CallsHaveBytes`, which leaves out the calls for no
bytes, so that the counterexample is the collector's; both leave out behaviours
and add none.  `MCFileData`
keeps the offset within a byte of the file or of the end of a u64
(`OffsetInReach`), since `atfsread` and `atfslseek` move it without limit;
`atfslseek` moves by at most one byte from where it starts, and repeats.  `U64`
is a small multiple of the page size.

`FileLog` and `InodeTable` stutter when their bounds (`MaxWrites`, `NumInodes`)
are reached, and modules with faults stutter after one, so that deadlock
checking stays on everywhere.

### Fairness

`PagePool!FairSpec` asks weak fairness of each thread inside a call: a thread of
a running process is scheduled.  Nothing obliges a thread to call.  No fairness
of the mutexes is assumed.  `CallsReturn` then holds because every critical
section ends, the loop of `alloc_free_pages` ends (each turn adds to the
count), and of two threads neither can overtake the other for ever: the frees
of a thread that runs alone go to the local list and add to no count, so its
allocations use up a finite supply of counted pages, and a pool without any
ends in a fault.  A third thread, whose free reads the count in the middle of
another call, can return pages to the global list; with three threads or more
the property would need fair mutexes.

`Boot` asks weak fairness of a thread inside a call, as long as there is no fault.
`SomebodyReturns` then leaves out what the code gives no ground for: processes
that die for ever, a mutex whose holder has died, a second process whose unlock
does not wake (the mutex is private), and a mutex that was used before it was
made.  It promises that some call returns and not that every one does, since the
mutex is not fair.

`FileLog!FairSpec` asks the same of the call that runs.  `CallsEnd` then says that
a collection ends although it appends to the log it walks: the walk stops at the
page of the tail when it began, which no step of it takes out of the log.

`GcTrigger` asks weak fairness of the collector's thread.  That a call between
its load and its store goes on is not needed.  `NeverIgnored` holds with a bound
on the accesses between two resets; with calls coming in at every reading of the
counters, decisions could be wrong for as long as they do.

`AtfsApi!EveryFileServed` assumes no fairness of the specification.  It says what
follows if the collector takes a victim again and again, which depends on the
trigger and is part of the property.

## 4. Findings

Runs that TLC ends with a counterexample:

* `pool_superblock`: a refill of a list of exactly one page ends the run with a
  field read through `OFFSET_NULL` (`allocator.c:44-46`); it names page 0.
* `log_live`: after a collection the moved pages still point to their old entry
  (`gc.c:117`).  When that log page has become a log page again, an overwrite
  marks a foreign entry, and the next collection frees current data.
* `api_create`: two callers that create the same file both succeed
  (`atfsrw.c:65`).
* `data_tail`: the rest of the last page of a write is copied from a scaled address
  (`nvmio.c:328`): eight bytes, then five over them, and one of the other three
  reads as one of its neighbours, two as what lies behind the page, although the comment
  above the copies says that the first and the last page are filled (`nvmio.c:313`).

Facts that passing properties draw the border of:

* a write keeps what precedes its bytes, and all other pages, but for what surrounds
  them in pages the file did not have (`NeighboursKept`); what follows them in its last
  page it does not keep (`data_tail`).  Where the last turn of the loop has one page,
  nothing is copied there at all (`nvmio.c:319`), the bytes are those of the new page's
  last owner; a call for no bytes inside a page is the extreme case, and replaces all of
  it.  `Filled` says of each case what the bytes are;
* `atfspwrite` extends the size by the file offset and not by its own
  (`atfsrw.c:305`): data can lie outside the size, and in no other way
  (`SizeShortOnlyByPwrite`);
* a thread that finds `process_initialized` set goes on before its process, or
  the file, is ready: with a null base address it dies, with a file half built it
  uses the mutex before `super.c:23` makes it, and shares it with the next caller
  (`EarlyNeedsOpenBoot`, `ExclusiveUnlessEarly`);
* a boot that dies half way is never finished, and a file whose first process has
  ended is never collected again (`LossIsFinal`);
* an increment that overlaps a reset of the access counters undoes it
  (`CountsDriftOnlyByRace`);
* the refill follows `OFFSET_NULL` when the global list is short
  (`allocator.c:34`), and nothing else ever walks off a list (`DryOnlyInRefill`);
* pages freed to a list without pages are lost (`allocator.c:108`), linked where
  `OFFSET_NULL` leads (see `PagePool` above), and no others
  (`DropsOnlyBehindNull`); inodes likewise, and those that a refill drops because
  their frees are not counted (`DropsOnlyUncounted`);
* after a collection, or a write for no bytes inside a page (`nvmio.c:260`), an
  overwrite may mark file data or the superblock, and a file whose first log
  page is a recycled one (`inode.c:18` leaves its counters) is collected past the
  end of that page; while marks, counters and back pointers are right none of
  this happens (`DamageNeedsStale`);
* bytes around the first write to a page that the file does not have are those
  of the page's last owner;
* `lseek` can take the unsigned offset below zero; a read whose end wraps then
  passes the size test (`nvmio.c:374`) and ends in bytes of the start of the file
  (`ReadAgrees`);
* opening an existing file with `O_CREAT` adds its linked inode to the list again
  (`atfsrw.c:111`) and breaks the ring; nothing else does
  (`RingBreaksOnlyByReopen`).

`MarksStayExact` is the other side of `log_live`: as long as the back
pointers are right, marks and counters stay right, whatever is written and
collected; only a new file whose first log page is a recycled one may begin with
wrong counters.

## 5. Proofs

Every theorem holds for every value of the constants that the named assumption
of the module allows, which is what the code's constants may be: any number of
threads, CPUs, pages, inodes and files.  The inductive invariant of each
module is the `IInv` that the runs check.  The leaves of the proofs are kept small:
each of them takes the provers a fraction of their usual time limit.

### The page allocator (`PagePoolProofs`)

* `Safety`, and its parts that a caller cares for: `TypeCorrect`,
  `ExclusivePages`, `CountsAreCovered`, `WalksOffOnlyInRefill` (`DryOnlyInRefill`,
  a part of `IInv`);
* `KeepsLedger`: `Spec => ImplementsLedger`, every step is a grant, a return or a
  loss of `PageLedger`, or a stutter;
* `DropsNothingElse`: `Spec => DropsOnlyBehindNull`;
* `NoRingOfWaits`: `Spec => []WaitsEnd`, the safe half of `CallsReturn`.

`NoDoubleAllocation` alone is not inductive.  A thread that is about to unlink
pages has walked over them earlier; that they are still the front of the chain
(`BatchFresh`) follows from the mutex it holds (`LockDiscipline`).  A take may
serve page 0 unless the counted pages are real ones (`CountCovered`), which a
refill keeps only when the global chain has no page 0 (`GlobalReal`).  The
proof has one lemma per action; those for `FillSplice`, `TakeUnlink` and
`FreeLink` rest on lemmas about what the two splices do to the pages, the
repetitions and the first positions of a chain.  For the ledger and for the drops
it is shown in addition that cutting and linking chains loses no page.

`WaitsEnd` is inductive next to `IInv` by its first part: a held mutex is held by
a call inside its critical section.  The converse, that a call inside its
section holds the mutex, is `LockDiscipline`.  Behind a wait for a local list there may be one
for the global list, and behind that none (`HeldMeansEnd`).

### The inode table (`InodeTableProofs`)

* `Safety`, `TablesExclude` (`InodeExclusive`), `CountsAreCovered` (`CountCovered`,
  which follows from `IInv`: the run checks `IInv` and does not list it);
* `DropsAreUncounted` (`DropsOnlyUncounted`) and `KeepsLedger`
  (`ImplementsLedger`): the second component that refines `PageLedger`.

Here the lists are heads and `next` fields, and the invariant says that there are
disjoint runs that they chain (`ListsApart`).  A proof of a step names the new
runs, and `ChainedFrom` determines a run by its head, so the runs of the witness
are those that `Listed` computes.  All of it holds until the first stale link.

### The boot (`BootProofs`)

* `Safety`, `BootsOnce`, `MutexExcludes` (`ExclusiveUnlessEarly`),
  `EarlyOnlyBesideBoot` (`EarlyNeedsOpenBoot`), `LossesStay` (`LossIsFinal`);
* `CarvingFits` (`CarvingFitsTwo`): the initial state that `PagePool` is given.

`BootOrder` ties the place of the one thread that boots to what is built and says
that it is alone; `BaseMapped` that whoever has an address while the file is
fresh owes it to a thread about to claim it; `HolderInside` that up to the
first early call the threads inside the mutex of the superblock hold it.

The carving loop of `kernel_page_list_init` and the reading of a chain are
recursive functions.  For each a closed form is named (`AfterTurn`, `ChainFrom`),
shown to solve the recursion, and shown to be its only solution, by the smallest
place where another one would differ; the count is taken modulo 2^64 once for
all turns (`TakenOff`).

### The collection trigger (`GcTriggerProofs`)

* `Safety`, `DriftNeedsRace` (`CountsDriftOnlyByRace`), `DecidesByCounts`
  (`DecidesRightly`).

`LoadsFresh` and `SnapshotFresh` say what a value loaded earlier still is as long
as nothing has overlapped it.

### The logs and their collector (`FileLogProofs`, `FileLogSteps`)

* `Safety`, `Typed`, `LogHoldsIndex` (`LogCoversIndex`), `LogsKeepShape`
  (`LogShape`);
* `FilesApart` (`FilesKeepApart`), `StaleDamage` (`DamageNeedsStale`), `MarksStay`
  (`MarksStayExact`);
* `WalkEnds` (`WalkShortens`), the safe half of `CallsEnd`.

The properties speak of `LogPages(f)`, which a recursion over the links gathers.
The proof replaces it once and for all: `Unfold` takes from `IInv` a chain `c[f]`
of pages and the set `L[f]` of the addresses of its entries for every file, and
`Sound(c, L)` is `IInv` in these terms; `Fold` goes back.  That the recursion
gathers exactly the pages of a chain is `ReachedChain`.  Every action has a lemma
that names the new chains: an append leaves them or puts one page at an end
(`EntryAppended`), `PageUnlinked` takes one page out, wherever the collector
stands, and keeps its place.  `NamedOnce` is what the collection needs: the runs
of an entry divide its valid pages (`RunsCover`, `RunsApart`), the runs of a page
are apart because its entries are (`RunsTogether`), and the page that is left
names nothing that is not in a run or dead.

For `FileLogSteps`, the counters are sums.  `SumBumped` and `SumExtended` say how
a sum follows a change of one term and a new last term; `CountsAppended` and
`CountsMarked` apply them to the node of a log page, and `MarksAppended`,
`MarksIndexed` and `MarksTaken` to the actions.  `PointsBack` says what right back
pointers are good for: the entry they lead to is in the log of the file itself
and names the page.  `StaleDamage` rests on counting too: in a page worth
collecting whose counters are exact, some entry has a marked page
(`FindsGarbage`).

`WalkShortens` needs of `IInv` that the collector stands in the chain of its file
before the page where it stops (`Scanning`).  What is reached from there are the
pages between the two places (`StretchReached`), as long as the links up to the
second one are those of the chain; an unlinking changes a link at the page at hand and
one before it, an append the link of the last page, which is not before the stop.

The library's induction theorems take an operator as a parameter.  `SmallestIn`
and `SetInduction` do the same for a set and are proved from the well-founded
order of the naturals.  They give the recursive functions of the module their values
(`ReachedValues`, `SumValues`, `Flattened`).

### The bytes of a file (`FileDataProofs`)

* `Safety`, `Lands` (`WriteLands`), `Neighbours` (`NeighboursKept`), `SizeReaches`
  (`SizeShortOnlyByPwrite`), `Reads` (`ReadAgrees`).

`ShareIs` is the arithmetic of a turn: how `Share` divides the bytes that are
left, in terms of the pages they are on.  `PagesHold` follows from it for each of
the three kinds of page a turn fills, with `Behind` for the end of the last one, and `EntryWritten` puts the turns together.
`ByteAfter` then says what a byte of the file reads as once the pages are in the
B+tree, from which the first two action properties follow: `Neighbours` says what
stays, before a write and in other pages, and not what follows it in its last page, which
does not.  `PagesAsked` covers
the page count that wraps: such a call asks for more pages than the file has and
never comes to `EndWrite`.

`nvmio_read` is a recursive function over its locals.  `StraightSolves` shows that
the bytes in a row satisfy its equation, so the equation has a solution;
`CopiedIsStraight`, by induction on the bytes that are left, that there is no
other.  `Wrapped` and `ViewAt` take the page numbers around the end of a u64.

### The list of inodes (`AtfsApiProofs`)

* `ListSafety`, `RingBreaks` (`RingBreaksOnlyByReopen`), `FilesKeepLine` (`ServedInLine`,
  the safe half of `EveryFileServed`).

`IInv` says of the list only what survives its breaking: the neighbours of a
linked inode are linked (`NeighboursLinked`), and a call works on a linked one
(`CallsHold`).  That the links lead to every inode is said without a recursion: no
smaller set than that of the linked nodes is closed under them.  `AddSound` and
`MoveSound` take a set that is closed under the links after the operation to one
that was closed before.

What is behind an inode is said the same way: it is in every set that the links
lead on in, up to the head.  A set for the old list, without the inode that moves,
is one for the new list (`LineAfterMove`).  That the end of the list is behind
every other inode (`LastIsBehind`) rests on `HeadReached`: every way along the
links of a sound ring comes to its head, without the assumption that there
are finitely many inodes.  `ReopenBreaks` adds to `RingBreaks` that inserting a
linked inode always breaks the ring.

### Paths (`AtfsApiProofs`, of `PathHash`)

`NoPathHasAnErrorCode`, of every path.  `atfscreat` and `atfsopen` return
`EEXIST`, a positive number, where they fail.  It is the descriptor of no path,
since the last factor of the hash is a multiple of four, which the cut to 32
bits and the mask keep (`DescriptorsAreFours`).  The module is not run: its
numbers do not fit those of TLC.

### What is only model-checked

The liveness properties (`CallsReturn`, `CallsEnd`, `SomebodyReturns`,
`NeverIgnored`, `EveryFileServed`), which are out of the prover's reach.  Of three of
them the part that is a matter of single steps is proved: no ring of waits
(`WaitsEnd`), a walk that gets shorter (`WalkShortens`), a line that nobody gets into
before the others (`ServedInLine`).

## 6. Plan

Every safety invariant and every action property of the runs is proved.  What is
left to model are the nodes of the B+tree, whose operations the logs and the read
path take as one step.

## 7. Not modelled

The B+tree's nodes, timing statistics, logging, and the calls of `atfsrw.c` that are
stubs or pass through to libc.  Within the boot, the steps of one building
function.  Reading the log back after a crash: the code writes the log and has
nothing that reads it; `LogCoversIndex` says that the running log holds the B+tree, and
nothing of the log that a crash between `gc.c:111` and `gc.c:115`, or before
`nvmio.c:351`, would leave.  What a free to an emptied list overwrites
through `OFFSET_NULL`.  The checksum and the shifts of the path hash, a pure
function; names that collide are one file, in the code and in `AtfsApi`.  Address arithmetic is
abstracted to page and slot numbers; an entry is 48 bytes and 85 of them fit
into a page of 4096, so the address of the next entry is always in the page of
the last one.
