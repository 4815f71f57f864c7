------------------------------ MODULE FileLog ------------------------------
(***************************************************************************)
(* The logs of the files and their garbage collector: the log entries that *)
(* nvmio_write appends (src/src/nvmio.c), the B+tree that maps the pages   *)
(* of a file to data pages, the invalidation of the entries a write        *)
(* supersedes, and the collection of log pages (src/src/gc.c).             *)
(*                                                                         *)
(* An entry names the data pages of one write, in file order, and marks    *)
(* those that a later write has superseded.  Log pages hold Slots entries  *)
(* and are chained by next_offset from log_head to the page of log_tail.   *)
(* The node of a log page counts its entries and pages; the node of a data *)
(* page points back to the entry that wrote it (log_entry).                *)
(*                                                                         *)
(* A file is worked on under its inode mutex.  Different files share only  *)
(* the pool of free pages, so one such critical section runs at a time; it *)
(* is split at the iterations of its loops.  Pages are allocated and freed *)
(* as PageLedger promises.  The first step that damages a file or leaves   *)
(* defined behaviour is recorded in fault, and the model stops there.      *)
(*                                                                         *)
(* tail[f] is the log_tail of the running system: while a call is under    *)
(* way it is the local variable log_tail, which update_inode_tail puts     *)
(* into the inode when the loop is done (nvmio.c:351) and, in a collection,*)
(* after the page's own pages have been freed (gc.c:111-115).  Nobody else *)
(* reads inode->log_tail in between.  There is no crash here: nothing      *)
(* replays a log, and nothing is said of what one would find.              *)
(***************************************************************************)
EXTENDS Integers, Sequences, FiniteSets, SequencesExt

CONSTANTS
  File,          \* the inodes
  Page,          \* the pages of the pool
  NoPage,        \* OFFSET_NULL
  NumFilePages,  \* pages of the address space of a file
  Slots,         \* entries of a log page
  MaxPerEntry,   \* MAX_NUM_PAGE_PER_ENTRY
  MaxWrites      \* bound on the calls of nvmio_write

ASSUME LogAssumption ==
  /\ IsFiniteSet(Page) /\ NoPage \notin Page
  /\ NumFilePages \in Nat \ {0}
  /\ Slots \in Nat \ {0}
  /\ MaxPerEntry \in 1..64
  /\ MaxWrites \in Nat

FilePage == 0..(NumFilePages - 1)

VARIABLES
  free,     \* the pages that alloc_free_pages may serve
  next,     \* next[p]: next_offset of log page p
  node,     \* node[p]: obj_cnt, invalid_cnt, pages_cnt and invalid_pages of p
  origin,   \* origin[p]: log_entry of data page p, the address of an entry
  isData,   \* the pages whose bytes are file data
  memory,   \* memory[p][s]: what slot s of page p reads as an entry
  head,     \* head[f]: log_head
  tail,     \* tail[f]: log_tail, the address of the next entry
  index,    \* index[f]: the B+tree
  pc,       \* what the thread that holds an inode mutex is doing
  file,     \* the file it works on
  left,     \* the file pages that nvmio_write has still to log
  fresh,    \* the <<file page, data page>> pairs logged and not yet indexed
  scan,     \* the locals of start_gc_task and gc_log_block
  runs,     \* the runs of valid pages that gc_log_block has still to move
  writes,   \* the calls of nvmio_write so far
  fault     \* the first damage done

pool == <<free, next, node, origin, isData, memory>>
inodes == <<head, tail, index>>
vars == <<pool, inodes, pc, file, left, fresh, scan, runs, writes, fault>>

NoEntry == [data |-> <<>>, first |-> 0, bitmap |-> {}, invalid |-> 0]
Counters == [obj |-> 0, invalid |-> 0, pages |-> 0, invalidPages |-> 0]
NoScan == [at |-> NoPage, prev |-> NoPage, stop |-> NoPage,
           block |-> NoPage, dead |-> {}]

Init ==
  /\ free = Page
  /\ next = [p \in Page |-> NoPage]
  /\ node = [p \in Page |-> Counters]
  /\ origin = [p \in Page |-> [page |-> NoPage, slot |-> 0]]
  /\ isData = {}
  /\ memory = [p \in Page |-> [s \in 0..(Slots - 1) |-> NoEntry]]
  /\ head = [f \in File |-> NoPage]
  /\ tail = [f \in File |-> [page |-> NoPage, slot |-> 0]]
  /\ index = [f \in File |-> [i \in FilePage |-> NoPage]]
  /\ pc = "idle"
  /\ file \in File
  /\ left = <<>>
  /\ fresh = <<>>
  /\ scan = NoScan
  /\ runs = <<>>
  /\ writes = 0
  /\ fault = "none"

-----------------------------------------------------------------------------
(* The log of a file, from log_head to the page of log_tail.               *)
Reached(from, to, links) ==
  LET Reach[n \in 0..Cardinality(Page)] ==
        IF n = 0 THEN {from}
        ELSE Reach[n - 1] \cup {links[p] : p \in Reach[n - 1] \ {NoPage, to}}
  IN  Reach[Cardinality(Page)] \ {NoPage}

LogPages(f) == Reached(head[f], tail[f].page, next)

(* Its entries: those before the tail.                                     *)
NumEntries(f, p) == IF p = tail[f].page THEN tail[f].slot ELSE Slots

Addresses(f) ==
  {a \in [page : LogPages(f), slot : 0..(Slots - 1)] : a.slot < NumEntries(f, a.page)}

Entry(a) == memory[a.page][a.slot]

Indexed == {index[f][i] : f \in File, i \in FilePage} \ {NoPage}

InLogs == UNION {LogPages(f) : f \in File}

(* A page that last held file data reads as entries of no pages.           *)
AsLogPage(p) ==
  IF p \in isData THEN [memory EXCEPT ![p] = [s \in 0..(Slots - 1) |-> NoEntry]]
                  ELSE memory

(* get_log_entry and init_log_entry: the entry e goes to the tail of f, on *)
(* the new log page lp when the last one is full (is_last_entry).          *)
MutantFullLate(f) == tail[f].slot > Slots

Full(f) == tail[f].slot = Slots

NewLogPage(f, S) == IF Full(f) THEN S ELSE {NoPage}

Target(f, lp) == IF Full(f) THEN [page |-> lp, slot |-> 0] ELSE tail[f]

AppendEntry(f, e, lp) ==
  LET a == Target(f, lp)
      old == IF Full(f) THEN Counters ELSE node[a.page]
  IN  /\ next' = IF Full(f) THEN [next EXCEPT ![tail[f].page] = lp, ![lp] = NoPage]
                            ELSE next
      /\ node' = [node EXCEPT ![a.page] =
                    [old EXCEPT !.obj = @ + 1, !.pages = @ + Len(e.data)]]
      /\ memory' = [AsLogPage(a.page) EXCEPT ![a.page][a.slot] = e]
      /\ tail' = [tail EXCEPT ![f] = [page |-> a.page, slot |-> a.slot + 1]]

-----------------------------------------------------------------------------
(* init_atfs_inode: the counters of the first log page are left as they    *)
(* were when the page was last used.                                       *)
Create(f) ==
  /\ pc = "idle"
  /\ head[f] = NoPage
  /\ \E p \in free :
       /\ free' = free \ {p}
       /\ next' = [next EXCEPT ![p] = NoPage]
       /\ isData' = isData \ {p}
       /\ memory' = AsLogPage(p)
       /\ head' = [head EXCEPT ![f] = p]
       /\ tail' = [tail EXCEPT ![f] = [page |-> p, slot |-> 0]]
  /\ UNCHANGED <<node, origin, index, pc, file, left, fresh, scan, runs, writes,
                 fault>>

(* nvmio_write: a call for the pages i .. j of f, one loop iteration for   *)
(* every MaxPerEntry of them, and the update of the tail and the B+tree.   *)
BeginWrite(f) ==
  /\ pc = "idle"
  /\ head[f] # NoPage
  /\ writes < MaxWrites
  /\ \E i \in FilePage : \E j \in i..(NumFilePages - 1) :
       left' = [k \in 1..(j - i + 1) |-> i + k - 1]
  /\ file' = f
  /\ pc' = "write"
  /\ writes' = writes + 1
  /\ UNCHANGED <<pool, inodes, fresh, scan, runs, fault>>

(* A call may be for no bytes at a place inside a page: it takes one page, *)
(* and neither writes into it nor sets its log_entry.                      *)
NoBytes == Len(left) = 1 /\ fresh = <<>>

WriteEntry ==
  /\ pc = "write"
  /\ left # <<>>
  /\ LET n == IF Len(left) > MaxPerEntry THEN MaxPerEntry ELSE Len(left)
     IN  \E data \in [1..n -> free] : \E lp \in NewLogPage(file, free) :
           /\ IsInjective(data) /\ lp \notin Range(data)
           /\ AppendEntry(file, [NoEntry EXCEPT !.data = data, !.first = Head(left)], lp)
           /\ free' = free \ (Range(data) \cup {lp})
           /\ isData' = (isData \cup Range(data)) \ {lp}
           /\ \/ origin' = [p \in Page |-> IF p \in Range(data) THEN Target(file, lp)
                                           ELSE origin[p]]
              \/ NoBytes /\ UNCHANGED origin
           /\ fresh' = fresh \o [k \in 1..n |-> <<left[k], data[k]>>]
           /\ left' = SubSeq(left, n + 1, Len(left))
  /\ UNCHANGED <<head, index, pc, file, scan, runs, writes, fault>>

(* update_radixtree and invalidate_old_log_entry: the B+tree takes the     *)
(* first of the new pages, and what the superseded page points to is told. *)
(* That is an entry, or the data of a page in use or free, of which the    *)
(* node counts what it reads there, or the superblock, where log_entry has *)
(* never been set.  The shift by a page distance is one of 64 bits.        *)
MutantInvalidateComparesEarly(a, i) ==
  LET e == Entry(a)
  IN  /\ memory' = [memory EXCEPT ![a.page][a.slot] =
                      [e EXCEPT !.bitmap = @ \cup {(i - e.first) % 64}, !.invalid = @ + 1]]
      /\ node' = [node EXCEPT
                    ![a.page].invalidPages = @ + 1,
                    ![a.page].invalid = IF Len(e.data) = e.invalid THEN @ + 1 ELSE @]

Invalidate(a, i) ==
  LET e == Entry(a)
      m == e.invalid + 1
  IN  /\ memory' = [memory EXCEPT ![a.page][a.slot] =
                      [e EXCEPT !.bitmap = @ \cup {(i - e.first) % 64}, !.invalid = m]]
      /\ node' = [node EXCEPT
                    ![a.page].invalidPages = @ + 1,
                    ![a.page].invalid = IF Len(e.data) = m THEN @ + 1 ELSE @]

MarkData(a) ==
  /\ \E full \in 0..1 :
       node' = [node EXCEPT ![a.page].invalidPages = @ + 1, ![a.page].invalid = @ + full]
  /\ fault' = IF a.page \in free THEN fault ELSE "data_marked"
  /\ UNCHANGED memory

MarkSuperblock == fault' = "superblock_marked" /\ UNCHANGED <<node, memory>>

MarkOld(a, i) ==
  \/ a.page = NoPage /\ MarkSuperblock
  \/ a.page \in isData /\ MarkData(a)
  \/ a.page \notin isData \cup {NoPage} /\ Invalidate(a, i) /\ UNCHANGED fault

IndexPage ==
  /\ pc = "write" /\ left = <<>> /\ fresh # <<>>
  /\ LET i == Head(fresh)[1]
         old == index[file][i]
     IN  /\ index' = [index EXCEPT ![file][i] = Head(fresh)[2]]
         /\ fresh' = Tail(fresh)
         /\ \/ old = NoPage /\ UNCHANGED <<node, memory, fault>>
            \/ old # NoPage /\ MarkOld(origin[old], i)
  /\ UNCHANGED <<free, next, origin, isData, head, tail, pc, file, left, scan, runs,
                 writes>>

EndWrite ==
  /\ pc = "write" /\ left = <<>> /\ fresh = <<>>
  /\ pc' = "idle"
  /\ UNCHANGED <<pool, inodes, file, left, fresh, scan, runs, writes, fault>>

-----------------------------------------------------------------------------
(* start_gc_task: walks the log of f up to the page that held the tail     *)
(* when it started.                                                        *)
BeginScan(f) ==
  /\ pc = "idle"
  /\ head[f] # tail[f].page
  /\ file' = f
  /\ scan' = [NoScan EXCEPT !.at = head[f], !.stop = tail[f].page]
  /\ pc' = "scan"
  /\ UNCHANGED <<pool, inodes, left, fresh, runs, writes, fault>>

MutantWorthCollectingReversed(p) ==
  2 * node[p].invalid < node[p].obj \/ 2 * node[p].invalidPages < node[p].pages

WorthCollecting(p) ==
  \/ 2 * node[p].invalid > node[p].obj
  \/ 2 * node[p].invalidPages > node[p].pages

MutantSkipPageStays ==
  /\ pc = "scan"
  /\ scan.at # scan.stop
  /\ ~WorthCollecting(scan.at)
  /\ scan' = [scan EXCEPT !.prev = scan.at]
  /\ UNCHANGED <<pool, inodes, pc, file, left, fresh, runs, writes, fault>>

SkipPage ==
  /\ pc = "scan"
  /\ scan.at # scan.stop
  /\ ~WorthCollecting(scan.at)
  /\ scan' = [scan EXCEPT !.prev = scan.at, !.at = next[scan.at]]
  /\ UNCHANGED <<pool, inodes, pc, file, left, fresh, runs, writes, fault>>

(* The maximal runs of valid pages of entry e, as the entries they become, *)
(* and its invalid pages.                                                  *)
Valid(e, j) == j \notin e.bitmap

RunEnd(e, k) ==
  CHOOSE j \in (k + 1)..Len(e.data) :
    /\ j = Len(e.data) \/ ~Valid(e, j)
    /\ \A m \in (k + 1)..(j - 1) : Valid(e, m)

MutantRunKeepsStart(e, k) ==
  [NoEntry EXCEPT !.data = SubSeq(e.data, k + 1, RunEnd(e, k)), !.first = e.first]

Run(e, k) ==
  [NoEntry EXCEPT !.data = SubSeq(e.data, k + 1, RunEnd(e, k)), !.first = e.first + k]

Starts(e, k) == Valid(e, k) /\ (k = 0 \/ ~Valid(e, k - 1))

RunsOf(e) ==
  FlattenSeq([j \in 1..Len(e.data) |-> IF Starts(e, j - 1) THEN <<Run(e, j - 1)>> ELSE <<>>])

MutantInvalidPagesAll(e) == {e.data[j + 1] : j \in 0..(Len(e.data) - 1)}

InvalidPages(e) == {e.data[j + 1] : j \in {k \in 0..(Len(e.data) - 1) : ~Valid(e, k)}}

(* The page at hand leaves the log of the file.                            *)
MutantUnlinkForgetsPrev ==
  /\ head' = IF scan.at = head[file] THEN [head EXCEPT ![file] = next[scan.at]] ELSE head
  /\ next' = [next EXCEPT ![scan.at] = NoPage]

MutantUnlinkForgetsHead ==
  /\ head' = head
  /\ next' = [next EXCEPT ![scan.at] = NoPage]

MutantUnlinkCutsBehind ==   \* the link is cleared after the step to the next page
  /\ head' = IF scan.at = head[file] THEN [head EXCEPT ![file] = next[scan.at]] ELSE head
  /\ next' = [next EXCEPT ![next[scan.at]] = NoPage]

Unlink ==
  IF scan.at = head[file]
  THEN /\ head' = [head EXCEPT ![file] = next[scan.at]]
       /\ next' = [next EXCEPT ![scan.at] = NoPage]
  ELSE /\ next' = [next EXCEPT ![scan.prev] = next[scan.at], ![scan.at] = NoPage]
       /\ head' = head

(* The page is unlinked from the log, and gc_log_block reads as many       *)
(* entries as it counts, also where the page has no room for them.         *)
TakePage ==
  /\ pc = "scan"
  /\ scan.at # scan.stop
  /\ WorthCollecting(scan.at)
  /\ LET p == scan.at
         e == [s \in 1..(IF node[p].obj > Slots THEN Slots ELSE node[p].obj)
                 |-> memory[p][s - 1]]
     IN  /\ Unlink
         /\ scan' = [scan EXCEPT !.at = next[p], !.block = p,
                                 !.dead = UNION {InvalidPages(e[s]) : s \in DOMAIN e}]
         /\ runs' = FlattenSeq([s \in DOMAIN e |-> RunsOf(e[s])])
         /\ fault' = IF node[p].obj > Slots THEN "entries_overrun" ELSE fault
  /\ pc' = "move"
  /\ UNCHANGED <<free, node, origin, isData, memory, tail, index, file, left, fresh,
                 writes>>

(* A run of valid pages goes to a new entry; its pages still point to the  *)
(* old one.                                                                *)
MoveRun ==
  /\ pc = "move"
  /\ runs # <<>>
  /\ \E lp \in NewLogPage(file, free) :
       /\ AppendEntry(file, Head(runs), lp)
       /\ free' = free \ {lp}
       /\ isData' = isData \ {lp}
  /\ runs' = Tail(runs)
  /\ UNCHANGED <<origin, head, index, pc, file, left, fresh, scan, writes, fault>>

(* The log page and the invalid pages are freed: the pages had better be   *)
(* out of use, and there had better be some.                               *)
FreeBlock ==
  /\ pc = "move"
  /\ runs = <<>>
  /\ free' = free \cup scan.dead \cup {scan.block}
  /\ scan' = [scan EXCEPT !.block = NoPage, !.dead = {}]
  /\ pc' = "scan"
  /\ fault' = IF scan.dead = {} THEN "nothing_freed"
              ELSE IF scan.dead \cap (free \cup InLogs \cup Indexed) # {}
                   THEN "page_in_use_freed" ELSE fault
  /\ UNCHANGED <<next, node, origin, isData, memory, inodes, file, left, fresh, runs,
                 writes>>

EndScan ==
  /\ pc = "scan"
  /\ scan.at = scan.stop
  /\ scan' = NoScan
  /\ pc' = "idle"
  /\ UNCHANGED <<pool, inodes, file, left, fresh, runs, writes, fault>>

(* The pool is too small for the pages that are asked for (see PagePool).  *)
Needed ==
  IF pc = "write"
  THEN (IF Len(left) > MaxPerEntry THEN MaxPerEntry ELSE Len(left))
       + (IF Full(file) THEN 1 ELSE 0)
  ELSE IF Full(file) THEN 1 ELSE 0

RunDry ==
  /\ (pc = "write" /\ left # <<>>) \/ (pc = "move" /\ runs # <<>>)
  /\ Cardinality(free) < Needed
  /\ fault' = "exhausted"
  /\ UNCHANGED <<pool, inodes, pc, file, left, fresh, scan, runs, writes>>

-----------------------------------------------------------------------------
Next ==
  \/ /\ fault = "none"
     /\ \/ \E f \in File : Create(f) \/ BeginWrite(f) \/ BeginScan(f)
        \/ WriteEntry \/ IndexPage \/ EndWrite
        \/ SkipPage \/ TakePage \/ MoveRun \/ FreeBlock \/ EndScan
        \/ RunDry
  \/ fault # "none" /\ UNCHANGED vars                   \* nothing is claimed
  \/ pc = "idle" /\ writes = MaxWrites /\ UNCHANGED vars  \* the bound is reached

Spec == Init /\ [][Next]_vars

(* The thread that is inside a call is scheduled.                          *)
CallStep ==
  /\ fault = "none"
  /\ \/ WriteEntry \/ IndexPage \/ EndWrite
     \/ SkipPage \/ TakePage \/ MoveRun \/ FreeBlock \/ EndScan \/ RunDry

FairSpec == Spec /\ WF_vars(CallStep)

-----------------------------------------------------------------------------
(* Types.  A log page takes Slots entries and an entry marks at most 64    *)
(* pages, all within the file: is_last_entry and the 64-bit bitmap.        *)
Address == [page : Page \cup {NoPage}, slot : 0..(Slots - 1)]

LogEntry ==
  {e \in [data : Seq(Page), first : FilePage, bitmap : SUBSET (0..63), invalid : Nat] :
     e.first + Len(e.data) <= NumFilePages /\ Len(e.data) <= MaxPerEntry}

TypeOK ==
  /\ free \subseteq Page /\ isData \subseteq Page
  /\ next \in [Page -> Page \cup {NoPage}]
  /\ node \in [Page -> [obj : Nat, invalid : Nat, pages : Nat, invalidPages : Nat]]
  /\ origin \in [Page -> Address]
  /\ memory \in [Page -> [0..(Slots - 1) -> LogEntry]]
  /\ head \in [File -> Page \cup {NoPage}]
  /\ tail \in [File -> [page : Page \cup {NoPage}, slot : 0..Slots]]
  /\ index \in [File -> [FilePage -> Page \cup {NoPage}]]
  /\ pc \in {"idle", "write", "scan", "move"}
  /\ file \in File
  /\ left \in Seq(FilePage)
  /\ fresh \in Seq(FilePage \X Page)
  /\ scan \in [at : Page \cup {NoPage}, prev : Page \cup {NoPage}, stop : Page \cup {NoPage},
               block : Page \cup {NoPage}, dead : SUBSET Page]
  /\ runs \in Seq(LogEntry)
  /\ writes \in 0..MaxWrites
  /\ fault \in {"none", "data_marked", "superblock_marked", "entries_overrun", "nothing_freed",
                "page_in_use_freed", "exhausted"}

(* The log of every file is a chain from its head to the page of its tail: *)
(* start_gc_task, which unlinks pages while gc_log_block appends to the    *)
(* same log, never loses the rest of it, and the logs share no page with   *)
(* each other, with the pool or with the data of the files.                *)
LogShape == fault = "none" =>
  /\ \A f \in File :
       head[f] # NoPage =>
         /\ tail[f].page \in LogPages(f)
         /\ \A p \in LogPages(f) \ {tail[f].page} : next[p] # NoPage
         /\ \A p, q \in LogPages(f) \ {tail[f].page} : next[p] = next[q] => p = q
         /\ LogPages(f) \cap (free \cup Indexed) = {}
  /\ \A f, g \in File : f # g => LogPages(f) \cap LogPages(g) = {}

(* The log holds the B+tree: every data page the tree names is, at its     *)
(* place in the file, in an entry of the running log, or in a run that     *)
(* gc_log_block is taking there; or it is marked, wrongly, and gc_log_block*)
(* is about to free it, which is the damage that ends the run.             *)
Names(e, i, p) == \E k \in 1..Len(e.data) : e.data[k] = p /\ e.first + k - 1 = i

LogCoversIndex ==
  fault = "none" =>
    \A f \in File, i \in FilePage :
      index[f][i] # NoPage =>
        \/ \E a \in Addresses(f) : Names(Entry(a), i, index[f][i])
        \/ file = f /\ \E r \in DOMAIN runs : Names(runs[r], i, index[f][i])
        \/ index[f][i] \in scan.dead

-----------------------------------------------------------------------------
(* What makes the two inductive.  The pages of a log in order, from its    *)
(* head to the page of its tail.                                           *)
Chained(from, to, links, s) ==
  /\ IsInjective(s)
  /\ from = IF s = <<>> THEN NoPage ELSE s[1]
  /\ to = IF s = <<>> THEN NoPage ELSE s[Len(s)]
  /\ \A i \in 1..(Len(s) - 1) : links[s[i]] = s[i + 1]

LogOf(f) == {s \in [1..Cardinality(LogPages(f)) -> LogPages(f)] :
               Chained(head[f], tail[f].page, next, s)}

(* The collector's place in the log s of its file: the page at hand comes  *)
(* before the one where it stops or is that one, and right after prev.     *)
Scanning(s) ==
  \E k \in 1..Len(s) :
    /\ scan.at = s[k]
    /\ k > 1 => scan.prev = s[k - 1]
    /\ \E m \in k..Len(s) : scan.stop = s[m]

LogsApart(chain) ==
  /\ \A f \in File : chain[f] \in LogOf(f)
  /\ \A f, g \in File : f # g => Range(chain[f]) \cap Range(chain[g]) = {}
  /\ \A f \in File : Range(chain[f]) \cap (free \cup isData \cup {scan.block}) = {}
  /\ pc \in {"scan", "move"} => Scanning(chain[file])

(* What holds between the steps of a call.                                 *)
CallShape ==
  /\ pc # "write" => left = <<>> /\ fresh = <<>>
  /\ pc # "move" => runs = <<>> /\ scan.dead = {}
  /\ \A r \in DOMAIN runs : runs[r].bitmap = {} /\ runs[r].invalid = 0
  /\ pc # "move" <=> scan.block = NoPage
  /\ pc = "write" => head[file] # NoPage
  /\ \A k \in 1..Len(left) : left[k] = left[1] + k - 1

(* The data pages in use are neither free nor the log page that is left.   *)
Logged == {fresh[k][2] : k \in DOMAIN fresh}

DataApart ==
  /\ Indexed \cup Logged \subseteq isData \ free
  /\ scan.block \notin free \cup isData
  /\ Indexed \cap Logged = {}
  /\ \A k, m \in DOMAIN fresh : fresh[k][2] = fresh[m][2] => k = m

(* Every data page is named once, by an entry of the logs or by a run that *)
(* is on its way there, and is in use as long as it is.                    *)
InUse(e) == e.data # <<>> /\ IsInjective(e.data) /\ Range(e.data) \subseteq isData \ (free \cup scan.dead)

Disjoint(d, e) == Range(d.data) \cap Range(e.data) = {}

NamedOnce ==
  LET entries == UNION {Addresses(f) : f \in File}
  IN  /\ \A a \in entries : InUse(Entry(a))
      /\ \A r \in DOMAIN runs : InUse(runs[r])
      /\ \A a, b \in entries : a # b => Disjoint(Entry(a), Entry(b))
      /\ \A r, t \in DOMAIN runs : r # t => Disjoint(runs[r], runs[t])
      /\ \A a \in entries, r \in DOMAIN runs : Disjoint(Entry(a), runs[r])

(* A log page counts its entries, or more than it has.                     *)
ObjCovers == \A f \in File : \A p \in LogPages(f) : node[p].obj >= NumEntries(f, p)

(* What is not indexed yet is in the log already.                          *)
LogCoversFresh ==
  \A k \in DOMAIN fresh : \E a \in Addresses(file) : Names(Entry(a), fresh[k][1], fresh[k][2])

IInv ==
  /\ TypeOK
  /\ fault = "none" =>
       /\ \E chain \in [File -> UNION {LogOf(f) : f \in File}] : LogsApart(chain)
       /\ CallShape /\ DataApart /\ NamedOnce /\ ObjCovers /\ LogCoversFresh
  /\ LogCoversIndex

-----------------------------------------------------------------------------
(* The marks of the log are exact: what is marked of an entry are the      *)
(* pages that a later write has superseded, and it counts them.            *)
Current(p) == p \in Indexed \/ \E k \in DOMAIN fresh : fresh[k][2] = p

Superseded(e) == {k \in 0..(Len(e.data) - 1) : ~Current(e.data[k + 1])}

ExactlyMarked(e) == e.bitmap = Superseded(e) /\ e.invalid = Cardinality(e.bitmap)

MarksExact ==
  /\ \A f \in File : \A a \in Addresses(f) : ExactlyMarked(Entry(a))
  /\ \A r \in DOMAIN runs : ExactlyMarked(runs[r])

(* The counters of a log page, by which start_gc_task chooses, are those   *)
(* of its entries: invalidate_old_log_entry keeps them so.                 *)
SumUpTo(n, size) ==
  LET Sum[s \in 0..n] == IF s = 0 THEN 0 ELSE Sum[s - 1] + size[s - 1]
  IN  Sum[n]

PageCountersExact(p, n) ==
  /\ node[p].obj = n
  /\ node[p].pages = SumUpTo(n, [s \in 0..(n - 1) |-> Len(memory[p][s].data)])
  /\ node[p].invalidPages = SumUpTo(n, [s \in 0..(n - 1) |-> memory[p][s].invalid])
  /\ node[p].invalid =
       Cardinality({s \in 0..(n - 1) : memory[p][s].invalid = Len(memory[p][s].data)})

CountersExact ==
  fault = "none" => \A f \in File : \A p \in LogPages(f) : PageCountersExact(p, NumEntries(f, p))

(* Every current page points back to the entry that names it.              *)
OriginsRight ==
  \A f \in File : \A a \in Addresses(f) : \A k \in 1..Len(Entry(a).data) :
    Current(Entry(a).data[k]) => origin[Entry(a).data[k]] = a

Exact == MarksExact /\ CountersExact /\ OriginsRight

(* As long as the back pointers are right, no write and no collection      *)
(* spoils a mark or a counter.  Two steps leave a back pointer wrong:      *)
(* gc_log_block, which moves a page to a new entry (its call of            *)
(* update_radixtree is commented out), and a call of nvmio_write for no    *)
(* bytes, which gives a page no log_entry.  Only init_atfs_inode, which    *)
(* leaves the counters of its log page as they were, may begin with wrong  *)
(* ones.                                                                   *)
Creates == \E f \in File : head[f] = NoPage /\ head'[f] # NoPage

MarksStayExact == [][Exact /\ ~Creates => (MarksExact /\ CountersExact)']_vars

(* As long as they are right, work on one file leaves the entries of the   *)
(* others alone, whatever pages pass from one to the other by the pool.    *)
Log(f) == [a \in Addresses(f) |-> Entry(a)]

FilesKeepApart == [][Exact => \A f \in File \ {file'} : head[f] = head'[f] => Log(f)' = Log(f)]_vars

(* Nothing but stale data leads to damage.  A write marks file data, or    *)
(* the superblock, only when a back pointer is wrong; a collection reads   *)
(* past the entries of a page, or sets out to free a page in use or        *)
(* nothing at all, only when a mark or a counter is.                       *)
DamageNeedsStale ==
  [][/\ fault = "none" /\ fault' \in {"data_marked", "superblock_marked"} =>
          ~OriginsRight
     /\ pc = "scan" /\ pc' = "move" /\ MarksExact /\ CountersExact =>
          /\ fault' = "none"
          /\ scan'.dead # {}
          /\ scan'.dead \cap (free \cup Indexed \cup InLogs)' = {}]_vars

(* The walk of start_gc_task gets shorter with every page it looks at,     *)
(* whether the page stays or goes, and with nothing else: while            *)
(* gc_log_block appends to the log that is walked, and cuts pages out of   *)
(* it, the way from the page at hand to the one it is to stop at neither   *)
(* grows nor loses its end.                                                *)
Ahead == Reached(scan.at, scan.stop, next)

WalkShortens ==
  [][/\ pc = "scan" /\ pc' # "idle" =>
          Ahead' = Ahead \ {scan.at} /\ {scan.at, scan.stop} \subseteq Ahead
     /\ pc = "move" => Ahead' = Ahead]_vars

(* Every call ends, the collection above all, which appends to the log     *)
(* that it walks and unlinks pages behind and before it: the page it is to *)
(* stop at stays ahead of it.                                              *)
CallsEnd == pc # "idle" ~> (pc = "idle" \/ fault # "none")

(* What a comment of gc.c says and the code does not do: only invalid      *)
(* pages are freed (gc.c:84).                                              *)
LivePagesKept == fault # "page_in_use_freed"
=============================================================================
