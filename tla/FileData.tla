------------------------------ MODULE FileData ------------------------------
(***************************************************************************)
(* The bytes of one file: the copy-on-write of nvmio_write, page by page   *)
(* and log entry by log entry, nvmio_read, and the calls of atfsrw.c that  *)
(* move the file offset and the size.  A call holds the mutex of the inode *)
(* while it does so; calls follow each other, whichever thread makes them. *)
(*                                                                         *)
(* A data page is never written again once the B+tree names it, so a page  *)
(* is what it holds.  A page fresh from the pool holds what it held for    *)
(* its last owner: Junk.  The list_node_t of a page lies right behind it,  *)
(* and then the next page; what is read there is Junk as well.  The k-th   *)
(* byte of the w-th call has a value of its own, so that a byte tells      *)
(* where it comes from.                                                    *)
(***************************************************************************)
EXTENDS Integers, Sequences, FiniteSets, Functions

CONSTANTS
  PageSize,      \* PAGE_SIZE
  NodeSize,      \* sizeof(list_node_t)
  NumFilePages,  \* pages of the address space of the file
  MaxPerEntry,   \* MAX_NUM_PAGE_PER_ENTRY
  Counts,        \* the cnt of the calls
  U64,           \* number of values of a u64 (2^64)
  MaxCalls       \* bound on the calls that write

ASSUME DataAssumption ==
  /\ PageSize \in Nat \ {0}
  /\ NodeSize \in Nat \ {0}
  /\ NumFilePages \in Nat \ {0}
  /\ MaxPerEntry \in Nat \ {0}
  /\ Counts \subseteq Nat
  /\ MaxCalls \in Nat
  /\ U64 \in Nat /\ U64 % PageSize = 0 /\ U64 > 2 * PageSize * NumFilePages

FilePage == 0..(NumFilePages - 1)
FileBytes == PageSize * NumFilePages
Byte == 0..(PageSize - 1)

Zero == 0
Junk == -1
Token(w, o) == w * FileBytes + o      \* what call w writes at offset o

NoPage == <<>>                        \* OFFSET_NULL
Blank(b) == [x \in Byte |-> b]

VARIABLES
  tree,      \* tree[i]: the page of file page i in the B+tree
  i_size,    \* atfs_inode.i_size
  file_off,  \* atfs_inode.file_off
  pc,        \* whether the inode's mutex is held by a write
  wr,        \* the locals of that write
  written,   \* what the calls so far have put at each offset, Zero if nothing
  calls,     \* how many calls have written
  fault      \* "exhausted" once a write has used up the pool, "left_mapping"
             \* once one has read past the end of the mapped region

vars == <<tree, i_size, file_off, pc, wr, written, calls, fault>>

NoWrite == [off |-> 0, cnt |-> 0, own |-> FALSE, page_nums |-> 0, total |-> 0,
            start |-> 0, offset |-> 0, buf |-> 0, fresh |-> <<>>]

Init ==
  /\ tree = [i \in FilePage |-> NoPage]
  /\ i_size = 0
  /\ file_off = 0
  /\ pc = "idle"
  /\ wr = NoWrite
  /\ written = [o \in 0..(FileBytes - 1) |-> Zero]
  /\ calls = 0
  /\ fault = "none"

-----------------------------------------------------------------------------
(* nvmio_write, before its loop.  cnt + offset - 1 is a u64: a call for no *)
(* bytes at the start of a page asks for 2^52 pages.                       *)
MutantPageNums(o, cnt) == ((cnt + (o % PageSize)) \div PageSize) + 1

PageNums(o, cnt) == (((cnt + (o % PageSize) + U64 - 1) % U64) \div PageSize) + 1

BeginWrite(o, cnt, own) ==
  /\ pc = "idle"
  /\ calls < MaxCalls
  /\ o + cnt <= FileBytes                 \* the bound on the address space
  /\ pc' = "write"
  /\ wr' = [NoWrite EXCEPT !.off = o, !.cnt = cnt, !.own = own,
                           !.page_nums = PageNums(o, cnt), !.total = cnt,
                           !.start = o \div PageSize, !.offset = o % PageSize]
  /\ calls' = calls + 1
  /\ UNCHANGED <<tree, i_size, file_off, written, fault>>

AtfsWrite == \E cnt \in Counts : BeginWrite(file_off, cnt, TRUE)

AtfsPwrite == \E cnt \in Counts, o \in 0..FileBytes : BeginWrite(o, cnt, FALSE)

(* How a turn of the loop divides its bytes between the first page, the    *)
(* whole pages in the middle and the last page.                            *)
MutantShareForgetsOffset(total, offset, alloc) ==
  LET size == IF total < PageSize * alloc - offset THEN total ELSE PageSize * alloc - offset
      one == total <= PageSize - offset
      first == IF one THEN total ELSE IF offset # 0 THEN PageSize - offset ELSE 0
      last == IF one THEN 0 ELSE size % PageSize
  IN  [size |-> size, first |-> first, last |-> last,
       mid |-> alloc - (IF one \/ offset # 0 THEN 1 ELSE 0) - (IF last # 0 THEN 1 ELSE 0)]

Share(total, offset, alloc) ==
  LET size == IF total < PageSize * alloc - offset THEN total ELSE PageSize * alloc - offset
      one == total <= PageSize - offset
      first == IF one THEN total ELSE IF offset # 0 THEN PageSize - offset ELSE 0
      last == IF one THEN 0 ELSE (size + offset) % PageSize
  IN  [size |-> size, first |-> first, last |-> last,
       mid |-> alloc - (IF one \/ offset # 0 THEN 1 ELSE 0) - (IF last # 0 THEN 1 ELSE 0)]

(* The bytes of user_buf are those of the call; the page that file page i  *)
(* has in the B+tree supplies what the call does not write.                *)
User(k) == Token(calls, wr.off + k)

Old(i) == IF tree[i] = NoPage THEN Blank(Junk) ELSE tree[i]

MutantFirstOrLast(s) ==      \* the front is filled where there is no last page
  [b \in Byte |->
     IF b \in wr.offset..(wr.offset + s.first - 1) THEN User(wr.buf + b - wr.offset)
     ELSE IF b < wr.offset /\ s.first # 0 /\ s.last = 0 THEN Old(wr.start)[b] ELSE Junk]

FirstPage(s) ==
  [b \in Byte |->
     IF b \in wr.offset..(wr.offset + s.first - 1) THEN User(wr.buf + b - wr.offset)
     ELSE IF b < wr.offset /\ s.first # 0 THEN Old(wr.start)[b] ELSE Junk]

(* What follows the bytes of the call in its last page is not copied from  *)
(* the same place of the old page: part_page is a list_node_t *, so that   *)
(* part_page + last_page_wr is last_page_wr nodes on, and the copy soon    *)
(* runs into what lies behind the page.                                    *)
Behind(i, last, b) ==
  LET x == last * NodeSize + (b - last)
  IN  IF x \in Byte THEN Old(i)[x] ELSE Junk

LastPage(s, i, buf) ==
  [b \in Byte |-> IF b < s.last THEN User(buf + b) ELSE Behind(i, s.last, b)]

(* The pages a turn of the loop fills, in file order.  user_buf goes on by *)
(* the rest of the first page, then by whole pages.                        *)
Pages(s, alloc) ==
  LET lead == alloc - s.mid - (IF s.last # 0 THEN 1 ELSE 0)
      buf(k) == wr.buf + (IF s.first # 0 THEN PageSize - wr.offset ELSE 0)
                       + (k - lead - 1) * PageSize
  IN  [k \in 1..alloc |->
         IF k <= lead THEN FirstPage(s)
         ELSE IF k <= lead + s.mid THEN [b \in Byte |-> User(buf(k) + b)]
         ELSE LastPage(s, wr.start + k - 1, buf(k))]

AllocNum == IF wr.page_nums > MaxPerEntry THEN MaxPerEntry ELSE wr.page_nums

WriteEntry ==
  /\ pc = "write"
  /\ wr.page_nums \in 1..NumFilePages
  /\ LET alloc == AllocNum
         s == Share(wr.total, wr.offset, alloc)
     IN  wr' = [wr EXCEPT !.page_nums = @ - alloc, !.total = @ - s.size,
                          !.start = @ + alloc, !.offset = 0, !.buf = @ + s.size,
                          !.fresh = @ \o Pages(s, alloc)]
  /\ UNCHANGED <<tree, i_size, file_off, pc, written, calls, fault>>

(* That copy may also run past the end of the mapped region, where the old *)
(* page is the last one in it: it then goes beyond the page and its node.  *)
LeaveMapping ==
  /\ pc = "write"
  /\ wr.page_nums \in 1..NumFilePages
  /\ LET last == Share(wr.total, wr.offset, AllocNum).last
     IN  /\ tree[wr.start + AllocNum - 1] # NoPage
         /\ last # 0 /\ last * NodeSize + (PageSize - last) > PageSize + NodeSize
  /\ fault' = "left_mapping"
  /\ UNCHANGED <<tree, i_size, file_off, pc, wr, written, calls>>

(* No pool has the pages for a call whose page_nums has wrapped.           *)
RunDry ==
  /\ pc = "write"
  /\ wr.page_nums > NumFilePages
  /\ fault' = "exhausted"
  /\ UNCHANGED <<tree, i_size, file_off, pc, wr, written, calls>>

(* The pages go into the B+tree; atfswrite moves the offset and extends    *)
(* the size to it, atfspwrite extends the size to file_off + cnt.          *)
MutantEndWriteSizesLate ==   \* the size is extended to where the offset was
  /\ pc = "write"
  /\ wr.page_nums = 0
  /\ tree' = [i \in FilePage |->
                LET k == i - (wr.off \div PageSize) + 1
                IN  IF k \in DOMAIN wr.fresh THEN wr.fresh[k] ELSE tree[i]]
  /\ file_off' = IF wr.own THEN (file_off + wr.cnt) % U64 ELSE file_off
  /\ i_size' = IF file_off > i_size THEN file_off ELSE i_size
  /\ written' = [o \in 0..(FileBytes - 1) |->
                   IF o \in wr.off..(wr.off + wr.cnt - 1) THEN Token(calls, o)
                   ELSE written[o]]
  /\ pc' = "idle"
  /\ wr' = NoWrite
  /\ UNCHANGED <<calls, fault>>

EndWrite ==
  /\ pc = "write"
  /\ wr.page_nums = 0
  /\ tree' = [i \in FilePage |->
                LET k == i - (wr.off \div PageSize) + 1
                IN  IF k \in DOMAIN wr.fresh THEN wr.fresh[k] ELSE tree[i]]
  /\ LET end == (file_off + wr.cnt) % U64
     IN  /\ file_off' = IF wr.own THEN end ELSE file_off
         /\ i_size' = IF end > i_size THEN end ELSE i_size
  /\ written' = [o \in 0..(FileBytes - 1) |->
                   IF o \in wr.off..(wr.off + wr.cnt - 1) THEN Token(calls, o)
                   ELSE written[o]]
  /\ pc' = "idle"
  /\ wr' = NoWrite
  /\ UNCHANGED <<calls, fault>>

-----------------------------------------------------------------------------
(* nvmio_read: the sequence of bytes it copies, or -1.  A page that the    *)
(* B+tree does not have reads as zeros.                                    *)
MutantNextPage(start) == start

NextPage(start) == (start + 1) % (U64 \div PageSize)

ReadSize(total, offset) ==
  IF total < PageSize - offset THEN total ELSE PageSize - offset

Source(i) ==
  IF i \in FilePage /\ tree[i] # NoPage THEN tree[i] ELSE Blank(Zero)

Oversize(o, cnt) == (o + cnt) % U64 > i_size

ReadLocals == [total : Nat, start : Nat, offset : Byte]

Copied[r \in ReadLocals] ==
  IF r.total = 0 THEN <<>>
  ELSE LET n == ReadSize(r.total, r.offset)
       IN  [k \in 1..n |-> Source(r.start)[r.offset + k - 1]]
             \o Copied[[total |-> r.total - n, start |-> NextPage(r.start), offset |-> 0]]

NvmioRead(o, cnt) ==
  Copied[[total |-> cnt, start |-> o \div PageSize, offset |-> o % PageSize]]

(* atfsread moves the offset by cnt, whatever nvmio_read returns; atfspread *)
(* changes nothing.                                                        *)
AtfsRead ==
  /\ pc = "idle"
  /\ \E cnt \in Counts : file_off' = (file_off + cnt) % U64
  /\ UNCHANGED <<tree, i_size, pc, wr, written, calls, fault>>

(* atfslseek: off_t is signed, file_off is not.                            *)
AtfsLseek ==
  /\ pc = "idle"
  /\ \E base \in {0, file_off, i_size}, offset \in -1..1 :
       file_off' = (base + offset) % U64
  /\ UNCHANGED <<tree, i_size, pc, wr, written, calls, fault>>

Next ==
  \/ /\ fault = "none"
     /\ AtfsWrite \/ AtfsPwrite \/ WriteEntry \/ LeaveMapping \/ RunDry
        \/ EndWrite \/ AtfsRead \/ AtfsLseek
  \/ fault # "none" /\ UNCHANGED vars   \* nothing is claimed

Spec == Init /\ [][Next]_vars

-----------------------------------------------------------------------------
Value == {Zero, Junk} \cup {Token(w, o) : w \in 1..MaxCalls, o \in 0..(FileBytes - 1)}

(* Types.                                                                  *)
Locals == [off : Nat, cnt : Nat, own : BOOLEAN, page_nums : Nat, total : Nat,
           start : Nat, offset : Byte, buf : Nat, fresh : Seq([Byte -> Value])]

TypeOK ==
  /\ tree \in [FilePage -> {NoPage} \cup [Byte -> Value]]
  /\ i_size \in 0..(U64 - 1) /\ file_off \in 0..(U64 - 1)
  /\ pc \in {"idle", "write"}
  /\ wr \in Locals
  /\ written \in [0..(FileBytes - 1) -> Value]
  /\ calls \in 0..MaxCalls
  /\ fault \in {"none", "exhausted", "left_mapping"}

(* The loop of nvmio_write, unless it asks for more pages than there are:  *)
(* the pages behind it and before it are those of the call, none more, and *)
(* user_buf is where the next page begins.                                 *)
Wraps == wr.page_nums > NumFilePages

Divided ==
  LET n == Len(wr.fresh)
  IN  /\ calls > 0 /\ wr.off + wr.cnt <= FileBytes
      /\ wr.own => wr.off = file_off
      /\ wr.start = (wr.off \div PageSize) + n
      /\ wr.buf + wr.total = wr.cnt
      /\ wr.offset = IF n = 0 THEN wr.off % PageSize ELSE 0
      /\ n = 0 => wr.page_nums # 0
      /\ wr.page_nums = 0 => wr.total = 0
      /\ wr.page_nums # 0 => wr.off + wr.buf = PageSize * wr.start + wr.offset
      /\ wr.page_nums # 0 => n % MaxPerEntry = 0
      /\ ~Wraps =>
           /\ PageSize * (wr.start + wr.page_nums - 1) < wr.off + wr.cnt
           /\ wr.off + wr.cnt <= PageSize * (wr.start + wr.page_nums)

(* What the pages of the loop hold: the bytes of the call, before them     *)
(* those of the page they replace, and behind them what the copy from that *)
(* page brings, or junk where a turn of the loop has the last page for     *)
(* itself and copies nothing.  A call of no bytes fills nothing at all.    *)
End == wr.off + wr.cnt
Target == wr.off..(End - 1)

Holds(k, b, byte) ==
  LET i == (wr.off \div PageSize) + k - 1
      o == PageSize * i + b
      lone == (k - 1) % MaxPerEntry = 0
  IN  \/ wr.cnt = 0 /\ byte = Junk
      \/ o \in Target /\ byte = Token(calls, o)
      \/ wr.cnt # 0 /\ o < wr.off /\ byte = Old(i)[b]
      \/ o >= End /\ lone /\ byte = Junk
      \/ o >= End /\ ~lone /\ byte = Behind(i, End % PageSize, b)

Filled == \A k \in 1..Len(wr.fresh) : \A b \in Byte : Holds(k, b, wr.fresh[k][b])

IInv == TypeOK /\ (pc = "write" => Divided /\ Filled)

(* What a byte of the file reads as.                                       *)
View(o) == Source(o \div PageSize)[o % PageSize]

(* nvmio_read returns the bytes of the file, however the pages divide      *)
(* them, whenever it does not fail.  That takes in a read just below the   *)
(* end of a u64: its end wraps, passes the size test and comes from the    *)
(* start of the file.  A read has the mutex to itself.                     *)
ReadAgrees ==
  pc = "idle" =>
    \A o \in 0..FileBytes \cup (U64 - 2)..(U64 - 1), cnt \in 0..FileBytes :
      ~Oversize(o, cnt) =>
        NvmioRead(o, cnt) = [k \in 1..cnt |-> View((o + k - 1) % U64)]

(* When nvmio_write returns, every byte it was given reads back at its     *)
(* offset, across the entries and pages it is divided between.             *)
Ended == pc = "write" /\ pc' = "idle"

WriteLands == [][Ended => \A o \in Target : View(o)' = Token(calls, o)]_vars

(* ... and every byte before them and in other pages is as it was, but for *)
(* what surrounds them in a page the file did not have.  Of the bytes that *)
(* follow them in their last page nothing is said here: see below.         *)
PageOf(o) == o \div PageSize
FirstOf == PageOf(wr.off)
LastOf == PageOf(End - 1)

OutsideKept(o) == o \notin Target => View(o)' = View(o)
BehindLast(o) == PageOf(o) = LastOf /\ o > wr.off
InNewPage(o) == PageOf(o) \in FirstOf..LastOf /\ tree[PageOf(o)] = NoPage

NeighboursKept ==
  [][Ended /\ wr.cnt > 0 =>
       \A o \in 0..(FileBytes - 1) : BehindLast(o) \/ InNewPage(o) \/ OutsideKept(o)]_vars

(* "fill first and last page" (nvmio.c:313): the bytes that follow those   *)
(* of the call in its last page are those of the page it replaces.  They   *)
(* are copied from the wrong place, and not at all where the last turn of  *)
(* the loop has one page.                                                  *)
LastPageFilled ==
  [][Ended /\ wr.cnt > 0 =>
       \A o \in 0..(FileBytes - 1) : BehindLast(o) => InNewPage(o) \/ OutsideKept(o)]_vars

(* i_size is the size of the data (inode.h:17).  It reaches to every byte  *)
(* that has been written, but for those of a pwrite whose end the file     *)
(* offset, which the call extends the size by, does not come to.           *)
Covered(o) == written[o] # Zero => o < i_size

SizeShortOnlyByPwrite ==
  [][\A o \in 0..(FileBytes - 1) :
       Covered(o) /\ ~Covered(o)' =>
         /\ Ended /\ ~wr.own /\ o \in Target
         /\ wr.off > file_off \/ file_off + wr.cnt >= U64]_vars
=============================================================================
