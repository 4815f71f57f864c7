---------------------------- MODULE FileLogSteps ----------------------------
(***************************************************************************)
(* What a step of nvmio_write or start_gc_task never does to the logs: as  *)
(* long as the marks, the counters and the back pointers are exact, work   *)
(* on one file leaves the other logs alone, nothing is damaged, and the    *)
(* marks and the counters stay exact.                                      *)
(***************************************************************************)
EXTENDS FileLogProofs

(* The logs in terms of their chains and of the addresses of their entries.*)
LEMMA LogIs ==
  ASSUME TypeOK, NEW c, NEW L, Sound(c, L), NEW f \in File
  PROVE  /\ LogPages(f) = Range(c[f]) /\ Addresses(f) = L[f] /\ L[f] = Places(c[f], tail[f])
         /\ c[f] \in Seq(Page) /\ Range(c[f]) \subseteq Page
         /\ Chained(head[f], tail[f].page, next, c[f])
  <1>1. /\ c[f] \in Seq(Page) /\ Chained(head[f], tail[f].page, next, c[f])
        /\ L[f] = Places(c[f], tail[f])
    BY DEF Sound, Lines
  <1>2. LogPages(f) = Range(c[f]) /\ Addresses(f) = Places(c[f], tail[f])
    BY <1>1, LogIsChain
  <1>3. Range(c[f]) \subseteq Page
    BY <1>1 DEF Range
  <1> QED
    BY <1>1, <1>2, <1>3

-----------------------------------------------------------------------------
(* The log of a file stays as it is when its ends, its links and its       *)
(* entries do.                                                             *)
LEMMA LogKept ==
  ASSUME TypeOK, TypeOK', NEW c, NEW L, Sound(c, L), NEW f \in File,
         head'[f] = head[f], tail'[f] = tail[f],
         \A q \in Range(c[f]) : next'[q] = next[q],
         \A q \in Range(c[f]) : memory'[q] = memory[q]
  PROVE  Log(f)' = Log(f)
  <1>1. PICK s, t, h : s = c[f] /\ t = tail[f] /\ h = head[f]
    OBVIOUS
  <1>2. /\ s \in Seq(Page) /\ Chained(h, t.page, next, s) /\ Addresses(f) = Places(s, t)
        /\ LogPages(f) = Range(s)
    BY <1>1, LogIs
  <1>3. Chained(h, t.page, next', s)
    BY <1>1, <1>2, SameChain
  <1>4. next' \in [Page -> Page \cup {NoPage}]
    BY DEF TypeOK
  <1>5. Reached(h, t.page, next') = Range(s)
    BY <1>2, <1>3, <1>4, ReachedChain
  <1>6. LogPages(f)' = Range(s)
    BY <1>1, <1>5 DEF LogPages
  <1>7. Addresses(f)' = Addresses(f)
    BY <1>1, <1>2, <1>6 DEF Addresses, NumEntries
  <1>8. \A a \in Addresses(f) : a.page \in Range(s)
    BY <1>2 DEF Addresses
  <1>9. \A a \in Addresses(f) : Entry(a)' = Entry(a)
    BY <1>1, <1>8 DEF Entry
  <1> QED
    BY <1>7, <1>9 DEF Log

(* Within a write, the back pointer of a page that the B+tree names leads  *)
(* to the entry of the log that names it, when back pointers are right.    *)
LEMMA PointsBack ==
  ASSUME TypeOK, NEW c, NEW L, Sound(c, L), OriginsRight, pc = "write",
         NEW i \in FilePage, index[file][i] # NoPage
  PROVE  /\ origin[index[file][i]] \in L[file]
         /\ LET a == origin[index[file][i]]
            IN  Names(memory[a.page][a.slot], i, index[file][i])
  <1>1. file \in File /\ runs = <<>> /\ scan.dead = {} /\ DOMAIN <<>> = {}
    BY TypeFacts DEF Sound, CallShape
  <1>2. PICK a \in L[file] : Names(memory[a.page][a.slot], i, index[file][i])
    BY <1>1 DEF Sound, IndexIn
  <1>3. PICK k \in 1..Len(memory[a.page][a.slot].data) :
          memory[a.page][a.slot].data[k] = index[file][i]
    BY <1>2 DEF Names
  <1>4. a \in Addresses(file)
    BY <1>1, LogIs
  <1>5. Current(index[file][i])
    BY <1>1 DEF Current, Indexed
  <1>6. origin[index[file][i]] = a
    BY <1>1, <1>3, <1>4, <1>5 DEF OriginsRight, Entry
  <1> QED
    BY <1>2, <1>6

(* What an append changes of the logs: the page of the tail or a free one. *)
LEMMA AppendKeeps ==
  ASSUME TypeOK, NEW c, NEW L, Sound(c, L), head[file] # NoPage,
         NEW lp, lp \in NewLogPage(file, free), NEW e, AppendEntry(file, e, lp),
         NEW f \in File, f # file
  PROVE  /\ tail'[f] = tail[f]
         /\ \A q \in Range(c[f]) : next'[q] = next[q] /\ memory'[q] = memory[q]
  <1>1. PICK a, t : a = Target(file, lp) /\ t = tail[file].page
    OBVIOUS
  <1>2. /\ t \in Range(c[file]) /\ Range(c[f]) \cap Range(c[file]) = {}
        /\ Range(c[f]) \subseteq Page /\ file \in File /\ a.page \in Page
        /\ Full(file) => lp \notin Range(c[f]) /\ a = [page |-> lp, slot |-> 0]
        /\ ~Full(file) => a = tail[file]
    BY <1>1, TargetIs, LogIs, TypeFacts DEF Sound, Lines
  <1>3. t \notin Range(c[f]) /\ a.page \notin Range(c[f])
    BY <1>1, <1>2
  <1>4. /\ next' = IF Full(file) THEN [next EXCEPT ![t] = lp, ![lp] = NoPage] ELSE next
        /\ memory' = [AsLogPage(a.page) EXCEPT ![a.page][a.slot] = e]
        /\ tail' = [tail EXCEPT ![file] = [page |-> a.page, slot |-> a.slot + 1]]
    BY <1>1 DEF AppendEntry
  <1>5. /\ next \in [Page -> Page \cup {NoPage}] /\ DOMAIN tail = File
        /\ AsLogPage(a.page) \in [Page -> [0..(Slots - 1) -> LogEntry]]
        /\ \A q \in Page : q # a.page => AsLogPage(a.page)[q] = memory[q]
    BY <1>2, LogPageMade DEF TypeOK
  <1>6. \A q \in Range(c[f]) : next'[q] = next[q]
    BY <1>2, <1>3, <1>4, <1>5
  <1>7. \A q \in Range(c[f]) : memory'[q] = memory[q]
    BY <1>2, <1>3, <1>4, <1>5
  <1> QED
    BY <1>4, <1>5, <1>6, <1>7

(* The thread that writes or collects has a log to work on.                *)
LEMMA LogOpen ==
  ASSUME TypeOK, NEW c, NEW L, Sound(c, L), pc # "idle"
  PROVE  head[file] # NoPage
  <1>1. pc \in {"write", "scan", "move"} /\ file \in File
    BY TypeFacts DEF TypeOK
  <1>2. CASE pc = "write"
    BY <1>2 DEF Sound, CallShape
  <1>3. CASE pc \in {"scan", "move"}
    <2>1. PICK s : s = c[file]
      OBVIOUS
    <2>2. s # <<>>
      <3>1. Scanning(s)
        BY <1>3, <2>1 DEF Sound, Walks
      <3>2. Len(<<>>) = 0 /\ 1..0 = {}
        OBVIOUS
      <3> QED
        BY <3>1, <3>2 DEF Scanning
    <2> QED
      BY <1>1, <2>1, <2>2, LogIs, ChainEnds
  <1> QED
    BY <1>1, <1>2, <1>3
LEMMA LogsApartStep ==
  ASSUME IInv, IInv', Exact, [Next]_vars,
         NEW f \in File \ {file'}, head[f] = head'[f]
  PROVE  Log(f)' = Log(f)
  <1>1. CASE UNCHANGED vars
    BY <1>1 DEF vars, pool, inodes, Log, Addresses, LogPages, NumEntries, Entry
  <1>2. CASE fault = "none" /\ ~UNCHANGED vars
    <2>1. TypeOK /\ TypeOK' /\ OriginsRight /\ \E c, L : Sound(c, L)
      BY <1>2, Unfold DEF IInv, Exact
    <2>2. PICK c, L : Sound(c, L)
      BY <2>1
    <2>3. /\ f \in File /\ file \in File /\ Range(c[f]) \subseteq Page
          /\ Range(c[f]) \cap (free \cup isData) = {}
      BY <2>1, <2>2, LogIs, TypeFacts DEF Sound, Clear
    <2>4. SUFFICES /\ tail'[f] = tail[f]
                   /\ \A q \in Range(c[f]) : next'[q] = next[q]
                   /\ \A q \in Range(c[f]) : memory'[q] = memory[q]
      BY <2>1, <2>2, <2>3, LogKept
    <2>5. ASSUME NEW g \in File, Create(g)
          PROVE  /\ tail'[f] = tail[f]
                 /\ \A q \in Range(c[f]) : next'[q] = next[q] /\ memory'[q] = memory[q]
      <3>1. PICK p \in free : /\ next' = [next EXCEPT ![p] = NoPage] /\ memory' = AsLogPage(p)
                              /\ head' = [head EXCEPT ![g] = p]
                              /\ tail' = [tail EXCEPT ![g] = [page |-> p, slot |-> 0]]
                              /\ head[g] = NoPage
        BY <2>5 DEF Create
      <3>2. p \in Page /\ p # NoPage /\ p \notin Range(c[f]) /\ DOMAIN head = File /\ DOMAIN tail = File
        BY <2>1, <2>3, PagesCounted DEF TypeOK
      <3>3. f # g
        BY <2>3, <3>1, <3>2
      <3>4. \A q \in Page : q # p => AsLogPage(p)[q] = memory[q]
        BY <2>1, <3>2, LogPageMade
      <3>5. next \in [Page -> Page \cup {NoPage}]
        BY <2>1 DEF TypeOK
      <3> QED
        BY <2>3, <3>1, <3>2, <3>3, <3>4, <3>5
    <2>6. CASE WriteEntry
      <3>1. PICK data, lp, e : lp \in NewLogPage(file, free) /\ AppendEntry(file, e, lp)
        BY <2>6 DEF WriteEntry
      <3>2. file' = file /\ pc = "write"
        BY <2>6 DEF WriteEntry
      <3>3. head[file] # NoPage
        BY <2>1, <2>2, <3>2, LogOpen
      <3> QED
        BY <2>1, <2>2, <2>3, <3>1, <3>2, <3>3, AppendKeeps
    <2>7. CASE MoveRun
      <3>1. PICK lp : lp \in NewLogPage(file, free) /\ AppendEntry(file, Head(runs), lp)
        BY <2>7 DEF MoveRun
      <3>2. file' = file /\ pc = "move"
        BY <2>7 DEF MoveRun
      <3>3. head[file] # NoPage
        BY <2>1, <2>2, <3>2, LogOpen
      <3> QED
        BY <2>1, <2>2, <2>3, <3>1, <3>2, <3>3, AppendKeeps
    <2>8. CASE IndexPage
      <3>1. /\ file' = file /\ pc = "write" /\ tail' = tail /\ next' = next
            /\ fresh # <<>> /\ fresh \in Seq(FilePage \X Page)
        BY <2>1, <2>8 DEF IndexPage, TypeOK
      <3>2. PICK i, old : i = Head(fresh)[1] /\ old = index[file][i]
        OBVIOUS
      <3>3. i \in FilePage
        BY <3>1, <3>2
      <3>4. CASE memory' = memory
        BY <3>1, <3>4
      <3>5. CASE old # NoPage /\ Invalidate(origin[old], i)
        <4>1. PICK a : a = origin[old]
          OBVIOUS
        <4>2. a \in L[file]
          BY <2>1, <2>2, <3>1, <3>2, <3>3, <3>5, <4>1, PointsBack
        <4>3. a.page \notin Range(c[f])
          <5>1. a.page \in Range(c[file]) /\ f # file
            BY <2>2, <2>3, <3>1, <4>2, PlacesIn
          <5> QED
            BY <2>2, <2>3, <5>1 DEF Sound, Lines
        <4>4. \E new : memory' = [memory EXCEPT ![a.page][a.slot] = new]
          BY <3>5, <4>1 DEF Invalidate
        <4>5. DOMAIN memory = Page
          BY <2>1, TypeFacts
        <4> QED
          BY <2>3, <3>1, <4>3, <4>4, <4>5
      <3> QED
        BY <2>8, <3>2, <3>4, <3>5 DEF IndexPage, MarkOld, MarkData, MarkSuperblock
    <2>9. CASE TakePage
      <3>1. /\ pc = "scan" /\ file' = file /\ tail' = tail /\ memory' = memory /\ Unlink
            /\ scan.at # scan.stop
        BY <2>9 DEF TakePage
      <3>2. PICK s : s = c[file]
        OBVIOUS
      <3>3. s \in Seq(Page) /\ Range(s) \cap Range(c[f]) = {} /\ Scanning(s)
            /\ Chained(head[file], tail[file].page, next, s)
        BY <2>1, <2>2, <2>3, <3>1, <3>2, LogIs DEF Sound, Lines, Walks
      <3>4. PICK k \in 1..Len(s) : scan.at = s[k] /\ (k > 1 => scan.prev = s[k - 1])
        BY <3>3 DEF Scanning
      <3>5. scan.at \in Range(s) /\ (scan.at # head[file] => scan.prev \in Range(s))
        <4>1. Len(s) \in Nat /\ DOMAIN s = 1..Len(s) /\ s # <<>> => head[file] = s[1]
          BY <3>3, ChainEnds
        <4>2. s # <<>>
          <5>1. Len(<<>>) = 0 /\ 1..0 = {}
            OBVIOUS
          <5> QED
            BY <3>4, <5>1
        <4>3. scan.at # head[file] => k # 1
          BY <3>4, <4>1, <4>2
        <4>4. k # 1 => k > 1 /\ k - 1 \in 1..Len(s)
          BY <3>3
        <4> QED
          BY <3>4, <4>1, <4>3, <4>4 DEF Range
      <3>6. next \in [Page -> Page \cup {NoPage}]
        BY <2>1 DEF TypeOK
      <3>7. \A q \in Range(c[f]) : q # scan.at /\ (scan.at # head[file] => q # scan.prev)
        BY <3>3, <3>5
      <3>8. \A q \in Range(c[f]) : next'[q] = next[q]
        BY <2>3, <3>1, <3>6, <3>7 DEF Unlink
      <3> QED
        BY <3>1, <3>8
    <2>10. CASE \E g \in File : BeginWrite(g)
      BY <2>10 DEF BeginWrite, pool, inodes
    <2>11. CASE \E g \in File : BeginScan(g)
      BY <2>11 DEF BeginScan, pool, inodes
    <2>12. CASE EndWrite \/ SkipPage \/ EndScan \/ RunDry
      BY <2>12 DEF EndWrite, SkipPage, EndScan, RunDry, pool, inodes
    <2>13. CASE FreeBlock
      BY <2>13 DEF FreeBlock, inodes
    <2> QED
      BY <1>2, <2>5, <2>6, <2>7, <2>8, <2>9, <2>10, <2>11, <2>12, <2>13 DEF Next
  <1> QED
    BY <1>1, <1>2 DEF Next

(* As long as the marks, counters and back pointers are right, a write to  *)
(* a file or the collection of its log leaves the entries of every other   *)
(* file alone, whatever pages have passed between them by the pool.        *)
THEOREM FilesApart == Spec => FilesKeepApart
  <1>1. ASSUME IInv, IInv', [Next]_vars
        PROVE  [Exact => \A f \in File \ {file'} : head[f] = head'[f] => Log(f)' = Log(f)]_vars
    BY <1>1, LogsApartStep
  <1> QED
    BY <1>1, Safety, PTL DEF Spec, FilesKeepApart
-----------------------------------------------------------------------------
(* The sums that the counters of a log page hold.                          *)
Sums(n, size, g) ==
  /\ g \in [0..n -> Nat] /\ g[0] = 0
  /\ \A s \in 1..n : g[s] = g[s - 1] + size[s - 1]

LEMMA SumValues ==
  ASSUME NEW n \in Nat, NEW size \in [0..(n - 1) -> Nat]
  PROVE  \E g : Sums(n, size, g) /\ SumUpTo(n, size) = g[n]
  <1> DEFINE Rec(f) == f = [s \in 0..n |-> IF s = 0 THEN 0 ELSE f[s - 1] + size[s - 1]]
  <1>1. \A s \in 1..n : s \in Nat /\ s # 0 /\ s - 1 \in 0..(n - 1) /\ s - 1 \in 0..n /\ s \in 0..n
    OBVIOUS
  <1>2. PICK g \in [0..n -> Nat] : g[0] = 0 /\ \A s \in 1..n : g[s] = g[s - 1] + size[s - 1]
    <2> DEFINE step == [s \in Nat |-> [x \in Nat |-> IF s \in 1..n THEN x + size[s - 1] ELSE x]]
    <2>1. step \in [Nat -> [Nat -> Nat]]
      <3>1. \A s \in 1..n : size[s - 1] \in Nat
        BY <1>1
      <3> QED
        BY <3>1
    <2>2. PICK g : Recursion(Nat, 0, step, n, g)
      <3> HIDE DEF step
      <3> QED
        BY <2>1, PrimitiveRecursion
    <2>3. ASSUME NEW s \in 1..n PROVE g[s] = g[s - 1] + size[s - 1]
      <3>1. g[s - 1] \in Nat /\ g[s] = step[s][g[s - 1]]
        BY <1>1, <2>2 DEF Recursion
      <3> QED
        BY <1>1, <3>1
    <2> QED
      BY <2>2, <2>3 DEF Recursion
  <1>3. Rec(g)
    <2>1. ASSUME NEW s \in 0..n PROVE g[s] = IF s = 0 THEN 0 ELSE g[s - 1] + size[s - 1]
      <3>1. s # 0 => s \in 1..n
        OBVIOUS
      <3> QED
        BY <1>2, <3>1
    <2> QED
      BY <1>2, <2>1
  <1> DEFINE sum == CHOOSE f : Rec(f)
  <1>4. Rec(sum)
    <2> HIDE DEF Rec
    <2> QED
      BY <1>3
  <1>5. SumUpTo(n, size) = sum[n]
    BY DEF SumUpTo
  <1>6. /\ sum[0] = 0 /\ \A s \in 1..n : sum[s] = sum[s - 1] + size[s - 1]
        /\ DOMAIN sum = 0..n
    <2> HIDE DEF sum
    <2>1. \A s \in 0..n : sum[s] = IF s = 0 THEN 0 ELSE sum[s - 1] + size[s - 1]
      BY <1>4
    <2>2. 0 \in 0..n
      OBVIOUS
    <2>3. DOMAIN sum = 0..n
      BY <1>4
    <2> QED
      BY <1>1, <2>1, <2>2, <2>3
  <1> HIDE DEF sum
  <1>7. ASSUME NEW s \in Nat PROVE s <= n => sum[s] = g[s]
    <2> DEFINE S == {k \in Nat : k <= n => sum[k] = g[k]}
    <2>1. 0 \in S
      BY <1>2, <1>6
    <2>2. ASSUME NEW k \in S PROVE k + 1 \in S
      <3>1. k \in Nat /\ (k + 1 <= n => k + 1 \in 1..n /\ (k + 1) - 1 = k /\ k <= n)
        OBVIOUS
      <3> QED
        BY <1>2, <1>6, <3>1
    <2>3. S = Nat
      <3> HIDE DEF S
      <3>1. S \in SUBSET Nat
        BY DEF S
      <3> QED
        BY <2>1, <2>2, <3>1, SetInduction
    <2> QED
      BY <2>3
  <1>8. sum[n] = g[n]
    BY <1>7
  <1> QED
    BY <1>2, <1>5, <1>8 DEF Sums

(* Up to j, other is size, but for x more at k.                            *)
Bumped(j, size, other, k, x) ==
  /\ k \in Nat /\ x \in Nat
  /\ \A s \in 0..(j - 1) : /\ size[s] \in Nat /\ other[s] \in Nat
                           /\ other[s] = size[s] + IF s = k THEN x ELSE 0

SumsOfBoth(n, m, j, size, other, g, h) ==
  j <= n /\ j <= m /\ Sums(n, size, g) /\ Sums(m, other, h)

LEMMA SumsDiffer ==
  ASSUME NEW n \in Nat, NEW m \in Nat, NEW j \in Nat, NEW size, NEW other, NEW g, NEW h,
         SumsOfBoth(n, m, j, size, other, g, h), NEW k, NEW x, Bumped(j, size, other, k, x)
  PROVE  h[j] = g[j] + IF k < j THEN x ELSE 0
  <1>0. /\ j <= n /\ j <= m /\ Sums(n, size, g) /\ Sums(m, other, h)
        /\ k \in Nat /\ x \in Nat
        /\ \A s \in 0..(j - 1) : /\ size[s] \in Nat
                                 /\ other[s] = size[s] + IF s = k THEN x ELSE 0
    BY DEF SumsOfBoth, Bumped
  <1> USE <1>0
  <1> DEFINE S == {i \in Nat : i <= j => h[i] = g[i] + IF k < i THEN x ELSE 0}
  <1>1. 0 \in S
    <2>1. h[0] = 0 /\ g[0] = 0 /\ ~(k < 0)
      BY DEF Sums
    <2> QED
      BY <2>1
  <1>2. ASSUME NEW i \in S PROVE i + 1 \in S
    <2> SUFFICES ASSUME i + 1 <= j PROVE h[i + 1] = g[i + 1] + IF k < i + 1 THEN x ELSE 0
      OBVIOUS
    <2>1. /\ i \in Nat /\ i <= j /\ i + 1 \in 1..n /\ i + 1 \in 1..m /\ (i + 1) - 1 = i
          /\ i \in 0..(j - 1) /\ i \in 0..n /\ i \in 0..m
      OBVIOUS
    <2>2. h[i + 1] = h[i] + other[i] /\ g[i + 1] = g[i] + size[i] /\ h[i] \in Nat /\ g[i] \in Nat
      BY <2>1 DEF Sums
    <2>3. h[i] = g[i] + IF k < i THEN x ELSE 0
      BY <2>1
    <2>4. other[i] = size[i] + (IF i = k THEN x ELSE 0) /\ size[i] \in Nat
      BY <2>1
    <2>5. CASE k < i
      BY <2>1, <2>2, <2>3, <2>4, <2>5
    <2>6. CASE k = i
      BY <2>1, <2>2, <2>3, <2>4, <2>6
    <2>7. CASE k > i
      BY <2>1, <2>2, <2>3, <2>4, <2>7
    <2> QED
      BY <2>1, <2>5, <2>6, <2>7
  <1>3. S = Nat
    <2> HIDE DEF S
    <2>1. S \in SUBSET Nat
      BY DEF S
    <2> QED
      BY <1>1, <1>2, <2>1, SetInduction
  <1> QED
    BY <1>3

LEMMA SumBumped ==
  ASSUME NEW n \in Nat, NEW size \in [0..(n - 1) -> Nat], NEW other \in [0..(n - 1) -> Nat],
         NEW k, NEW x, Bumped(n, size, other, k, x)
  PROVE  /\ SumUpTo(n, size) \in Nat
         /\ SumUpTo(n, other) = SumUpTo(n, size) + IF k < n THEN x ELSE 0
  <1>1. PICK g : Sums(n, size, g) /\ SumUpTo(n, size) = g[n]
    BY SumValues
  <1>2. PICK h : Sums(n, other, h) /\ SumUpTo(n, other) = h[n]
    BY SumValues
  <1>3. g[n] \in Nat
    BY <1>1 DEF Sums
  <1>4. SumsOfBoth(n, n, n, size, other, g, h)
    BY <1>1, <1>2 DEF SumsOfBoth
  <1>5. h[n] = g[n] + IF k < n THEN x ELSE 0
    BY <1>4, SumsDiffer
  <1> QED
    BY <1>1, <1>2, <1>3, <1>5

LEMMA SumExtended ==
  ASSUME NEW n \in Nat, NEW size \in [0..(n - 1) -> Nat], NEW other \in [0..n -> Nat],
         \A s \in 0..(n - 1) : other[s] = size[s]
  PROVE  SumUpTo(n + 1, other) = SumUpTo(n, size) + other[n]
  <1>1. PICK g : Sums(n, size, g) /\ SumUpTo(n, size) = g[n]
    BY SumValues
  <1>2. PICK h : Sums(n + 1, other, h) /\ SumUpTo(n + 1, other) = h[n + 1]
    <2>1. n + 1 \in Nat /\ 0..((n + 1) - 1) = 0..n
      OBVIOUS
    <2> QED
      BY <2>1, SumValues
  <1>3. h[n + 1] = h[n] + other[n]
    <2>1. n + 1 \in 1..(n + 1) /\ (n + 1) - 1 = n
      OBVIOUS
    <2> QED
      BY <1>2, <2>1 DEF Sums
  <1>4. Bumped(n, size, other, n, 0)
    <2>1. ASSUME NEW s \in 0..(n - 1)
          PROVE  size[s] \in Nat /\ other[s] \in Nat /\ other[s] = size[s] + IF s = n THEN 0 ELSE 0
      OBVIOUS
    <2> QED
      BY <2>1 DEF Bumped
  <1>5. SumsOfBoth(n, n + 1, n, size, other, g, h) /\ n + 1 \in Nat
    BY <1>1, <1>2 DEF SumsOfBoth
  <1>6. h[n] = g[n] + IF n < n THEN 0 ELSE 0
    BY <1>4, <1>5, SumsDiffer
  <1>7. g[n] \in Nat
    BY <1>1 DEF Sums
  <1> QED
    BY <1>1, <1>2, <1>3, <1>6, <1>7

LEMMA SumOfNothing ==
  ASSUME NEW n \in Nat, NEW size \in [0..(n - 1) -> Nat], \A s \in 0..(n - 1) : size[s] = 0
  PROVE  SumUpTo(n, size) = 0
  <1>1. PICK g : Sums(n, size, g) /\ SumUpTo(n, size) = g[n]
    BY SumValues
  <1> DEFINE S == {i \in Nat : i <= n => g[i] = 0}
  <1>2. 0 \in S
    BY <1>1 DEF Sums
  <1>3. ASSUME NEW i \in S PROVE i + 1 \in S
    <2>1. i \in Nat /\ (i + 1 <= n => i + 1 \in 1..n /\ (i + 1) - 1 = i /\ i \in 0..(n - 1) /\ i <= n)
      OBVIOUS
    <2> QED
      BY <1>1, <2>1 DEF Sums
  <1>4. S = Nat
    <2> HIDE DEF S
    <2>1. S \in SUBSET Nat
      BY DEF S
    <2> QED
      BY <1>2, <1>3, <2>1, SetInduction
  <1> QED
    BY <1>1, <1>4
-----------------------------------------------------------------------------
(* The page that a collection takes, when counters are exact: it is full,  *)
(* it is not the page of the tail, and all its entries are read.           *)
Taken(c, L, p, e) ==
  /\ p \in Range(c[file]) /\ p \in Page /\ p # tail[file].page /\ p = scan.at
  /\ node[p].obj = Slots /\ WorthCollecting(p) /\ PageCountersExact(p, Slots)
  /\ e \in [1..Slots -> LogEntry]
  /\ \A j \in 1..Slots : e[j] = memory[p][j - 1] /\ [page |-> p, slot |-> j - 1] \in L[file]
  /\ pc = "scan" /\ pc' = "move" /\ fault' = fault
  /\ \E d : /\ d \in [File -> Seq(Page)]
            /\ \A f \in File : Chained(head'[f], tail[f].page, next', d[f])
            /\ \A f \in File : Range(d[f]) = Range(c[f]) \ {p}
  /\ scan'.dead = AllInvalid(e) /\ runs' = AllRuns(e)
  /\ UNCHANGED <<free, node, origin, isData, memory, tail, index, file, left, fresh>>

LEMMA TakesPage ==
  ASSUME TypeOK, NEW c, NEW L, Sound(c, L), CountersExact, fault = "none", TakePage
  PROVE  \E p, e : Taken(c, L, p, e)
  <1>1. /\ pc = "scan" /\ scan.at # scan.stop /\ pc' = "move" /\ Unlink /\ WorthCollecting(scan.at)
        /\ UNCHANGED <<free, node, origin, isData, memory, tail, index, file, left, fresh, writes>>
    BY DEF TakePage
  <1>2. PICK s, t : s = c[file] /\ t = tail[file].page
    OBVIOUS
  <1>3. /\ file \in File /\ s \in Seq(Page) /\ Chained(head[file], t, next, s)
        /\ Scanning(s) /\ LogPages(file) = Range(s) /\ L[file] = Places(s, tail[file])
        /\ Len(s) \in Nat
    <2>1. file \in File
      BY TypeFacts
    <2>2. c[file] \in Seq(Page) /\ Chained(head[file], tail[file].page, next, c[file])
          /\ LogPages(file) = Range(c[file]) /\ L[file] = Places(c[file], tail[file])
      BY <2>1, LogIs
    <2>3. Scanning(c[file])
      BY <1>1 DEF Sound, Walks
    <2> QED
      BY <1>2, <2>1, <2>2, <2>3
  <1>4. PICK k \in 1..Len(s) : /\ scan.at = s[k] /\ (k > 1 => scan.prev = s[k - 1])
                               /\ \E m \in k..Len(s) : scan.stop = s[m]
    BY <1>3 DEF Scanning
  <1>5. PICK p : p = s[k]
    OBVIOUS
  <1>6. /\ p \in Page /\ p \in Range(s) /\ scan.at = p
        /\ \A i, j \in 1..Len(s) : s[i] = s[j] => i = j
        /\ s # <<>> => t = s[Len(s)] /\ Len(s) \in 1..Len(s)
    BY <1>3, <1>4, <1>5, ChainEnds, ChainSize
  <1>7. k < Len(s) /\ p # t
    <2>1. k < Len(s)
      <3>1. PICK m \in k..Len(s) : scan.stop = s[m]
        BY <1>4
      <3>2. k # m
        BY <1>1, <1>4, <3>1
      <3> QED
        BY <1>3, <3>1, <3>2
    <2>2. s # <<>>
      <3>1. Len(<<>>) = 0 /\ 1..0 = {}
        OBVIOUS
      <3> QED
        BY <1>4, <3>1
    <2> QED
      BY <1>5, <1>6, <2>1, <2>2
  <1>8. PageCountersExact(p, Slots) /\ node[p].obj = Slots
    <2>1. PageCountersExact(p, NumEntries(file, p)) /\ NumEntries(file, p) = Slots
      BY <1>2, <1>3, <1>6, <1>7 DEF CountersExact, NumEntries
    <2> QED
      BY <2>1 DEF PageCountersExact
  <1>9. PICK n : n = IF node[p].obj > Slots THEN Slots ELSE node[p].obj
    OBVIOUS
  <1>10. n = Slots /\ ~(node[p].obj > Slots)
    BY <1>8, <1>9, PagesCounted
  <1>11. PICK e : e = [j \in 1..n |-> memory[p][j - 1]]
    OBVIOUS
  <1>12. /\ e \in [1..Slots -> LogEntry]
         /\ \A j \in 1..Slots : e[j] = memory[p][j - 1] /\ j - 1 \in 0..(Slots - 1)
    <2>1. \A j \in 1..Slots : j - 1 \in 0..(Slots - 1)
      BY PagesCounted
    <2>2. \A j \in 1..Slots : memory[p][j - 1] \in LogEntry
      BY <1>6, <2>1, TypeFacts
    <2> QED
      BY <1>10, <1>11, <2>1, <2>2
  <1>13. /\ scan' = [scan EXCEPT !.at = next[p], !.block = p, !.dead = AllInvalid(e)]
         /\ runs' = AllRuns(e)
         /\ fault' = IF node[p].obj > Slots THEN "entries_overrun" ELSE fault
    BY <1>6, <1>9, <1>11 DEF TakePage, AllInvalid, AllRuns
  <1>14. scan'.dead = AllInvalid(e)
    <2>1. scan \in [at : Page \cup {NoPage}, prev : Page \cup {NoPage}, stop : Page \cup {NoPage},
                    block : Page \cup {NoPage}, dead : SUBSET Page]
      BY DEF TypeOK
    <2> QED
      BY <1>13, <2>1
  <1>15. \A j \in 1..Slots : [page |-> p, slot |-> j - 1] \in L[file]
    <2> SUFFICES ASSUME NEW j \in 1..Slots PROVE [page |-> p, slot |-> j - 1] \in Places(s, tail[file])
      BY <1>3
    <2>1. j - 1 \in 0..(Slots - 1) /\ j - 1 < Slots
      BY PagesCounted
    <2>2. [page |-> p, slot |-> j - 1] \in [page : Range(s), slot : 0..(Slots - 1)]
      BY <1>6, <2>1
    <2> QED
      BY <1>2, <1>7, <2>1, <2>2 DEF Places
  <1>16. PICK d : Unlinked(c, k, d)
    <2>1. k \in Nat /\ k >= 1 /\ k < Len(s)
      BY <1>3, <1>7
    <2> QED
      BY <1>1, <1>2, <1>4, <2>1, PageUnlinked
  <1>17. Taken(c, L, p, e)
    BY <1>1, <1>2, <1>6, <1>7, <1>8, <1>10, <1>12, <1>13, <1>14, <1>15, <1>16 DEF Taken, Unlinked
  <1> QED
    BY <1>17

(* The marks of an entry, and the pages that they make a collection free.  *)
LEMMA Unmarked ==
  ASSUME NEW e \in LogEntry, e.bitmap = Superseded(e)
  PROVE  /\ \A q \in InvalidPages(e) : q \in Range(e.data) /\ ~Current(q)
         /\ InvalidPages(e) = {} => e.bitmap = {}
  <1>1. Len(e.data) \in Nat /\ DOMAIN e.data = 1..Len(e.data)
    BY EntryType
  <1>2. ASSUME NEW q \in InvalidPages(e) PROVE q \in Range(e.data) /\ ~Current(q)
    <2>1. PICK k \in 0..(Len(e.data) - 1) : k \in e.bitmap /\ q = e.data[k + 1]
      BY DEF InvalidPages, Valid
    <2>2. k + 1 \in 1..Len(e.data)
      BY <1>1
    <2>3. q \in Range(e.data)
      BY <1>1, <2>1, <2>2 DEF Range
    <2>4. ~Current(q)
      BY <2>1 DEF Superseded
    <2> QED
      BY <2>3, <2>4
  <1>3. ASSUME NEW k \in e.bitmap PROVE e.data[k + 1] \in InvalidPages(e)
    <2>1. k \in 0..(Len(e.data) - 1)
      BY DEF Superseded
    <2> QED
      BY <1>3, <2>1 DEF InvalidPages, Valid
  <1> QED
    BY <1>2, <1>3

(* A page that is worth collecting marks a page of file data.              *)
LEMMA FindsGarbage ==
  ASSUME TypeOK, NEW c, NEW L, Sound(c, L), NEW p, NEW e, Taken(c, L, p, e),
         \A j \in 1..Slots : ExactlyMarked(e[j])
  PROVE  AllInvalid(e) # {}
  <1> SUFFICES ASSUME AllInvalid(e) = {} PROVE FALSE
    OBVIOUS
  <1>1. /\ p \in Page /\ node[p].obj = Slots /\ WorthCollecting(p) /\ PageCountersExact(p, Slots)
        /\ e \in [1..Slots -> LogEntry] /\ DOMAIN e = 1..Slots
        /\ \A j \in 1..Slots : e[j] = memory[p][j - 1] /\ [page |-> p, slot |-> j - 1] \in L[file]
    BY DEF Taken
  <1>2. ASSUME NEW s \in 0..(Slots - 1)
        PROVE  memory[p][s].invalid = 0 /\ Len(memory[p][s].data) # 0
    <2>1. s + 1 \in 1..Slots /\ (s + 1) - 1 = s
      BY PagesCounted
    <2>2. PICK x : x = e[s + 1]
      OBVIOUS
    <2>3. x \in LogEntry /\ x = memory[p][s] /\ ExactlyMarked(x) /\ InvalidPages(x) = {}
      <3>1. x \in LogEntry /\ ExactlyMarked(x)
        BY <1>1, <2>1, <2>2
      <3>2. x = memory[p][s]
        BY <1>1, <2>1, <2>2
      <3>3. s + 1 \in DOMAIN e
        BY <1>1, <2>1
      <3>4. InvalidPages(e[s + 1]) \subseteq AllInvalid(e)
        BY <3>3 DEF AllInvalid
      <3> QED
        BY <2>2, <3>1, <3>2, <3>4
    <2>4. x.bitmap = {} /\ x.invalid = 0
      BY <2>3, Unmarked, FS_EmptySet DEF ExactlyMarked
    <2>5. PICK a : a = [page |-> p, slot |-> s]
      OBVIOUS
    <2>6. a \in L[file] /\ memory[a.page][a.slot] = x
      BY <1>1, <2>1, <2>3, <2>5
    <2>7. x.data # <<>>
      <3>1. file \in File
        BY TypeFacts
      <3>2. InUse(x)
        BY <2>6, <3>1 DEF Sound, Once
      <3> QED
        BY <3>2 DEF InUse
    <2>8. Len(x.data) # 0
      <3>1. x.data \in Seq(Page)
        BY <2>3, EntryType
      <3> QED
        BY <2>7, <3>1
    <2> QED
      BY <2>3, <2>4, <2>8
  <1>3. node[p].invalidPages = 0
    <2>1. PICK size : size = [s \in 0..(Slots - 1) |-> memory[p][s].invalid]
      OBVIOUS
    <2>2. size \in [0..(Slots - 1) -> Nat] /\ \A s \in 0..(Slots - 1) : size[s] = 0
      BY <1>2, <2>1
    <2>3. SumUpTo(Slots, size) = 0
      BY <2>2, PagesCounted, SumOfNothing
    <2> QED
      BY <1>1, <2>1, <2>3 DEF PageCountersExact
  <1>4. node[p].invalid = 0
    <2>1. {s \in 0..(Slots - 1) : memory[p][s].invalid = Len(memory[p][s].data)} = {}
      BY <1>2
    <2> QED
      BY <1>1, <2>1, FS_EmptySet DEF PageCountersExact
  <1>5. node[p].pages \in Nat /\ node[p].obj \in Nat
    BY <1>1, TypeFacts
  <1>6. ~(2 * 0 > node[p].pages) /\ ~(2 * 0 > node[p].obj)
    BY <1>5
  <1> QED
    BY <1>1, <1>3, <1>4, <1>6 DEF WorthCollecting
-----------------------------------------------------------------------------
(* What leads to damage.                                                   *)
LEMMA NoDataInLogs == IInv /\ fault = "none" => InLogs \cap isData = {}
  <1> SUFFICES ASSUME IInv, fault = "none", NEW f \in File PROVE LogPages(f) \cap isData = {}
    BY DEF InLogs
  <1>1. TypeOK /\ \E c, L : Sound(c, L)
    BY Unfold
  <1>2. PICK c, L : Sound(c, L)
    BY <1>1
  <1>3. LogPages(f) = Range(c[f])
    BY <1>1, <1>2, LogIs
  <1> QED
    BY <1>2, <1>3 DEF Sound, Clear

LEMMA WriteDamage ==
  ASSUME IInv, [Next]_vars, fault = "none", fault' \in {"data_marked", "superblock_marked"}
  PROVE  ~OriginsRight
  <1> SUFFICES ASSUME OriginsRight PROVE FALSE
    OBVIOUS
  <1>1. IndexPage
    BY DEF Next, Create, BeginWrite, BeginScan, WriteEntry, EndWrite, SkipPage, TakePage,
           MoveRun, FreeBlock, EndScan, RunDry, vars
  <1>2. TypeOK /\ \E c, L : Sound(c, L)
    BY Unfold
  <1>3. PICK c, L : Sound(c, L)
    BY <1>2
  <1>4. pc = "write" /\ fresh # <<>> /\ fresh \in Seq(FilePage \X Page) /\ file \in File
    BY <1>1, <1>2 DEF IndexPage, TypeOK
  <1>5. PICK i, old : i = Head(fresh)[1] /\ old = index[file][i]
    OBVIOUS
  <1>6. i \in FilePage /\ old # NoPage /\ origin[old].page \in isData \cup {NoPage}
    BY <1>1, <1>4, <1>5 DEF IndexPage, MarkOld
  <1>7. origin[old] \in L[file]
    BY <1>2, <1>3, <1>4, <1>5, <1>6, PointsBack
  <1>8. origin[old].page \in Range(c[file]) /\ origin[old].page \in Page
    BY <1>3, <1>4, <1>7, PlacesIn
  <1> QED
    BY <1>3, <1>4, <1>6, <1>8, PagesCounted DEF Sound, Clear

LEMMA CollectionDamage ==
  ASSUME IInv, IInv', [Next]_vars, pc = "scan", pc' = "move", MarksExact, CountersExact
  PROVE  /\ fault' = "none"
         /\ scan'.dead # {}
         /\ scan'.dead \cap (free \cup Indexed \cup InLogs)' = {}
  <1>1. TakePage /\ fault = "none"
    BY DEF Next, Create, BeginWrite, BeginScan, WriteEntry, IndexPage, EndWrite, SkipPage,
           MoveRun, FreeBlock, EndScan, RunDry, vars
  <1>2. TypeOK /\ \E c, L : Sound(c, L)
    BY <1>1, Unfold
  <1>3. PICK c, L : Sound(c, L)
    BY <1>2
  <1>4. PICK p, e : Taken(c, L, p, e)
    BY <1>1, <1>2, <1>3, TakesPage
  <1>5. /\ e \in [1..Slots -> LogEntry] /\ DOMAIN e = 1..Slots
        /\ \A j \in 1..Slots : e[j] = memory[p][j - 1] /\ [page |-> p, slot |-> j - 1] \in L[file]
        /\ fault' = fault /\ scan'.dead = AllInvalid(e)
        /\ UNCHANGED <<free, isData, index>>
    BY <1>4 DEF Taken
  <1>6. ASSUME NEW j \in 1..Slots PROVE ExactlyMarked(e[j]) /\ InUse(e[j])
    <2>1. PICK a : a = [page |-> p, slot |-> j - 1]
      OBVIOUS
    <2>2. a \in L[file] /\ memory[a.page][a.slot] = e[j] /\ file \in File
      BY <1>2, <1>5, <2>1, TypeFacts
    <2>3. a \in Addresses(file)
      BY <1>2, <1>3, <2>2, LogIs
    <2> QED
      BY <1>3, <2>2, <2>3 DEF MarksExact, Entry, Sound, Once
  <1>7. scan'.dead # {}
    BY <1>2, <1>3, <1>4, <1>5, <1>6, FindsGarbage
  <1>8. ASSUME NEW q \in AllInvalid(e) PROVE q \in isData \ free /\ q \notin Indexed
    <2>1. PICK j \in 1..Slots : q \in InvalidPages(e[j])
      BY <1>5 DEF AllInvalid
    <2>2. q \in Range(e[j].data) /\ ~Current(q)
      BY <1>5, <1>6, <2>1, Unmarked DEF ExactlyMarked
    <2> QED
      BY <1>6, <2>2 DEF InUse, Current
  <1>9. fault' = "none" /\ Indexed' = Indexed
    BY <1>1, <1>5 DEF Indexed
  <1>10. InLogs' \cap isData' = {}
    <2>1. (IInv /\ fault = "none" => InLogs \cap isData = {})'
      BY NoDataInLogs, PTL
    <2> QED
      BY <1>9, <2>1
  <1> QED
    BY <1>5, <1>7, <1>8, <1>9, <1>10

(* nvmio_write marks file data or the superblock only through a wrong back *)
(* pointer, and a collection reads past the entries of a page, or sets out *)
(* to free a page in use or nothing at all, only when a mark or a counter  *)
(* is wrong.                                                               *)
THEOREM StaleDamage == Spec => DamageNeedsStale
  <1>1. ASSUME IInv, IInv', [Next]_vars
        PROVE  [/\ fault = "none" /\ fault' \in {"data_marked", "superblock_marked"} =>
                     ~OriginsRight
                /\ pc = "scan" /\ pc' = "move" /\ MarksExact /\ CountersExact =>
                     /\ fault' = "none"
                     /\ scan'.dead # {}
                     /\ scan'.dead \cap (free \cup Indexed \cup InLogs)' = {}]_vars
    BY <1>1, WriteDamage, CollectionDamage
  <1> QED
    BY <1>1, Safety, PTL DEF Spec, DamageNeedsStale
-----------------------------------------------------------------------------
(* Exactness in terms of the chains of the logs, of the addresses of their *)
(* entries and of the data pages in use.                                   *)
Live == Indexed \cup Logged

MarkedBy(e, S) ==
  /\ e.bitmap = {k \in 0..(Len(e.data) - 1) : e.data[k + 1] \notin S}
  /\ e.invalid = Cardinality(e.bitmap)

MarksIn(L) ==
  /\ \A f \in File : \A a \in L[f] : MarkedBy(memory[a.page][a.slot], Live)
  /\ \A r \in DOMAIN runs : MarkedBy(runs[r], Live)

Lengths(n, row) == [s \in 0..(n - 1) |-> Len(row[s].data)]
Invalids(n, row) == [s \in 0..(n - 1) |-> row[s].invalid]
Spoilt(n, row) == {s \in 0..(n - 1) : row[s].invalid = Len(row[s].data)}

CountsOf(m, n, row) ==
  /\ m.obj = n
  /\ m.pages = SumUpTo(n, Lengths(n, row))
  /\ m.invalidPages = SumUpTo(n, Invalids(n, row))
  /\ m.invalid = Cardinality(Spoilt(n, row))

CountsIn(c) ==
  \A f \in File : \A p \in Range(c[f]) :
    CountsOf(node[p], IF p = tail[f].page THEN tail[f].slot ELSE Slots, memory[p])

WellMarked == \E c, L : Lines(c) /\ Placed(c, L) /\ MarksIn(L) /\ CountsIn(c)

LEMMA LiveIs == \A p : Current(p) <=> p \in Live
  BY DEF Current, Live, Logged

LEMMA MarkedIs ==
  ASSUME NEW e
  PROVE  ExactlyMarked(e) <=> MarkedBy(e, Live)
  BY LiveIs DEF ExactlyMarked, Superseded, MarkedBy

LEMMA CountsAre ==
  ASSUME NEW p, NEW n
  PROVE  PageCountersExact(p, n) <=> CountsOf(node[p], n, memory[p])
  BY DEF PageCountersExact, CountsOf, Lengths, Invalids, Spoilt

LEMMA ExactUnfolds ==
  ASSUME TypeOK, NEW c, NEW L, Sound(c, L), MarksExact, CountersExact, fault = "none"
  PROVE  MarksIn(L) /\ CountsIn(c)
  <1>1. \A f \in File : Addresses(f) = L[f] /\ LogPages(f) = Range(c[f])
    BY LogIs
  <1>2. MarksIn(L)
    BY <1>1, MarkedIs DEF MarksExact, MarksIn, Entry
  <1>3. CountsIn(c)
    BY <1>1, CountsAre DEF CountersExact, CountsIn, NumEntries
  <1> QED
    BY <1>2, <1>3

LEMMA ExactFolds == TypeOK /\ WellMarked => MarksExact /\ CountersExact
  <1> SUFFICES ASSUME TypeOK, WellMarked PROVE MarksExact /\ CountersExact
    OBVIOUS
  <1>1. PICK c, L : Lines(c) /\ Placed(c, L) /\ MarksIn(L) /\ CountsIn(c)
    BY DEF WellMarked
  <1>2. ASSUME NEW f \in File
        PROVE  Addresses(f) = L[f] /\ LogPages(f) = Range(c[f])
    <2>1. c[f] \in Seq(Page) /\ Chained(head[f], tail[f].page, next, c[f])
      BY <1>1 DEF Lines
    <2> QED
      BY <1>1, <2>1, LogIsChain DEF Placed
  <1>3. MarksExact
    BY <1>1, <1>2, MarkedIs DEF MarksExact, MarksIn, Entry
  <1>4. CountersExact
    BY <1>1, <1>2, CountsAre DEF CountersExact, CountsIn, NumEntries
  <1> QED
    BY <1>3, <1>4

(* A step that leaves the logs and the data in use as they are.            *)
LEMMA MarksUntouched ==
  ASSUME NEW c, NEW L, Sound(c, L), MarksIn(L), CountsIn(c),
         UNCHANGED <<next, node, memory, head, tail, runs>>, Live' = Live
  PROVE  WellMarked'
  <1>1. Lines(c)' /\ Placed(c, L)'
    BY DEF Sound, Lines, Placed
  <1>2. MarksIn(L)'
    <2>1. memory' = memory /\ runs' = runs
      OBVIOUS
    <2> QED
      BY <2>1 DEF MarksIn
  <1>3. CountsIn(c)'
    BY DEF CountsIn
  <1> QED
    BY <1>1, <1>2, <1>3 DEF WellMarked

-----------------------------------------------------------------------------
(* The counters of a log page, as its entries change.                      *)
LEMMA RowCounted ==
  ASSUME NEW row \in [0..(Slots - 1) -> LogEntry], NEW n \in 0..Slots
  PROVE  /\ n \in Nat /\ 0..(n - 1) \subseteq 0..(Slots - 1)
         /\ \A s \in 0..(n - 1) : row[s] \in LogEntry /\ Len(row[s].data) \in Nat /\ row[s].invalid \in Nat
         /\ Lengths(n, row) \in [0..(n - 1) -> Nat] /\ Invalids(n, row) \in [0..(n - 1) -> Nat]
         /\ IsFiniteSet(Spoilt(n, row)) /\ Cardinality(Spoilt(n, row)) \in Nat
  <1>1. n \in Nat /\ 0..(n - 1) \subseteq 0..(Slots - 1)
    BY PagesCounted
  <1>2. \A s \in 0..(n - 1) : row[s] \in LogEntry
    BY <1>1
  <1>3. \A s \in 0..(n - 1) : Len(row[s].data) \in Nat /\ row[s].invalid \in Nat
    BY <1>2, EntryType
  <1>4. IsFiniteSet(Spoilt(n, row))
    <2>1. IsFiniteSet(0..(n - 1)) /\ Spoilt(n, row) \subseteq 0..(n - 1)
      BY <1>1, FS_Interval DEF Spoilt
    <2> QED
      BY <2>1, FS_Subset
  <1>5. Cardinality(Spoilt(n, row)) \in Nat
    BY <1>4, FS_CardinalityType
  <1> QED
    BY <1>1, <1>2, <1>3, <1>4, <1>5 DEF Lengths, Invalids

LEMMA CountsSame ==
  ASSUME NEW m, NEW n, NEW row, NEW new, \A s \in 0..(n - 1) : new[s] = row[s], CountsOf(m, n, row)
  PROVE  CountsOf(m, n, new)
  <1>1. Lengths(n, new) = Lengths(n, row)
    BY DEF Lengths
  <1>2. Invalids(n, new) = Invalids(n, row)
    BY DEF Invalids
  <1>3. Spoilt(n, new) = Spoilt(n, row)
    BY DEF Spoilt
  <1> QED
    BY <1>1, <1>2, <1>3 DEF CountsOf

RowAppended(m, n, row, e, w, new) ==
  /\ m \in [obj : Nat, invalid : Nat, pages : Nat, invalidPages : Nat]
  /\ row \in [0..(Slots - 1) -> LogEntry] /\ new \in [0..(Slots - 1) -> LogEntry]
  /\ n \in 0..(Slots - 1) /\ CountsOf(m, n, row)
  /\ e.invalid = 0 /\ Len(e.data) # 0 /\ new[n] = e
  /\ \A s \in 0..(n - 1) : new[s] = row[s]
  /\ w = [obj |-> m.obj + 1, invalid |-> m.invalid, pages |-> m.pages + Len(e.data),
          invalidPages |-> m.invalidPages]

LEMMA CountsAppended ==
  ASSUME NEW m, NEW n, NEW row, NEW e, NEW w, NEW new, RowAppended(m, n, row, e, w, new)
  PROVE  CountsOf(w, n + 1, new)
  <1>0. /\ m \in [obj : Nat, invalid : Nat, pages : Nat, invalidPages : Nat]
        /\ row \in [0..(Slots - 1) -> LogEntry] /\ new \in [0..(Slots - 1) -> LogEntry]
        /\ n \in 0..(Slots - 1) /\ CountsOf(m, n, row)
        /\ e.invalid = 0 /\ Len(e.data) # 0 /\ new[n] = e
        /\ \A s \in 0..(n - 1) : new[s] = row[s]
        /\ w = [obj |-> m.obj + 1, invalid |-> m.invalid, pages |-> m.pages + Len(e.data),
                invalidPages |-> m.invalidPages]
    BY DEF RowAppended
  <1>1. n \in 0..Slots /\ n + 1 \in 0..Slots /\ n \in Nat /\ (n + 1) - 1 = n /\ n \in 0..n
    BY <1>0, PagesCounted
  <1>2. Lengths(n, row) \in [0..(n - 1) -> Nat] /\ Invalids(n, row) \in [0..(n - 1) -> Nat]
    <2>1. row \in [0..(Slots - 1) -> LogEntry] /\ n \in 0..Slots
      BY <1>0, <1>1, Zenon
    <2> QED
      BY <2>1, RowCounted, Zenon
  <1>3. Lengths(n + 1, new) \in [0..n -> Nat] /\ Invalids(n + 1, new) \in [0..n -> Nat]
    <2>1. PICK j : j = n + 1
      OBVIOUS
    <2>2. j \in 0..Slots /\ 0..(j - 1) = 0..n
      BY <1>1, <2>1
    <2>3. Lengths(j, new) \in [0..(j - 1) -> Nat] /\ Invalids(j, new) \in [0..(j - 1) -> Nat]
      <3>1. new \in [0..(Slots - 1) -> LogEntry] /\ j \in 0..Slots
        BY <1>0, <2>2, Zenon
      <3> QED
        BY <3>1, RowCounted, Zenon
    <2> QED
      BY <2>1, <2>2, <2>3
  <1>4. \A s \in 0..(n - 1) : s \in 0..n /\ s # n
    BY <1>1
  <1>5. /\ \A s \in 0..(n - 1) : Lengths(n + 1, new)[s] = Lengths(n, row)[s]
        /\ Lengths(n + 1, new)[n] = Len(e.data)
    BY <1>0, <1>1, <1>4 DEF Lengths
  <1>6. /\ \A s \in 0..(n - 1) : Invalids(n + 1, new)[s] = Invalids(n, row)[s]
        /\ Invalids(n + 1, new)[n] = 0
    BY <1>0, <1>1, <1>4 DEF Invalids
  <1>7. SumUpTo(n + 1, Lengths(n + 1, new)) = SumUpTo(n, Lengths(n, row)) + Len(e.data)
    <2>1. PICK size, other : size = Lengths(n, row) /\ other = Lengths(n + 1, new)
      OBVIOUS
    <2>2. SumUpTo(n + 1, other) = SumUpTo(n, size) + other[n]
      BY <1>1, <1>2, <1>3, <1>5, <2>1, SumExtended
    <2> QED
      BY <1>5, <2>1, <2>2
  <1>8. SumUpTo(n + 1, Invalids(n + 1, new)) = SumUpTo(n, Invalids(n, row)) + 0
    <2>1. PICK size, other : size = Invalids(n, row) /\ other = Invalids(n + 1, new)
      OBVIOUS
    <2>2. SumUpTo(n + 1, other) = SumUpTo(n, size) + other[n]
      BY <1>1, <1>2, <1>3, <1>6, <2>1, SumExtended
    <2> QED
      BY <1>6, <2>1, <2>2
  <1>9. Spoilt(n + 1, new) = Spoilt(n, row)
    <2>1. \A s : s \in 0..n <=> s \in 0..(n - 1) \/ s = n
      BY <1>1
    <2>2. Spoilt(n + 1, new) = {s \in 0..n : new[s].invalid = Len(new[s].data)}
      BY <1>1 DEF Spoilt
    <2>3. ~(new[n].invalid = Len(new[n].data))
      BY <1>0
    <2> QED
      BY <1>0, <2>1, <2>2, <2>3 DEF Spoilt
  <1>10. m.obj \in Nat /\ m.invalid \in Nat /\ m.pages \in Nat /\ m.invalidPages \in Nat
    BY <1>0
  <1>11. /\ m.obj = n /\ m.pages = SumUpTo(n, Lengths(n, row))
         /\ m.invalidPages = SumUpTo(n, Invalids(n, row)) /\ m.invalid = Cardinality(Spoilt(n, row))
    BY <1>0 DEF CountsOf
  <1>12. /\ w.obj = m.obj + 1 /\ w.invalid = m.invalid /\ w.pages = m.pages + Len(e.data)
         /\ w.invalidPages = m.invalidPages
    BY <1>0
  <1>13. w.invalidPages = SumUpTo(n, Invalids(n, row)) + 0
    BY <1>10, <1>11, <1>12
  <1> QED
    BY <1>7, <1>8, <1>9, <1>11, <1>12, <1>13 DEF CountsOf
-----------------------------------------------------------------------------
(* An entry that marks nothing is appended.                                *)
LEMMA PlaceIs ==
  ASSUME NEW c, NEW L, Sound(c, L), NEW f \in File, NEW p \in Range(c[f]),
         NEW s \in 0..(Slots - 1), s < IF p = tail[f].page THEN tail[f].slot ELSE Slots
  PROVE  [page |-> p, slot |-> s] \in L[f]
  <1>1. L[f] = Places(c[f], tail[f])
    BY DEF Sound
  <1>2. [page |-> p, slot |-> s] \in [page : Range(c[f]), slot : 0..(Slots - 1)]
    OBVIOUS
  <1> QED
    BY <1>1, <1>2 DEF Places

AppendsMarked(c, L, e, lp, D, d, M) ==
  /\ Appends(c, L, e, lp, D, d, M) /\ MarksIn(L) /\ CountsIn(c)
  /\ e.invalid = 0 /\ Len(e.data) # 0 /\ MarkedBy(e, Live')
  /\ \A f \in File : \A a \in L[f] : MarkedBy(memory[a.page][a.slot], Live')
  /\ \A r \in DOMAIN runs' : MarkedBy(runs'[r], Live')

LEMMA MarksAppended ==
  ASSUME TypeOK, NEW c, NEW L, NEW e, NEW lp, NEW D, NEW d, NEW M,
         AppendsMarked(c, L, e, lp, D, d, M)
  PROVE  WellMarked'
  <1>0. /\ Appends(c, L, e, lp, D, d, M) /\ MarksIn(L) /\ CountsIn(c)
        /\ e.invalid = 0 /\ Len(e.data) # 0 /\ MarkedBy(e, Live')
        /\ \A f \in File : \A b \in L[f] : MarkedBy(memory[b.page][b.slot], Live')
        /\ \A r \in DOMAIN runs' : MarkedBy(runs'[r], Live')
    BY DEF AppendsMarked
  <1>1. PICK a : a = Target(file, lp)
    OBVIOUS
  <1>2. /\ Sound(c, L) /\ head[file] # NoPage /\ e \in LogEntry
        /\ lp \in NewLogPage(file, free) /\ AppendEntry(file, e, lp) /\ file' = file
        /\ d = IF Full(file) THEN [c EXCEPT ![file] = Append(@, lp)] ELSE c
        /\ M = [f \in File |-> IF f = file THEN L[f] \cup {a} ELSE L[f]]
        /\ file \in File
    BY <1>0, <1>1, TypeFacts DEF Appends
  <1>3. /\ memory' \in [Page -> [0..(Slots - 1) -> LogEntry]]
        /\ tail' \in [File -> [page : Page \cup {NoPage}, slot : 0..Slots]]
        /\ Lines(d)' /\ Placed(d, M)'
        /\ memory'[a.page][a.slot] = e
        /\ \A f \in File : \A b \in L[f] : memory'[b.page][b.slot] = memory[b.page][b.slot]
    BY <1>0, <1>1, EntryAppended
  <1>4. PICK t, n : t = tail[file].page /\ n = tail[file].slot
    OBVIOUS
  <1>5. /\ c[file] \in Seq(Page) /\ t \in Range(c[file]) /\ t \in Page /\ n \in 0..Slots
        /\ Full(file) => n = Slots /\ lp \in Page /\ a = [page |-> lp, slot |-> 0]
        /\ ~Full(file) => n \in 0..(Slots - 1) /\ a = tail[file]
        /\ a.page \in Page /\ a.slot \in 0..(Slots - 1)
    <2>1. /\ c[file] \in Seq(Page)
          /\ tail[file].page \in Range(c[file]) /\ tail[file].page \in Page
          /\ tail[file].slot \in 0..Slots
          /\ Full(file) => /\ lp \in Page /\ tail[file].slot = Slots
                           /\ Target(file, lp) = [page |-> lp, slot |-> 0]
          /\ ~Full(file) => /\ tail[file].slot \in 0..(Slots - 1)
                            /\ Target(file, lp) = tail[file]
          /\ Target(file, lp).page \in Page /\ Target(file, lp).slot \in 0..(Slots - 1)
      BY <1>2, TargetIs
    <2> QED
      BY <1>1, <1>4, <2>1
  <1>6. MarksIn(M)'
    <2>1. ASSUME NEW f \in File, NEW b \in M[f] PROVE MarkedBy(memory'[b.page][b.slot], Live')
      BY <1>0, <1>2, <1>3
    <2> QED
      BY <1>0, <2>1 DEF MarksIn
  <1>7. /\ tail'[file] = [page |-> a.page, slot |-> a.slot + 1]
        /\ \A f \in File : f # file => tail'[f] = tail[f]
    <2>1. DOMAIN tail = File
      BY DEF TypeOK
    <2> QED
      BY <1>1, <1>2, <2>1 DEF AppendEntry
  <1>8. PICK m, w : /\ m = (IF Full(file) THEN Counters ELSE node[a.page])
                    /\ w = [m EXCEPT !.obj = @ + 1, !.pages = @ + Len(e.data)]
    OBVIOUS
  <1>9. /\ m \in [obj : Nat, invalid : Nat, pages : Nat, invalidPages : Nat]
        /\ w = [obj |-> m.obj + 1, invalid |-> m.invalid, pages |-> m.pages + Len(e.data),
                invalidPages |-> m.invalidPages]
        /\ node'[a.page] = w /\ \A p \in Page : p # a.page => node'[p] = node[p]
    <2>1. m \in [obj : Nat, invalid : Nat, pages : Nat, invalidPages : Nat]
      BY <1>5, <1>8, TypeFacts DEF Counters
    <2>2. w = [obj |-> m.obj + 1, invalid |-> m.invalid, pages |-> m.pages + Len(e.data),
               invalidPages |-> m.invalidPages]
      BY <1>8, <2>1
    <2>3. node' = [node EXCEPT ![a.page] = w]
      BY <1>1, <1>2, <1>8 DEF AppendEntry
    <2>4. DOMAIN node = Page
      BY TypeFacts
    <2> QED
      BY <1>5, <2>1, <2>2, <2>3, <2>4
  <1>10. a.page \in Range(d[file])
    <2>1. d[file] \in Seq(Page) /\ Chained(head'[file], tail'[file].page, next', d[file])
      BY <1>2, <1>3 DEF Lines
    <2>2. tail'[file].page = a.page /\ a.page # NoPage
      BY <1>5, <1>7, PagesCounted
    <2>3. PICK from, to, links, s : from = head'[file] /\ to = tail'[file].page
                                    /\ links = next' /\ s = d[file]
      OBVIOUS
    <2>4. s \in Seq(Page) /\ Chained(from, to, links, s) /\ to # NoPage
      BY <2>1, <2>2, <2>3
    <2>5. to \in Range(s)
      BY <2>4, ChainEnds
    <2> QED
      BY <2>2, <2>3, <2>5
  <1>11. CountsOf(node'[a.page], a.slot + 1, memory'[a.page])
    <2>1. PICK row, new : row = memory[a.page] /\ new = memory'[a.page]
      OBVIOUS
    <2>2. /\ row \in [0..(Slots - 1) -> LogEntry] /\ new \in [0..(Slots - 1) -> LogEntry]
          /\ new[a.slot] = e
      BY <1>3, <1>5, <2>1, TypeFacts
    <2>3. CountsOf(m, a.slot, row) /\ \A s \in 0..(a.slot - 1) : new[s] = row[s]
      <3>1. CASE Full(file)
        <4>1. a.slot = 0 /\ m = Counters /\ 0 \in 0..Slots /\ 0..(0 - 1) = {} /\ 0 \in Nat
          BY <1>5, <1>8, <3>1, PagesCounted
        <4>2. /\ Lengths(0, row) \in [0..(0 - 1) -> Nat] /\ Invalids(0, row) \in [0..(0 - 1) -> Nat]
          BY <2>2, <4>1, RowCounted
        <4>3. SumUpTo(0, Lengths(0, row)) = 0 /\ SumUpTo(0, Invalids(0, row)) = 0
          BY <4>1, <4>2, SumOfNothing
        <4>4. Spoilt(0, row) = {}
          BY <4>1 DEF Spoilt
        <4> QED
          BY <4>1, <4>3, <4>4, FS_EmptySet DEF CountsOf, Counters
      <3>2. CASE ~Full(file)
        <4>1. a.page = t /\ a.slot = n /\ m = node[t]
          BY <1>4, <1>5, <1>8, <3>2
        <4>2. CountsOf(node[t], n, memory[t])
          BY <1>0, <1>2, <1>4, <1>5 DEF CountsIn
        <4>3. ASSUME NEW s \in 0..(n - 1) PROVE new[s] = row[s]
          <5>1. s \in 0..(Slots - 1) /\ s < n
            BY <1>5, PagesCounted
          <5>2. PICK b : b = [page |-> t, slot |-> s]
            OBVIOUS
          <5>3. b \in L[file]
            BY <1>2, <1>4, <1>5, <5>1, <5>2, PlaceIs
          <5>4. memory'[b.page][b.slot] = memory[b.page][b.slot]
            BY <1>2, <1>3, <5>3
          <5> QED
            BY <2>1, <4>1, <5>2, <5>4
        <4> QED
          BY <2>1, <4>1, <4>2, <4>3
      <3> QED
        BY <3>1, <3>2
    <2>4. RowAppended(m, a.slot, row, e, w, new)
      BY <1>0, <1>5, <1>9, <2>2, <2>3 DEF RowAppended
    <2>5. CountsOf(w, a.slot + 1, new)
      BY <2>4, CountsAppended
    <2> QED
      BY <1>9, <2>1, <2>5
  <1>12. ASSUME NEW f \in File, NEW p \in Range(d[f])
         PROVE  CountsOf(node'[p], IF p = tail'[f].page THEN tail'[f].slot ELSE Slots, memory'[p])
    <2>1. CASE p = a.page
      <3>1. f = file
        BY <1>2, <1>3, <1>10, <2>1 DEF Lines
      <3>2. tail'[f].page = a.page /\ tail'[f].slot = a.slot + 1
        BY <1>7, <3>1
      <3> QED
        BY <1>11, <2>1, <3>2
    <2>2. CASE p # a.page
      <3>1. p \in Range(c[f]) /\ p \in Page
        <4>1. Range(c[f]) \subseteq Page /\ c \in [File -> Seq(Page)]
          BY <1>2, LogIs DEF Sound, Lines
        <4>2. CASE Full(file) /\ f = file
          <5>1. d[f] = Append(c[f], lp) /\ c[f] \in Seq(Page) /\ p # lp
            BY <1>2, <1>5, <2>2, <4>1, <4>2
          <5>2. PICK i \in DOMAIN d[f] : d[f][i] = p
            BY DEF Range
          <5>3. i \in 1..(Len(c[f]) + 1) /\ (i # Len(c[f]) + 1 => i \in 1..Len(c[f]) /\ d[f][i] = c[f][i])
                /\ d[f][Len(c[f]) + 1] = lp
            BY <5>1, <5>2
          <5>4. i \in 1..Len(c[f]) /\ c[f][i] = p
            BY <5>1, <5>2, <5>3
          <5> QED
            BY <4>1, <5>1, <5>4 DEF Range
        <4>3. CASE ~(Full(file) /\ f = file)
          BY <1>2, <4>1, <4>3
        <4> QED
          BY <4>2, <4>3
      <3>2. PICK N : N = IF p = tail[f].page THEN tail[f].slot ELSE Slots
        OBVIOUS
      <3>3. N = (IF p = tail'[f].page THEN tail'[f].slot ELSE Slots) /\ N \in 0..Slots
        <4>1. CASE f # file
          <5>1. tail[f].slot \in 0..Slots /\ Slots \in 0..Slots
            BY PagesCounted, TypeFacts
          <5> QED
            BY <1>7, <3>2, <4>1, <5>1
        <4>2. CASE f = file
          <5>1. p # tail'[f].page
            BY <1>7, <2>2, <4>2
          <5>2. p = t => n = Slots
            BY <1>4, <1>5, <2>2
          <5> QED
            BY <1>4, <3>2, <4>2, <5>1, <5>2, PagesCounted
        <4> QED
          BY <4>1, <4>2
      <3>4. CountsOf(node[p], N, memory[p])
        BY <1>0, <3>1, <3>2 DEF CountsIn
      <3>5. ASSUME NEW s \in 0..(N - 1) PROVE memory'[p][s] = memory[p][s]
        <4>1. s \in 0..(Slots - 1) /\ s < N
          BY <3>3, PagesCounted
        <4>2. PICK b : b = [page |-> p, slot |-> s]
          OBVIOUS
        <4>3. b \in L[f]
          BY <1>2, <3>1, <3>2, <4>1, <4>2, PlaceIs
        <4> QED
          BY <1>3, <4>2, <4>3
      <3>6. CountsOf(node[p], N, memory'[p])
        BY <3>4, <3>5, CountsSame
      <3> QED
        BY <1>9, <2>2, <3>1, <3>3, <3>6
    <2> QED
      BY <2>1, <2>2
  <1>13. CountsIn(d)'
    BY <1>12 DEF CountsIn
  <1> QED
    BY <1>3, <1>6, <1>13 DEF WellMarked
-----------------------------------------------------------------------------
(* An entry is marked alike when the data pages that it names are.         *)
LEMMA MarkedSame ==
  ASSUME NEW e \in LogEntry, NEW S, NEW T, MarkedBy(e, S),
         \A q \in Range(e.data) : q \in S <=> q \in T
  PROVE  MarkedBy(e, T)
  <1>1. \A k \in 0..(Len(e.data) - 1) : e.data[k + 1] \in Range(e.data)
    <2>1. Len(e.data) \in Nat /\ DOMAIN e.data = 1..Len(e.data)
      BY EntryType
    <2>2. \A k \in 0..(Len(e.data) - 1) : k + 1 \in DOMAIN e.data
      BY <2>1
    <2> QED
      BY <2>2 DEF Range
  <1> QED
    BY <1>1 DEF MarkedBy

(* An entry that marks nothing is marked right when its pages are in use.  *)
LEMMA Clean ==
  ASSUME NEW e \in LogEntry, NEW S, e.bitmap = {}, e.invalid = 0, Range(e.data) \subseteq S
  PROVE  MarkedBy(e, S)
  <1>1. \A k \in 0..(Len(e.data) - 1) : e.data[k + 1] \in Range(e.data)
    <2>1. Len(e.data) \in Nat /\ DOMAIN e.data = 1..Len(e.data)
      BY EntryType
    <2>2. \A k \in 0..(Len(e.data) - 1) : k + 1 \in DOMAIN e.data
      BY <2>1
    <2> QED
      BY <2>2 DEF Range
  <1> QED
    BY <1>1, FS_EmptySet DEF MarkedBy

LEMMA EntryTyped ==
  ASSUME TypeOK, TypeOK', NEW c, NEW L, Sound(c, L), head[file] # NoPage,
         NEW lp, lp \in NewLogPage(file, free), NEW e, AppendEntry(file, e, lp)
  PROVE  e \in LogEntry
  <1>1. PICK a : a = Target(file, lp)
    OBVIOUS
  <1>2. a.page \in Page /\ a.slot \in 0..(Slots - 1)
    BY <1>1, TargetIs
  <1>3. memory' = [AsLogPage(a.page) EXCEPT ![a.page][a.slot] = e]
    BY <1>1 DEF AppendEntry
  <1>4. AsLogPage(a.page) \in [Page -> [0..(Slots - 1) -> LogEntry]]
    BY <1>2, LogPageMade
  <1>5. memory'[a.page][a.slot] = e
    BY <1>2, <1>3, <1>4
  <1>6. memory' \in [Page -> [0..(Slots - 1) -> LogEntry]]
    BY DEF TypeOK
  <1> QED
    BY <1>2, <1>5, <1>6

LEMMA MarksWritten ==
  ASSUME TypeOK, TypeOK', NEW c, NEW L, Sound(c, L), MarksIn(L), CountsIn(c), WriteEntry
  PROVE  WellMarked'
  <1>1. /\ pc = "write" /\ left # <<>>
        /\ UNCHANGED <<head, index, pc, file, scan, runs, writes, fault>>
    BY DEF WriteEntry
  <1>2. PICK n : n = IF Len(left) > MaxPerEntry THEN MaxPerEntry ELSE Len(left)
    OBVIOUS
  <1>3. PICK data \in [1..n -> free], lp \in NewLogPage(file, free) :
          /\ IsInjective(data) /\ lp \notin Range(data)
          /\ AppendEntry(file, [NoEntry EXCEPT !.data = data, !.first = Head(left)], lp)
          /\ free' = free \ (Range(data) \cup {lp})
          /\ isData' = (isData \cup Range(data)) \ {lp}
          /\ fresh' = fresh \o [k \in 1..n |-> <<left[k], data[k]>>]
    BY <1>2 DEF WriteEntry
  <1>4. PICK e : e = [data |-> data, first |-> Head(left), bitmap |-> {}, invalid |-> 0]
    OBVIOUS
  <1>5. e = [NoEntry EXCEPT !.data = data, !.first = Head(left)]
    BY <1>4, NewEntry
  <1>6. AppendEntry(file, e, lp)
    BY <1>3, <1>5
  <1>7. head[file] # NoPage /\ file \in File /\ runs = <<>>
    BY <1>1, LogOpen, TypeFacts DEF Sound, CallShape
  <1>8. e \in LogEntry
    BY <1>3, <1>6, <1>7, EntryTyped
  <1>9. /\ left \in Seq(FilePage) /\ Len(left) \in Nat /\ Len(left) # 0
        /\ \A k \in 1..Len(left) : left[k] \in FilePage
    <2>1. left \in Seq(FilePage)
      BY DEF TypeOK
    <2> QED
      BY <1>1, <2>1
  <1>10. n \in Nat /\ n > 0 /\ n <= Len(left)
    BY <1>2, <1>9, PagesCounted
  <1>11. /\ Range(data) \subseteq free /\ free \subseteq Page /\ DOMAIN data = 1..n
         /\ \A k \in 1..n : data[k] \in Page
    <2>1. free \subseteq Page
      BY TypeFacts
    <2>2. DOMAIN data = 1..n /\ \A k \in 1..n : data[k] \in free
      OBVIOUS
    <2>3. Range(data) \subseteq free
      BY <2>2 DEF Range
    <2> QED
      BY <2>1, <2>2, <2>3
  <1>12. e.data = data /\ e.invalid = 0 /\ e.bitmap = {}
    BY <1>4
  <1>13. Len(e.data) # 0
    <2>1. e.data \in Seq(Page) /\ DOMAIN e.data = 1..n
      BY <1>8, <1>11, <1>12, EntryType
    <2>2. Len(e.data) = n
      BY <1>10, <2>1
    <2> QED
      BY <1>10, <2>2
  <1>14. Live' = Live \cup Range(data)
    <2>1. PICK more : more = [k \in 1..n |-> <<left[k], data[k]>>]
      OBVIOUS
    <2>2. /\ more \in Seq(FilePage \X Page) /\ Len(more) = n
          /\ \A k \in 1..n : more[k] = <<left[k], data[k]>>
      <3>1. \A k \in 1..n : k \in 1..Len(left)
        BY <1>9, <1>10
      <3>2. \A k \in 1..n : left[k] \in FilePage /\ data[k] \in Page
        BY <1>9, <1>11, <3>1
      <3> QED
        BY <1>10, <2>1, <3>2
    <2>3. fresh \in Seq(FilePage \X Page) /\ fresh' = fresh \o more
      BY <1>3, <2>1 DEF TypeOK
    <2>4. /\ Len(fresh) \in Nat /\ DOMAIN fresh = 1..Len(fresh)
          /\ DOMAIN fresh' = 1..(Len(fresh) + n)
          /\ \A k \in 1..Len(fresh) : fresh'[k] = fresh[k]
          /\ \A k \in 1..n : fresh'[Len(fresh) + k] = more[k]
      BY <2>2, <2>3, Concatenated
    <2>5. ASSUME NEW k \in DOMAIN fresh' PROVE fresh'[k][2] \in Logged \cup Range(data)
      <3>1. k \in 1..Len(fresh) \/ (k - Len(fresh) \in 1..n /\ k = Len(fresh) + (k - Len(fresh)))
        BY <1>10, <2>4
      <3>2. CASE k \in 1..Len(fresh)
        BY <2>4, <3>2 DEF Logged
      <3>3. CASE k - Len(fresh) \in 1..n /\ k = Len(fresh) + (k - Len(fresh))
        <4>1. PICK m : m = k - Len(fresh)
          OBVIOUS
        <4>2. m \in 1..n /\ fresh'[k] = <<left[m], data[m]>>
          BY <2>2, <2>4, <3>3, <4>1
        <4> QED
          BY <1>11, <4>2 DEF Range
      <3> QED
        BY <3>1, <3>2, <3>3
    <2>6. ASSUME NEW k \in DOMAIN fresh PROVE \E m \in DOMAIN fresh' : fresh'[m][2] = fresh[k][2]
      <3>1. k \in 1..Len(fresh) /\ k \in 1..(Len(fresh) + n)
        BY <1>10, <2>4
      <3> QED
        BY <2>4, <3>1
    <2>7. ASSUME NEW k \in 1..n PROVE \E m \in DOMAIN fresh' : fresh'[m][2] = data[k]
      <3>1. Len(fresh) + k \in 1..(Len(fresh) + n)
        BY <1>10, <2>4
      <3>2. fresh'[Len(fresh) + k] = <<left[k], data[k]>>
        BY <2>2, <2>4
      <3> QED
        BY <2>4, <3>1, <3>2
    <2>8. {fresh'[k][2] : k \in DOMAIN fresh'} = Logged \cup Range(data)
      BY <1>11, <2>5, <2>6, <2>7 DEF Logged, Range
    <2>9. Logged' = Logged \cup Range(data) /\ Indexed' = Indexed
      <3>1. Logged' = {fresh'[k][2] : k \in DOMAIN fresh'}
        BY DEF Logged
      <3>2. Indexed' = Indexed
        BY <1>1 DEF Indexed
      <3> QED
        BY <2>8, <3>1, <3>2
    <2> QED
      BY <2>9 DEF Live
  <1>15. MarkedBy(e, Live')
    BY <1>8, <1>12, <1>14, Clean
  <1>16. ASSUME NEW f \in File, NEW a \in L[f] PROVE MarkedBy(memory[a.page][a.slot], Live')
    <2>1. PICK x : x = memory[a.page][a.slot]
      OBVIOUS
    <2>2. x \in LogEntry /\ MarkedBy(x, Live) /\ Range(x.data) \cap free = {}
      BY <2>1, PlacesIn, TypeFacts DEF MarksIn, Sound, Once, InUse
    <2>3. \A q \in Range(x.data) : q \in Live <=> q \in Live'
      BY <1>11, <1>14, <2>2
    <2> QED
      BY <2>1, <2>2, <2>3, MarkedSame
  <1>17. PICK d, D, M : /\ d = IF Full(file) THEN [c EXCEPT ![file] = Append(@, lp)] ELSE c
                        /\ D = Range(data)
                        /\ M = [f \in File |-> IF f = file THEN L[f] \cup {Target(file, lp)} ELSE L[f]]
    OBVIOUS
  <1>18. Appends(c, L, e, lp, D, d, M)
    <2>1. /\ D \in SUBSET free /\ lp \notin D
          /\ free' = free \ (D \cup {lp}) /\ isData' = (isData \cup D) \ {lp}
      BY <1>3, <1>11, <1>17
    <2> QED
      BY <1>1, <1>3, <1>6, <1>7, <1>8, <1>17, <2>1 DEF Appends
  <1>19. DOMAIN runs' = {}
    <2>1. DOMAIN <<>> = {}
      OBVIOUS
    <2> QED
      BY <1>1, <1>7, <2>1
  <1>20. AppendsMarked(c, L, e, lp, D, d, M)
    BY <1>12, <1>13, <1>15, <1>16, <1>18, <1>19 DEF AppendsMarked
  <1> QED
    BY <1>20, MarksAppended

LEMMA MarksMoved ==
  ASSUME TypeOK, TypeOK', NEW c, NEW L, Sound(c, L), MarksIn(L), CountsIn(c), MoveRun
  PROVE  WellMarked'
  <1>1. /\ pc = "move" /\ runs # <<>> /\ runs' = Tail(runs)
        /\ UNCHANGED <<head, index, file, fresh, scan>>
    BY DEF MoveRun
  <1>2. PICK lp \in NewLogPage(file, free) :
          /\ AppendEntry(file, Head(runs), lp)
          /\ free' = free \ {lp}
          /\ isData' = isData \ {lp}
    BY DEF MoveRun
  <1>3. /\ runs \in Seq(LogEntry) /\ Len(runs) \in Nat /\ 1 \in 1..Len(runs)
        /\ DOMAIN runs = 1..Len(runs) /\ Head(runs) = runs[1]
        /\ DOMAIN runs' = 1..(Len(runs) - 1)
        /\ \A r \in 1..(Len(runs) - 1) : runs'[r] = runs[r + 1]
    <2>1. runs \in Seq(LogEntry)
      BY DEF TypeOK
    <2>2. Len(runs) \in Nat /\ Len(runs) # 0
      BY <1>1, <2>1
    <2> QED
      BY <1>1, <2>1, <2>2
  <1>4. PICK e, D, d, M :
          /\ e = runs[1] /\ D = {}
          /\ d = IF Full(file) THEN [c EXCEPT ![file] = Append(@, lp)] ELSE c
          /\ M = [f \in File |-> IF f = file THEN L[f] \cup {Target(file, lp)} ELSE L[f]]
    OBVIOUS
  <1>5. e \in LogEntry /\ e.invalid = 0 /\ e.data # <<>> /\ MarkedBy(e, Live)
    BY <1>3, <1>4 DEF Sound, CallShape, Once, InUse, MarksIn
  <1>6. Len(e.data) # 0
    <2>1. e.data \in Seq(Page)
      BY <1>5, EntryType
    <2> QED
      BY <1>5, <2>1
  <1>7. Live' = Live
    BY <1>1 DEF Live, Indexed, Logged
  <1>8. head[file] # NoPage
    BY <1>1, LogOpen
  <1>9. Appends(c, L, e, lp, D, d, M)
    <2>1. D \in SUBSET free /\ lp \notin D /\ free' = free \ (D \cup {lp})
          /\ isData' = (isData \cup D) \ {lp}
      BY <1>2, <1>4
    <2>2. AppendEntry(file, e, lp)
      BY <1>2, <1>3, <1>4
    <2> QED
      BY <1>1, <1>2, <1>4, <1>5, <1>8, <2>1, <2>2 DEF Appends
  <1>10. ASSUME NEW r \in DOMAIN runs' PROVE MarkedBy(runs'[r], Live')
    <2>1. r + 1 \in 1..Len(runs) /\ runs'[r] = runs[r + 1]
      BY <1>3
    <2>2. MarkedBy(runs[r + 1], Live)
      BY <1>3, <2>1 DEF MarksIn
    <2> QED
      BY <1>7, <2>1, <2>2
  <1>11. \A f \in File : \A a \in L[f] : MarkedBy(memory[a.page][a.slot], Live')
    BY <1>7 DEF MarksIn
  <1>12. AppendsMarked(c, L, e, lp, D, d, M)
    BY <1>5, <1>6, <1>7, <1>9, <1>10, <1>11 DEF AppendsMarked
  <1> QED
    BY <1>12, MarksAppended
(* The valid pages of an entry are in use.                                 *)
LEMMA ValidLives ==
  ASSUME NEW e \in LogEntry, NEW S, MarkedBy(e, S)
  PROVE  Range(e.data) \ InvalidPages(e) \subseteq S
  <1> SUFFICES ASSUME NEW q \in Range(e.data), q \notin S PROVE q \in InvalidPages(e)
    OBVIOUS
  <1>1. Len(e.data) \in Nat /\ DOMAIN e.data = 1..Len(e.data)
    BY EntryType
  <1>2. PICK i \in 1..Len(e.data) : q = e.data[i]
    BY <1>1 DEF Range
  <1>3. PICK k : k = i - 1
    OBVIOUS
  <1>4. k \in 0..(Len(e.data) - 1) /\ q = e.data[k + 1]
    BY <1>1, <1>2, <1>3
  <1>5. k \in e.bitmap
    BY <1>4 DEF MarkedBy
  <1> QED
    BY <1>4, <1>5 DEF InvalidPages, Valid

LEMMA MarksTaken ==
  ASSUME TypeOK, NEW c, NEW L, Sound(c, L), MarksIn(L), CountsIn(c),
         NEW p, NEW e, Taken(c, L, p, e)
  PROVE  WellMarked'
  <1>1. /\ e \in [1..Slots -> LogEntry] /\ DOMAIN e = 1..Slots
        /\ \A j \in 1..Slots : e[j] = memory[p][j - 1] /\ [page |-> p, slot |-> j - 1] \in L[file]
        /\ runs' = AllRuns(e)
        /\ UNCHANGED <<free, node, origin, isData, memory, tail, index, file, left, fresh>>
    BY DEF Taken
  <1>2. PICK d : /\ d \in [File -> Seq(Page)]
                 /\ \A f \in File : Chained(head'[f], tail[f].page, next', d[f])
                 /\ \A f \in File : Range(d[f]) = Range(c[f]) \ {p}
    BY DEF Taken
  <1>3. PICK M : M = [f \in File |-> Places(d[f], tail[f])]
    OBVIOUS
  <1>4. Lines(d)'
    <2>1. \A f, g \in File : f # g => Range(d[f]) \cap Range(d[g]) = {}
      BY <1>2 DEF Sound, Lines
    <2>2. \A f \in File : Chained(head'[f], tail'[f].page, next', d[f])
      BY <1>1, <1>2
    <2> QED
      BY <1>2, <2>1, <2>2 DEF Lines
  <1>5. Placed(d, M)'
    BY <1>1, <1>3 DEF Placed
  <1>6. \A f \in File : M[f] \subseteq L[f]
    <2> SUFFICES ASSUME NEW f \in File PROVE Places(d[f], tail[f]) \subseteq Places(c[f], tail[f])
      BY <1>3 DEF Sound
    <2>1. [page : Range(d[f]), slot : 0..(Slots - 1)] \subseteq [page : Range(c[f]), slot : 0..(Slots - 1)]
      BY <1>2
    <2> QED
      BY <2>1 DEF Places
  <1>7. Live' = Live
    BY <1>1 DEF Live, Indexed, Logged
  <1>8. ASSUME NEW j \in 1..Slots
        PROVE  e[j] \in LogEntry /\ IsInjective(e[j].data) /\ MarkedBy(e[j], Live)
    <2>1. PICK a : a = [page |-> p, slot |-> j - 1]
      OBVIOUS
    <2>2. a \in L[file] /\ memory[a.page][a.slot] = e[j] /\ file \in File
      BY <1>1, <2>1, TypeFacts
    <2>3. InUse(e[j]) /\ MarkedBy(e[j], Live)
      BY <2>2 DEF Sound, Once, MarksIn
    <2> QED
      BY <1>1, <2>3 DEF InUse
  <1>9. ASSUME NEW i \in 1..Slots, NEW j \in 1..Slots, i # j PROVE Disjoint(e[i], e[j])
    <2>1. PICK a, b : a = [page |-> p, slot |-> i - 1] /\ b = [page |-> p, slot |-> j - 1]
      OBVIOUS
    <2>2. /\ a \in L[file] /\ memory[a.page][a.slot] = e[i] /\ file \in File
          /\ b \in L[file] /\ memory[b.page][b.slot] = e[j]
      BY <1>1, <2>1, TypeFacts
    <2>3. a # b
      <3>1. a.slot = i - 1 /\ b.slot = j - 1 /\ i - 1 # j - 1
        BY <1>9, <2>1
      <3> QED
        BY <3>1
    <2> QED
      BY <2>2, <2>3 DEF Sound, Once
  <1>10. Splits(e, Slots, AllRuns(e)) /\ AllRuns(e) \in Seq(LogEntry)
    BY <1>1, <1>8, <1>9, PagesCounted, RunsTogether, RunsGathered
  <1>11. ASSUME NEW rs, rs = AllRuns(e), NEW r \in DOMAIN rs PROVE MarkedBy(rs[r], Live)
    <2>1. Splits(e, Slots, rs) /\ rs \in Seq(LogEntry)
      BY <1>10, <1>11, Zenon
    <2>2. rs[r] \in LogEntry
      BY <2>1
    <2>3. rs[r].bitmap = {} /\ rs[r].invalid = 0
      BY <2>1 DEF Splits
    <2>4. PICK j \in 1..Slots : Range(rs[r].data) \subseteq Range(e[j].data) \ AllInvalid(e)
      BY <2>1 DEF Splits
    <2>5. InvalidPages(e[j]) \subseteq AllInvalid(e)
      BY <1>1 DEF AllInvalid
    <2>6. Range(e[j].data) \ InvalidPages(e[j]) \subseteq Live
      BY <1>8, ValidLives
    <2>7. Range(rs[r].data) \subseteq Live
      BY <2>4, <2>5, <2>6
    <2> QED
      BY <2>2, <2>3, <2>7, Clean
  <1>12. MarksIn(M)'
    <2>1. \A r \in DOMAIN runs' : MarkedBy(runs'[r], Live')
      BY <1>1, <1>7, <1>11
    <2>2. \A f \in File : \A a \in M[f] : MarkedBy(memory'[a.page][a.slot], Live')
      BY <1>1, <1>6, <1>7 DEF MarksIn
    <2> QED
      BY <2>1, <2>2 DEF MarksIn
  <1>13. CountsIn(d)'
    <2>1. \A f \in File : Range(d[f]) \subseteq Range(c[f])
      BY <1>2
    <2> QED
      BY <1>1, <2>1 DEF CountsIn
  <1> QED
    BY <1>4, <1>5, <1>12, <1>13 DEF WellMarked
-----------------------------------------------------------------------------
(* The counters of a page, as one of its entries is marked.                *)
RowMarked(m, n, row, k, w, new) ==
  /\ m \in [obj : Nat, invalid : Nat, pages : Nat, invalidPages : Nat]
  /\ row \in [0..(Slots - 1) -> LogEntry] /\ new \in [0..(Slots - 1) -> LogEntry]
  /\ n \in 0..Slots /\ k \in 0..(n - 1) /\ CountsOf(m, n, row)
  /\ \A s \in 0..(n - 1) : s # k => new[s] = row[s]
  /\ new[k].data = row[k].data /\ new[k].invalid = row[k].invalid + 1
  /\ row[k].invalid < Len(row[k].data)
  /\ w = [obj |-> m.obj, pages |-> m.pages, invalidPages |-> m.invalidPages + 1,
          invalid |-> IF Len(row[k].data) = row[k].invalid + 1 THEN m.invalid + 1 ELSE m.invalid]

LEMMA CountsMarked ==
  ASSUME NEW m, NEW n, NEW row, NEW k, NEW w, NEW new, RowMarked(m, n, row, k, w, new)
  PROVE  CountsOf(w, n, new)
  <1>1. /\ m \in [obj : Nat, invalid : Nat, pages : Nat, invalidPages : Nat]
        /\ row \in [0..(Slots - 1) -> LogEntry] /\ new \in [0..(Slots - 1) -> LogEntry]
        /\ n \in 0..Slots /\ k \in 0..(n - 1) /\ CountsOf(m, n, row)
        /\ \A s \in 0..(n - 1) : s # k => new[s] = row[s]
        /\ new[k].data = row[k].data /\ new[k].invalid = row[k].invalid + 1
        /\ row[k].invalid < Len(row[k].data)
        /\ w = [obj |-> m.obj, pages |-> m.pages, invalidPages |-> m.invalidPages + 1,
                invalid |-> IF Len(row[k].data) = row[k].invalid + 1 THEN m.invalid + 1 ELSE m.invalid]
    BY DEF RowMarked
  <1>2. n \in Nat /\ k \in Nat /\ k < n
    BY <1>1, PagesCounted
  <1>3. /\ Lengths(n, row) \in [0..(n - 1) -> Nat] /\ Invalids(n, row) \in [0..(n - 1) -> Nat]
        /\ IsFiniteSet(Spoilt(n, row)) /\ Cardinality(Spoilt(n, row)) \in Nat
        /\ \A s \in 0..(n - 1) : row[s].invalid \in Nat /\ Len(row[s].data) \in Nat
    BY <1>1, RowCounted
  <1>4. Invalids(n, new) \in [0..(n - 1) -> Nat]
    BY <1>1, RowCounted
  <1>5. Lengths(n, new) = Lengths(n, row)
    <2>1. \A s \in 0..(n - 1) : Len(new[s].data) = Len(row[s].data)
      BY <1>1
    <2> QED
      BY <2>1 DEF Lengths
  <1>6. SumUpTo(n, Invalids(n, new)) = SumUpTo(n, Invalids(n, row)) + 1
    <2>1. PICK size, other : size = Invalids(n, row) /\ other = Invalids(n, new)
      OBVIOUS
    <2>2. size \in [0..(n - 1) -> Nat] /\ other \in [0..(n - 1) -> Nat]
      BY <1>3, <1>4, <2>1
    <2>3. ASSUME NEW s \in 0..(n - 1)
          PROVE  size[s] \in Nat /\ other[s] \in Nat /\ other[s] = size[s] + IF s = k THEN 1 ELSE 0
      <3>1. size[s] = row[s].invalid /\ other[s] = new[s].invalid /\ row[s].invalid \in Nat
        BY <1>3, <2>1 DEF Invalids
      <3>2. CASE s = k
        BY <1>1, <3>1, <3>2
      <3>3. CASE s # k
        BY <1>1, <3>1, <3>3
      <3> QED
        BY <3>2, <3>3
    <2>4. Bumped(n, size, other, k, 1)
      BY <1>2, <2>3 DEF Bumped
    <2>5. SumUpTo(n, other) = SumUpTo(n, size) + IF k < n THEN 1 ELSE 0
      BY <1>2, <2>2, <2>4, SumBumped
    <2> QED
      BY <1>2, <2>1, <2>5
  <1>7. k \notin Spoilt(n, row)
    BY <1>1, <1>3 DEF Spoilt
  <1>8. /\ m.obj \in Nat /\ m.invalid \in Nat /\ m.pages \in Nat /\ m.invalidPages \in Nat
        /\ m.obj = n /\ m.pages = SumUpTo(n, Lengths(n, row))
        /\ m.invalidPages = SumUpTo(n, Invalids(n, row)) /\ m.invalid = Cardinality(Spoilt(n, row))
    BY <1>1 DEF CountsOf
  <1>9. w.invalid = Cardinality(Spoilt(n, new))
    <2>1. CASE Len(row[k].data) = row[k].invalid + 1
      <3>1. Spoilt(n, new) = Spoilt(n, row) \cup {k}
        BY <1>1, <2>1 DEF Spoilt
      <3>2. Cardinality(Spoilt(n, row) \cup {k}) = Cardinality(Spoilt(n, row)) + 1
        BY <1>3, <1>7, FS_AddElement
      <3> QED
        BY <1>1, <1>8, <2>1, <3>1, <3>2
    <2>2. CASE Len(row[k].data) # row[k].invalid + 1
      <3>1. Spoilt(n, new) = Spoilt(n, row)
        BY <1>1, <1>7, <2>2 DEF Spoilt
      <3> QED
        BY <1>1, <1>8, <2>2, <3>1
    <2> QED
      BY <2>1, <2>2
  <1>10. w.obj = n /\ w.pages = SumUpTo(n, Lengths(n, new)) /\ w.invalidPages = SumUpTo(n, Invalids(n, new))
    <2>1. w.obj = m.obj /\ w.pages = m.pages /\ w.invalidPages = m.invalidPages + 1
      BY <1>1
    <2> QED
      BY <1>5, <1>6, <1>8, <2>1
  <1> QED
    BY <1>9, <1>10 DEF CountsOf

(* An entry is marked at one of its pages, which goes out of use.          *)
LEMMA MarkAdded ==
  ASSUME NEW x \in LogEntry, NEW y \in LogEntry, NEW S, MarkedBy(x, S), IsInjective(x.data),
         NEW k \in 0..(Len(x.data) - 1), x.data[k + 1] \in S,
         y.data = x.data, y.bitmap = x.bitmap \cup {k}, y.invalid = x.invalid + 1
  PROVE  MarkedBy(y, S \ {x.data[k + 1]}) /\ x.invalid < Len(x.data)
  <1>1. /\ x.bitmap = {j \in 0..(Len(x.data) - 1) : x.data[j + 1] \notin S}
        /\ x.invalid = Cardinality(x.bitmap)
    BY DEF MarkedBy
  <1>2. Len(x.data) \in Nat /\ DOMAIN x.data = 1..Len(x.data)
    BY EntryType
  <1>3. IsFiniteSet(0..(Len(x.data) - 1)) /\ Cardinality(0..(Len(x.data) - 1)) = Len(x.data)
    <2>1. 0 \in Int /\ Len(x.data) - 1 \in Int /\ (Len(x.data) - 1) - 0 + 1 = Len(x.data)
          /\ (0 > Len(x.data) - 1 => Len(x.data) = 0)
      BY <1>2
    <2> QED
      BY <2>1, FS_Interval
  <1>4. k \notin x.bitmap /\ x.bitmap \cup {k} \subseteq 0..(Len(x.data) - 1)
    BY <1>1
  <1>5. IsFiniteSet(x.bitmap) /\ Cardinality(x.bitmap) \in Nat
    BY <1>3, <1>4, FS_Subset, FS_CardinalityType
  <1>6. Cardinality(x.bitmap \cup {k}) = Cardinality(x.bitmap) + 1
    BY <1>4, <1>5, FS_AddElement
  <1>7. Cardinality(x.bitmap \cup {k}) <= Len(x.data)
    BY <1>3, <1>4, FS_Subset
  <1>8. x.invalid < Len(x.data)
    BY <1>1, <1>2, <1>5, <1>6, <1>7
  <1>9. \A j \in 0..(Len(x.data) - 1) : x.data[j + 1] = x.data[k + 1] => j = k
    <2> SUFFICES ASSUME NEW j \in 0..(Len(x.data) - 1), x.data[j + 1] = x.data[k + 1] PROVE j = k
      OBVIOUS
    <2>1. j + 1 \in DOMAIN x.data /\ k + 1 \in DOMAIN x.data
      BY <1>2
    <2>2. j + 1 = k + 1
      BY <2>1 DEF IsInjective
    <2> QED
      BY <2>2
  <1>10. y.bitmap = {j \in 0..(Len(y.data) - 1) : y.data[j + 1] \notin S \ {x.data[k + 1]}}
    BY <1>1, <1>9
  <1>11. y.invalid = Cardinality(y.bitmap)
    BY <1>1, <1>6
  <1> QED
    BY <1>8, <1>10, <1>11 DEF MarkedBy
(* Within a write the B+trees name no page twice.                          *)
LEMMA IndexedOnce ==
  ASSUME TypeOK, NEW c, NEW L, Sound(c, L), pc = "write",
         NEW f \in File, NEW g \in File, NEW i \in FilePage, NEW j \in FilePage,
         index[f][i] # NoPage, index[f][i] = index[g][j]
  PROVE  f = g /\ i = j
  <1>1. runs = <<>> /\ scan.dead = {} /\ DOMAIN <<>> = {}
    BY DEF Sound, CallShape
  <1>2. PICK a \in L[f] : Names(memory[a.page][a.slot], i, index[f][i])
    BY <1>1 DEF Sound, IndexIn
  <1>3. PICK b \in L[g] : Names(memory[b.page][b.slot], j, index[g][j])
    BY <1>1 DEF Sound, IndexIn
  <1>4. PICK x, y : x = memory[a.page][a.slot] /\ y = memory[b.page][b.slot]
    OBVIOUS
  <1>5. x \in LogEntry /\ y \in LogEntry
    BY <1>4, PlacesIn, TypeFacts
  <1>6. PICK k \in 1..Len(x.data) : x.data[k] = index[f][i] /\ x.first + k - 1 = i
    BY <1>2, <1>4 DEF Names
  <1>7. PICK m \in 1..Len(y.data) : y.data[m] = index[f][i] /\ y.first + m - 1 = j
    BY <1>3, <1>4 DEF Names
  <1>8. index[f][i] \in Range(x.data) /\ index[f][i] \in Range(y.data)
        /\ k \in DOMAIN x.data /\ m \in DOMAIN y.data
    BY <1>5, <1>6, <1>7, EntryType DEF Range
  <1>9. a = b
    <2>1. ~Disjoint(x, y)
      BY <1>8 DEF Disjoint
    <2> QED
      BY <1>4, <2>1 DEF Sound, Once
  <1>10. f = g
    <2>1. a.page \in Range(c[f]) /\ a.page \in Range(c[g])
      BY <1>9, PlacesIn
    <2> QED
      BY <2>1 DEF Sound, Lines
  <1>11. x = y /\ IsInjective(x.data)
    BY <1>4, <1>9 DEF Sound, Once, InUse
  <1>12. k = m
    BY <1>6, <1>7, <1>8, <1>11 DEF IsInjective
  <1> QED
    BY <1>6, <1>7, <1>10, <1>11, <1>12

LEMMA MarksIndexed ==
  ASSUME TypeOK, TypeOK', NEW c, NEW L, Sound(c, L), MarksIn(L), CountsIn(c), OriginsRight,
         IndexPage
  PROVE  WellMarked'
  <1>1. /\ pc = "write" /\ fresh # <<>> /\ fresh' = Tail(fresh)
        /\ UNCHANGED <<next, head, tail, file, runs>> /\ runs = <<>> /\ file \in File
    BY TypeFacts DEF IndexPage, Sound, CallShape
  <1>2. /\ fresh \in Seq(FilePage \X Page) /\ Len(fresh) \in Nat /\ Len(fresh) # 0
        /\ DOMAIN fresh = 1..Len(fresh) /\ Head(fresh) = fresh[1]
        /\ DOMAIN fresh' = 1..(Len(fresh) - 1)
        /\ \A k \in 1..(Len(fresh) - 1) : fresh'[k] = fresh[k + 1]
        /\ \A k \in DOMAIN fresh : fresh[k] \in FilePage \X Page
    <2>1. fresh \in Seq(FilePage \X Page)
      BY DEF TypeOK
    <2>2. Len(fresh) \in Nat /\ Len(fresh) # 0
      BY <1>1, <2>1
    <2> QED
      BY <1>1, <2>1, <2>2
  <1>3. PICK i, q, old : i = fresh[1][1] /\ q = fresh[1][2] /\ old = index[file][i]
    OBVIOUS
  <1>4. 1 \in DOMAIN fresh /\ i \in FilePage /\ q \in Page /\ i = Head(fresh)[1] /\ q = Head(fresh)[2]
    <2>1. 1 \in DOMAIN fresh
      BY <1>2
    <2>2. fresh[1] \in FilePage \X Page
      BY <1>2, <2>1
    <2> QED
      BY <1>2, <1>3, <2>1, <2>2
  <1>5. /\ index'[file][i] = q
        /\ \A f \in File : \A j \in FilePage : f # file \/ j # i => index'[f][j] = index[f][j]
    <2>1. index \in [File -> [FilePage -> Page \cup {NoPage}]]
      BY DEF TypeOK
    <2>2. index' = [index EXCEPT ![file][i] = q]
      BY <1>4 DEF IndexPage
    <2> QED
      BY <1>1, <1>4, <2>1, <2>2
  <1>6. DataApart /\ NoPage \notin Page /\ q # NoPage
    BY <1>4, PagesCounted DEF Sound
  <1>7. Live' = Live \ {old}
    <2>1. old \notin Logged /\ Logged \subseteq Page
      <3>1. Logged \subseteq Page
        BY <1>2 DEF Logged
      <3>2. old # NoPage => old \in Indexed
        BY <1>1, <1>3, <1>4 DEF Indexed
      <3> QED
        BY <1>6, <3>1, <3>2 DEF DataApart
    <2>2. Logged = {q} \cup {fresh'[k][2] : k \in DOMAIN fresh'}
      <3>1. ASSUME NEW k \in DOMAIN fresh
            PROVE  fresh[k][2] \in {q} \cup {fresh'[m][2] : m \in DOMAIN fresh'}
        <4>1. CASE k = 1
          BY <1>3, <4>1
        <4>2. CASE k # 1
          <5>1. PICK m : m = k - 1
            OBVIOUS
          <5>2. m \in 1..(Len(fresh) - 1) /\ m + 1 = k
            BY <1>2, <4>2, <5>1
          <5> QED
            BY <1>2, <5>2
        <4> QED
          BY <4>1, <4>2
      <3>2. ASSUME NEW m \in DOMAIN fresh' PROVE fresh'[m][2] \in Logged
        <4>1. m + 1 \in DOMAIN fresh /\ fresh'[m] = fresh[m + 1]
          BY <1>2
        <4> QED
          BY <4>1 DEF Logged
      <3>3. q \in Logged
        BY <1>3, <1>4 DEF Logged
      <3> QED
        BY <3>1, <3>2, <3>3 DEF Logged
    <2>3. {index'[f][j] : f \in File, j \in FilePage} \ {NoPage} = (Indexed \ {old}) \cup {q}
      <3>1. ASSUME NEW f \in File, NEW j \in FilePage, index'[f][j] # NoPage
            PROVE  index'[f][j] \in (Indexed \ {old}) \cup {q}
        <4>1. CASE f = file /\ j = i
          BY <1>5, <4>1
        <4>2. CASE f # file \/ j # i
          <5>1. index'[f][j] = index[f][j] /\ index[f][j] \in Indexed
            BY <1>5, <3>1, <4>2 DEF Indexed
          <5>2. index[f][j] # index[file][i]
            BY <1>1, <1>4, <3>1, <4>2, <5>1, IndexedOnce
          <5> QED
            BY <1>3, <5>1, <5>2
        <4> QED
          BY <4>1, <4>2
      <3>2. ASSUME NEW p \in Indexed, p # old
            PROVE  \E f \in File, j \in FilePage : p = index'[f][j] /\ p # NoPage
        <4>1. PICK f \in File, j \in FilePage : p = index[f][j] /\ p # NoPage
          BY DEF Indexed
        <4> QED
          BY <1>3, <1>5, <3>2, <4>1
      <3> QED
        BY <1>1, <1>4, <1>5, <1>6, <3>1, <3>2
    <2>4. /\ Indexed' = {index'[f][j] : f \in File, j \in FilePage} \ {NoPage}
          /\ Logged' = {fresh'[k][2] : k \in DOMAIN fresh'}
      BY DEF Indexed, Logged
    <2>5. Live' = ((Indexed \ {old}) \cup {q}) \cup Logged'
      BY <2>3, <2>4 DEF Live
    <2>6. Logged = {q} \cup Logged'
      BY <2>2, <2>4
    <2> QED
      BY <2>1, <2>5, <2>6 DEF Live
  <1>8. CASE old = NoPage
    <2>1. UNCHANGED <<node, memory>>
      BY <1>3, <1>4, <1>8 DEF IndexPage
    <2>2. old \notin Live
      <3>1. Logged \subseteq Page
        BY <1>2 DEF Logged
      <3> QED
        BY <1>6, <1>8, <3>1 DEF Live, Indexed
    <2>3. Live' = Live
      BY <1>7, <2>2
    <2> QED
      BY <1>1, <2>1, <2>3, MarksUntouched
  <1>9. CASE old # NoPage
    <2>1. PICK a : a = origin[old]
      OBVIOUS
    <2>2. PICK x, y : x = memory[a.page][a.slot] /\ y = memory'[a.page][a.slot]
      OBVIOUS
    <2>3. a \in L[file] /\ Names(x, i, old)
      BY <1>1, <1>3, <1>4, <1>9, <2>1, <2>2, PointsBack
    <2>4. /\ a.page \in Range(c[file]) /\ a.page \in Page /\ a.slot \in 0..(Slots - 1)
          /\ a.slot < (IF a.page = tail[file].page THEN tail[file].slot ELSE Slots)
          /\ a = [page |-> a.page, slot |-> a.slot]
      BY <1>1, <2>3, PlacesIn
    <2>5. a.page \notin isData
      BY <1>1, <2>4 DEF Sound, Clear
    <2>6. Invalidate(a, i)
      BY <1>3, <1>4, <1>9, <2>1, <2>4, <2>5, PagesCounted DEF IndexPage, MarkOld
    <2>7. x \in LogEntry /\ y \in LogEntry /\ MarkedBy(x, Live) /\ IsInjective(x.data)
      <3>1. memory' \in [Page -> [0..(Slots - 1) -> LogEntry]]
        BY DEF TypeOK
      <3>2. x \in LogEntry /\ y \in LogEntry
        <4>1. memory \in [Page -> [0..(Slots - 1) -> LogEntry]]
          BY DEF TypeOK
        <4>2. x \in LogEntry
          BY <2>2, <2>4, <4>1
        <4>3. y \in LogEntry
          BY <2>2, <2>4, <3>1
        <4> QED
          BY <4>2, <4>3
      <3>3. MarkedBy(x, Live) /\ InUse(x)
        BY <1>1, <2>2, <2>3 DEF MarksIn, Sound, Once
      <3> QED
        BY <3>2, <3>3 DEF InUse
    <2>8. PICK n \in 1..Len(x.data) : x.data[n] = old /\ x.first + n - 1 = i
      BY <2>3 DEF Names
    <2>9. PICK k : k = n - 1
      OBVIOUS
    <2>10. /\ k \in 0..(Len(x.data) - 1) /\ x.data[k + 1] = old /\ (i - x.first) % 64 = k
           /\ n \in DOMAIN x.data
      <3>1. /\ Len(x.data) \in Nat /\ x.first \in Nat /\ Len(x.data) <= MaxPerEntry
            /\ MaxPerEntry <= 64 /\ MaxPerEntry \in Nat /\ DOMAIN x.data = 1..Len(x.data)
        BY <2>7, EntryType, PagesCounted
      <3>2. k \in 0..(Len(x.data) - 1) /\ k + 1 = n /\ k \in 0..63 /\ i - x.first = k
        <4>1. PICK len, first : len = Len(x.data) /\ first = x.first
          OBVIOUS
        <4>2. n \in 1..len /\ len \in Nat /\ first \in Nat /\ len <= 64 /\ first + n - 1 = i
          BY <2>8, <3>1, <4>1
        <4>3. k \in 0..(len - 1) /\ k + 1 = n /\ k \in 0..63 /\ i - first = k
          BY <2>9, <4>2
        <4> QED
          BY <4>1, <4>3
      <3>3. k % 64 = k
        BY <3>2
      <3> QED
        BY <2>8, <3>1, <3>2, <3>3
    <2>11. old \in Live
      BY <1>1, <1>3, <1>4, <1>9 DEF Live, Indexed
    <2>12. /\ y.data = x.data /\ y.bitmap = x.bitmap \cup {k} /\ y.invalid = x.invalid + 1
           /\ \A p \in Page : \A s \in 0..(Slots - 1) :
                p # a.page \/ s # a.slot => memory'[p][s] = memory[p][s]
      <3>1. PICK m : m = x.invalid + 1
        OBVIOUS
      <3>2. PICK new : new = [x EXCEPT !.bitmap = @ \cup {k}, !.invalid = m]
        OBVIOUS
      <3>3. memory' = [memory EXCEPT ![a.page][a.slot] = new]
        BY <2>2, <2>6, <2>10, <3>1, <3>2 DEF Invalidate, Entry
      <3>4. memory \in [Page -> [0..(Slots - 1) -> LogEntry]]
        BY DEF TypeOK
      <3>5. y = new
        BY <2>2, <2>4, <3>3, <3>4
      <3>6. x = [data |-> x.data, first |-> x.first, bitmap |-> x.bitmap, invalid |-> x.invalid]
        BY <2>7, EntryType
      <3>7. PICK dd, ff, bb, ii : dd = x.data /\ ff = x.first /\ bb = x.bitmap /\ ii = x.invalid
        OBVIOUS
      <3>8. x = [data |-> dd, first |-> ff, bitmap |-> bb, invalid |-> ii]
        BY <3>6, <3>7
      <3>9. new = [data |-> dd, first |-> ff, bitmap |-> bb \cup {k}, invalid |-> m]
        BY <3>2, <3>8
      <3>10. new.data = dd /\ new.bitmap = bb \cup {k} /\ new.invalid = m
        BY <3>9
      <3>11. \A p \in Page : \A s \in 0..(Slots - 1) :
                p # a.page \/ s # a.slot => memory'[p][s] = memory[p][s]
        BY <2>4, <3>3, <3>4
      <3> QED
        BY <3>1, <3>5, <3>7, <3>10, <3>11
    <2>13. MarkedBy(y, Live') /\ x.invalid < Len(x.data)
      BY <1>7, <2>7, <2>10, <2>11, <2>12, MarkAdded
    <2>14. ASSUME NEW f \in File, NEW b \in L[f] PROVE MarkedBy(memory'[b.page][b.slot], Live')
      <3>1. CASE b = a
        BY <2>2, <2>13, <3>1
      <3>2. CASE b # a
        <4>1. PICK z : z = memory[b.page][b.slot]
          OBVIOUS
        <4>2. /\ b.page \in Page /\ b.slot \in 0..(Slots - 1) /\ b = [page |-> b.page, slot |-> b.slot]
              /\ z \in LogEntry
          <5>1. /\ b.page \in Page /\ b.slot \in 0..(Slots - 1)
                /\ b = [page |-> b.page, slot |-> b.slot]
            BY PlacesIn
          <5>2. \A p \in Page : \A s \in 0..(Slots - 1) : memory[p][s] \in LogEntry
            BY TypeFacts
          <5> QED
            BY <4>1, <5>1, <5>2
        <4>3. b.page # a.page \/ b.slot # a.slot
          BY <2>4, <3>2, <4>2
        <4>4. memory'[b.page][b.slot] = z
          BY <2>12, <4>1, <4>2, <4>3
        <4>5. MarkedBy(z, Live) /\ Disjoint(z, x)
          BY <1>1, <2>2, <2>3, <3>2, <4>1 DEF MarksIn, Sound, Once
        <4>6. old \notin Range(z.data)
          BY <2>8, <2>10, <4>5 DEF Disjoint, Range
        <4>7. \A p \in Range(z.data) : p \in Live <=> p \in Live'
          BY <1>7, <4>6
        <4> QED
          BY <4>2, <4>4, <4>5, <4>7, MarkedSame
      <3> QED
        BY <3>1, <3>2
    <2>15. MarksIn(L)'
      <3>1. DOMAIN runs' = {}
        <4>1. DOMAIN <<>> = {}
          OBVIOUS
        <4> QED
          BY <1>1, <4>1
      <3> QED
        BY <2>14, <3>1 DEF MarksIn
    <2>16. PICK m, w, row, new : /\ m = node[a.page] /\ w = node'[a.page]
                                 /\ row = memory[a.page] /\ new = memory'[a.page]
      OBVIOUS
    <2>17. /\ m \in [obj : Nat, invalid : Nat, pages : Nat, invalidPages : Nat]
           /\ w = [obj |-> m.obj, pages |-> m.pages, invalidPages |-> m.invalidPages + 1,
                   invalid |-> IF Len(x.data) = x.invalid + 1 THEN m.invalid + 1 ELSE m.invalid]
           /\ \A p \in Page : p # a.page => node'[p] = node[p]
      <3>1. node \in [Page -> [obj : Nat, invalid : Nat, pages : Nat, invalidPages : Nat]]
        BY DEF TypeOK
      <3>2. m \in [obj : Nat, invalid : Nat, pages : Nat, invalidPages : Nat]
        BY <2>4, <2>16, <3>1
      <3>3. PICK t : t = (Len(x.data) = x.invalid + 1)
        OBVIOUS
      <3>4. PICK v : v = [m EXCEPT !.invalidPages = @ + 1, !.invalid = IF t THEN @ + 1 ELSE @]
        OBVIOUS
      <3>5. node' = [node EXCEPT ![a.page].invalidPages = @ + 1,
                                 ![a.page].invalid = IF t THEN @ + 1 ELSE @]
        BY <2>2, <2>6, <3>3 DEF Invalidate, Entry
      <3>6. node' = [node EXCEPT ![a.page] = v]
        BY <2>4, <2>16, <3>1, <3>4, <3>5
      <3>7. w = v /\ \A p \in Page : p # a.page => node'[p] = node[p]
        BY <2>4, <2>16, <3>1, <3>6
      <3>8. v = [obj |-> m.obj, invalid |-> IF t THEN m.invalid + 1 ELSE m.invalid,
                 pages |-> m.pages, invalidPages |-> m.invalidPages + 1]
        BY <3>2, <3>4
      <3>9. v = [obj |-> m.obj, pages |-> m.pages, invalidPages |-> m.invalidPages + 1,
                 invalid |-> IF t THEN m.invalid + 1 ELSE m.invalid]
        BY <3>8
      <3> QED
        BY <3>2, <3>3, <3>7, <3>9
    <2>18. ASSUME NEW f \in File, NEW p \in Range(c[f])
           PROVE  CountsOf(node'[p], IF p = tail[f].page THEN tail[f].slot ELSE Slots, memory'[p])
      <3>1. PICK N : N = IF p = tail[f].page THEN tail[f].slot ELSE Slots
        OBVIOUS
      <3>2. CountsOf(node[p], N, memory[p]) /\ N \in 0..Slots /\ p \in Page
        <4>1. p \in Page
          BY LogIs
        <4>2. tail[f].slot \in 0..Slots /\ Slots \in 0..Slots
          BY PagesCounted, TypeFacts
        <4> QED
          BY <3>1, <4>1, <4>2 DEF CountsIn
      <3>3. CASE p # a.page
        <4>1. \A s \in 0..(N - 1) : memory'[p][s] = memory[p][s]
          <5>1. \A s \in 0..(N - 1) : s \in 0..(Slots - 1)
            BY <3>2, PagesCounted
          <5> QED
            BY <2>12, <3>2, <3>3, <5>1
        <4>2. CountsOf(node[p], N, memory'[p])
          BY <3>2, <4>1, CountsSame
        <4> QED
          BY <2>17, <3>1, <3>2, <3>3, <4>2
      <3>4. CASE p = a.page
        <4>1. f = file
          BY <1>1, <2>4, <3>4 DEF Sound, Lines
        <4>2. a.slot < N
          BY <2>4, <3>1, <3>4, <4>1
        <4>3. a.slot \in 0..(N - 1) /\ \A s \in 0..(N - 1) : s \in 0..(Slots - 1)
          BY <2>4, <3>2, <4>2, PagesCounted
        <4>4. /\ row \in [0..(Slots - 1) -> LogEntry] /\ new \in [0..(Slots - 1) -> LogEntry]
              /\ row[a.slot] = x /\ new[a.slot] = y
          <5>1. memory' \in [Page -> [0..(Slots - 1) -> LogEntry]]
            BY DEF TypeOK
          <5> QED
            BY <2>2, <2>4, <2>16, <5>1, TypeFacts
        <4>5. \A s \in 0..(N - 1) : s # a.slot => new[s] = row[s]
          BY <2>4, <2>12, <2>16, <4>3
        <4>6. RowMarked(m, N, row, a.slot, w, new)
          BY <2>12, <2>13, <2>16, <2>17, <3>2, <3>4, <4>3, <4>4, <4>5 DEF RowMarked
        <4>7. CountsOf(w, N, new)
          BY <4>6, CountsMarked
        <4> QED
          BY <2>16, <3>1, <3>4, <4>7
      <3> QED
        BY <3>3, <3>4
    <2>19. CountsIn(c)'
      BY <1>1, <2>18 DEF CountsIn
    <2>20. Lines(c)' /\ Placed(c, L)'
      BY <1>1 DEF Sound, Lines, Placed
    <2> QED
      BY <2>15, <2>19, <2>20 DEF WellMarked
  <1> QED
    BY <1>8, <1>9
LEMMA NotMarked ==
  ASSUME NEW c, NEW L, Sound(c, L), MarksIn(L), CountsIn(c), fault = "none", ~Creates,
         ~WriteEntry, ~MoveRun, ~IndexPage, ~TakePage, TypeOK, [Next]_vars
  PROVE  WellMarked'
  <1>1. UNCHANGED <<next, node, memory, head, tail, runs, index, fresh>>
    <2>1. CASE UNCHANGED vars
      BY <2>1 DEF vars, pool, inodes
    <2>2. ASSUME NEW f \in File, Create(f) PROVE FALSE
      <3>1. PICK p \in free : head' = [head EXCEPT ![f] = p]
        BY <2>2 DEF Create
      <3>2. head[f] = NoPage /\ head'[f] = p /\ p # NoPage
        BY <2>2, <3>1, PagesCounted DEF Create, TypeOK
      <3> QED
        BY <3>2 DEF Creates
    <2>3. CASE \E f \in File : BeginWrite(f)
      BY <2>3 DEF BeginWrite, pool, inodes
    <2>4. CASE \E f \in File : BeginScan(f)
      BY <2>4 DEF BeginScan, pool, inodes
    <2>5. CASE EndWrite \/ SkipPage \/ EndScan \/ RunDry
      BY <2>5 DEF EndWrite, SkipPage, EndScan, RunDry, pool, inodes
    <2>6. CASE FreeBlock
      BY <2>6 DEF FreeBlock, inodes
    <2> QED
      BY <2>1, <2>2, <2>3, <2>4, <2>5, <2>6 DEF Next
  <1>2. Live' = Live
    BY <1>1 DEF Live, Indexed, Logged
  <1> QED
    BY <1>1, <1>2, MarksUntouched

LEMMA MarksStep ==
  ASSUME IInv, IInv', Exact, ~Creates, [Next]_vars
  PROVE  (MarksExact /\ CountersExact)'
  <1>1. CASE fault = "none"
    <2>1. TypeOK /\ TypeOK' /\ MarksExact /\ CountersExact /\ OriginsRight /\ \E c, L : Sound(c, L)
      BY <1>1, Unfold DEF IInv, Exact
    <2>2. PICK c, L : Sound(c, L)
      BY <2>1
    <2>3. MarksIn(L) /\ CountsIn(c)
      BY <1>1, <2>1, <2>2, ExactUnfolds
    <2>4. WellMarked'
      <3>1. CASE WriteEntry
        BY <2>1, <2>2, <2>3, <3>1, MarksWritten
      <3>2. CASE MoveRun
        BY <2>1, <2>2, <2>3, <3>2, MarksMoved
      <3>3. CASE IndexPage
        BY <2>1, <2>2, <2>3, <3>3, MarksIndexed
      <3>4. CASE TakePage
        <4>1. PICK p, e : Taken(c, L, p, e)
          BY <1>1, <2>1, <2>2, <3>4, TakesPage
        <4> QED
          BY <2>1, <2>2, <2>3, <4>1, MarksTaken
      <3> QED
        BY <1>1, <2>1, <2>2, <2>3, <3>1, <3>2, <3>3, <3>4, NotMarked
    <2>5. (TypeOK /\ WellMarked => MarksExact /\ CountersExact)'
      BY ExactFolds, PTL
    <2> QED
      BY <2>1, <2>4, <2>5
  <1>2. CASE fault # "none"
    <2>1. UNCHANGED vars
      BY <1>2 DEF Next, vars
    <2>2. MarksExact'
      <3>1. UNCHANGED <<memory, next, head, tail, index, fresh, runs>>
        BY <2>1 DEF vars, pool, inodes
      <3>2. \A p : Current(p)' = Current(p)
        BY <3>1 DEF Current, Indexed
      <3>3. \A e : ExactlyMarked(e)' = ExactlyMarked(e)
        BY <3>2 DEF ExactlyMarked, Superseded
      <3>4. \A f : Addresses(f)' = Addresses(f)
        BY <3>1 DEF Addresses, LogPages, NumEntries
      <3>5. \A a : Entry(a)' = Entry(a)
        BY <3>1 DEF Entry
      <3>6. MarksExact
        BY DEF Exact
      <3> QED
        BY <3>1, <3>3, <3>4, <3>5, <3>6 DEF MarksExact
    <2>3. CountersExact'
      BY <1>2, <2>1 DEF vars, CountersExact
    <2> QED
      BY <2>2, <2>3
  <1> QED
    BY <1>1, <1>2

(* As long as the marks, counters and back pointers are right, no entry    *)
(* that nvmio_write appends or supersedes and no page that start_gc_task   *)
(* collects or skips spoils a mark or a counter; only init_atfs_inode may. *)
THEOREM MarksStay == Spec => MarksStayExact
  <1>1. ASSUME IInv, IInv', [Next]_vars
        PROVE  [Exact /\ ~Creates => (MarksExact /\ CountersExact)']_vars
    BY <1>1, MarksStep
  <1> QED
    BY <1>1, Safety, PTL DEF Spec, MarksStayExact
-----------------------------------------------------------------------------
(* What is reached between two places of a chain are the pages between     *)
(* them, as long as the links up to the second one are those of the chain. *)
LEMMA StretchReached ==
  ASSUME NEW s \in Seq(Page), IsInjective(s),
         NEW links \in [Page -> Page \cup {NoPage}],
         NEW k \in 1..Len(s), NEW m \in k..Len(s),
         \A i \in k..(m - 1) : links[s[i]] = s[i + 1]
  PROVE  Reached(s[k], s[m], links) = {s[i] : i \in k..m}
  <1>1. /\ Len(s) \in Nat /\ k \in Nat /\ m \in Nat /\ 1 <= k /\ k <= m /\ m <= Len(s)
        /\ \A i, j \in 1..Len(s) : s[i] = s[j] => i = j
        /\ \A i \in 1..Len(s) : s[i] \in Page
    BY ChainSize
  <1>2. PICK n \in Nat : n = m - k + 1 /\ n >= 1
    BY <1>1
  <1>3. PICK w : w = [i \in 1..n |-> s[k + i - 1]]
    OBVIOUS
  <1>4. \A i \in 1..n : k + i - 1 \in 1..Len(s) /\ w[i] = s[k + i - 1]
    BY <1>1, <1>2, <1>3
  <1>5. w \in Seq(Page) /\ Len(w) = n /\ DOMAIN w = 1..n
    BY <1>1, <1>2, <1>3, <1>4
  <1>6. IsInjective(w)
    <2> SUFFICES ASSUME NEW i \in 1..n, NEW j \in 1..n, w[i] = w[j] PROVE i = j
      BY <1>5 DEF IsInjective
    <2>1. k + i - 1 = k + j - 1
      BY <1>1, <1>4
    <2> QED
      BY <1>1, <2>1
  <1>7. Chained(s[k], s[m], links, w)
    <2>1. 1 \in 1..n /\ n \in 1..n /\ k + 1 - 1 = k /\ k + n - 1 = m
      BY <1>1, <1>2
    <2>2. w # <<>> /\ w[1] = s[k] /\ w[n] = s[m]
      <3>1. Len(<<>>) = 0
        OBVIOUS
      <3> QED
        BY <1>2, <1>4, <1>5, <2>1, <3>1
    <2>3. ASSUME NEW i \in 1..(n - 1) PROVE links[w[i]] = w[i + 1]
      <3>1. /\ k + i - 1 \in k..(m - 1) /\ i \in 1..n /\ i + 1 \in 1..n
            /\ k + (i + 1) - 1 = (k + i - 1) + 1
        BY <1>1, <1>2
      <3>2. w[i] = s[k + i - 1] /\ w[i + 1] = s[(k + i - 1) + 1]
        BY <1>4, <3>1
      <3> QED
        BY <3>1, <3>2
    <2> QED
      BY <1>5, <1>6, <2>2, <2>3 DEF Chained
  <1>8. Reached(s[k], s[m], links) = Range(w)
    BY <1>5, <1>7, ReachedChain
  <1>9. Range(w) = {s[i] : i \in k..m}
    <2>1. ASSUME NEW i \in 1..n PROVE k + i - 1 \in k..m
      BY <1>1, <1>2
    <2>2. ASSUME NEW i \in k..m PROVE i - k + 1 \in 1..n /\ k + (i - k + 1) - 1 = i
      BY <1>1, <1>2
    <2>3. Range(w) = {w[i] : i \in 1..n}
      BY <1>5 DEF Range
    <2>4. \A i \in 1..n : w[i] \in {s[j] : j \in k..m}
      BY <1>4, <2>1
    <2>5. \A i \in k..m : s[i] \in {w[j] : j \in 1..n}
      <3> TAKE i \in k..m
      <3>1. w[i - k + 1] = s[i] /\ i - k + 1 \in 1..n
        BY <1>4, <2>2
      <3> QED
        BY <3>1
    <2> QED
      BY <2>3, <2>4, <2>5
  <1> QED
    BY <1>8, <1>9

(* The collector is somewhere in the log s of its file, at place k, on its *)
(* way to place m.                                                         *)
Between(s, k, m) ==
  /\ s \in Seq(Page) /\ IsInjective(s)
  /\ k \in 1..Len(s) /\ m \in k..Len(s)
  /\ scan.at = s[k] /\ scan.stop = s[m]
  /\ k > 1 => scan.prev = s[k - 1]
  /\ Ahead = {s[i] : i \in k..m}
  /\ \A i \in 1..(Len(s) - 1) : next[s[i]] = s[i + 1]
  /\ tail[file].page = s[Len(s)]

LEMMA AheadIs ==
  ASSUME TypeOK, NEW c, NEW L, Sound(c, L), pc \in {"scan", "move"}
  PROVE  \E k, m : Between(c[file], k, m)
  <1>1. PICK s, t : s = c[file] /\ t = tail[file].page
    OBVIOUS
  <1>2. /\ s \in Seq(Page) /\ Chained(head[file], t, next, s) /\ Scanning(s)
        /\ next \in [Page -> Page \cup {NoPage}]
    <2>1. c[file] \in Seq(Page) /\ Chained(head[file], tail[file].page, next, c[file])
      BY LogIs, TypeFacts
    <2>2. Scanning(c[file])
      BY DEF Sound, Walks
    <2> QED
      BY <1>1, <2>1, <2>2, TypeFacts
  <1>3. PICK k \in 1..Len(s) : /\ scan.at = s[k] /\ (k > 1 => scan.prev = s[k - 1])
                               /\ \E m \in k..Len(s) : scan.stop = s[m]
    BY <1>2 DEF Scanning
  <1>4. PICK m \in k..Len(s) : scan.stop = s[m]
    BY <1>3
  <1>5. IsInjective(s) /\ \A i \in 1..(Len(s) - 1) : next[s[i]] = s[i + 1]
    BY <1>2 DEF Chained
  <1>6. \A i \in k..(m - 1) : i \in 1..(Len(s) - 1)
    BY <1>2, <1>3, <1>4
  <1>7. Ahead = {s[i] : i \in k..m}
    <2>1. \A i \in k..(m - 1) : next[s[i]] = s[i + 1]
      BY <1>5, <1>6
    <2>2. Reached(s[k], s[m], next) = {s[i] : i \in k..m}
      BY <1>2, <1>4, <1>5, <2>1, StretchReached
    <2> QED
      BY <1>3, <1>4, <2>2 DEF Ahead
  <1>8. t = s[Len(s)]
    <2>1. s # <<>> /\ s \in Seq(Page)
      <3>1. Len(<<>>) = 0 /\ 1..0 = {}
        OBVIOUS
      <3> QED
        BY <1>2, <1>3, <3>1
    <2>2. Chained(head[file], t, next, s)
      BY <1>2
    <2> QED
      BY <2>1, <2>2, ChainEnds
  <1>9. Between(s, k, m)
    BY <1>1, <1>2, <1>3, <1>4, <1>5, <1>7, <1>8 DEF Between
  <1> QED
    BY <1>1, <1>9

(* A step of the walk, whether it leaves the page at hand or takes it.     *)
LEMMA WalkStep ==
  ASSUME TypeOK, next' \in [Page -> Page \cup {NoPage}],
         NEW s, NEW k, NEW m, Between(s, k, m),
         scan.at # scan.stop, scan'.at = next[scan.at], scan'.stop = scan.stop,
         \A q \in Page : q \notin {scan.at, scan.prev} => next'[q] = next[q],
         k = 1 => \A q \in Page : q # scan.at => next'[q] = next[q]
  PROVE  Ahead' = Ahead \ {scan.at} /\ {scan.at, scan.stop} \subseteq Ahead
  <1>1. /\ s \in Seq(Page) /\ IsInjective(s) /\ k \in 1..Len(s) /\ m \in k..Len(s)
        /\ scan.at = s[k] /\ scan.stop = s[m] /\ (k > 1 => scan.prev = s[k - 1])
        /\ Ahead = {s[i] : i \in k..m}
        /\ \A i \in 1..(Len(s) - 1) : next[s[i]] = s[i + 1]
    BY DEF Between
  <1>2. /\ Len(s) \in Nat /\ \A i, j \in 1..Len(s) : s[i] = s[j] => i = j
        /\ \A i \in 1..Len(s) : s[i] \in Page
    BY <1>1, ChainSize
  <1>3. k # m
    BY <1>1
  <1>4. k < m /\ k + 1 \in 1..Len(s) /\ m \in (k + 1)..Len(s) /\ k \in 1..(Len(s) - 1)
    BY <1>1, <1>2, <1>3
  <1>5. ASSUME NEW i \in (k + 1)..(m - 1) PROVE next'[s[i]] = s[i + 1]
    <2>1. i \in 1..(Len(s) - 1) /\ i \in 1..Len(s) /\ i # k /\ i # k - 1
      BY <1>1, <1>2, <1>4
    <2>2. s[i] \in Page /\ s[i] # s[k] /\ next[s[i]] = s[i + 1]
      BY <1>1, <1>2, <2>1
    <2>3. CASE k = 1
      BY <1>1, <2>2, <2>3
    <2>4. CASE k > 1
      <3>1. k - 1 \in 1..Len(s)
        BY <1>1, <1>2, <2>4
      <3>2. s[i] # s[k - 1]
        BY <1>2, <2>1, <3>1
      <3> QED
        BY <1>1, <2>2, <2>4, <3>2
    <2> QED
      BY <1>1, <1>2, <2>3, <2>4
  <1>6. scan'.at = s[k + 1] /\ scan'.stop = s[m]
    BY <1>1, <1>4
  <1>7. Ahead' = {s[i] : i \in (k + 1)..m}
    <2>1. Reached(s[k + 1], s[m], next') = {s[i] : i \in (k + 1)..m}
      BY <1>1, <1>4, <1>5, StretchReached
    <2> QED
      BY <1>6, <2>1 DEF Ahead
  <1>8. {s[i] : i \in (k + 1)..m} = {s[i] : i \in k..m} \ {s[k]}
    <2>1. \A i \in (k + 1)..m : i \in k..m /\ i \in 1..Len(s) /\ i # k
      BY <1>1, <1>2
    <2>2. \A i \in k..m : i = k \/ i \in (k + 1)..m
      BY <1>1, <1>2
    <2>3. \A i \in (k + 1)..m : s[i] # s[k]
      BY <1>1, <1>2, <2>1
    <2>4. \A x \in {s[i] : i \in (k + 1)..m} : x \in {s[i] : i \in k..m} \ {s[k]}
      BY <2>1, <2>3
    <2>5. \A x \in {s[i] : i \in k..m} \ {s[k]} : x \in {s[i] : i \in (k + 1)..m}
      <3> TAKE x \in {s[i] : i \in k..m} \ {s[k]}
      <3>1. PICK i \in k..m : x = s[i] /\ i # k
        OBVIOUS
      <3> QED
        BY <2>2, <3>1
    <2> QED
      BY <2>4, <2>5
  <1>9. k \in k..m /\ m \in k..m
    BY <1>1, <1>2
  <1>10. s[k] \in Ahead /\ s[m] \in Ahead
    BY <1>1, <1>9
  <1>11. Ahead' = Ahead \ {s[k]}
    <2>1. Ahead = {s[i] : i \in k..m}
      BY <1>1
    <2> QED
      BY <1>7, <1>8, <2>1
  <1> QED
    BY <1>1, <1>10, <1>11

(* A step of gc_log_block leaves the links up to the stop as they are: an  *)
(* append writes to the last page, or behind it, and a page that was free. *)
LEMMA MoveStep ==
  ASSUME TypeOK, TypeOK', NEW c, NEW L, Sound(c, L), pc = "move", Next, fault = "none"
  PROVE  Ahead' = Ahead
  <1>1. scan'.at = scan.at /\ scan'.stop = scan.stop /\ next' \in [Page -> Page \cup {NoPage}]
    <2>1. MoveRun \/ FreeBlock \/ RunDry
      BY DEF Next, Create, BeginWrite, BeginScan, WriteEntry, IndexPage, EndWrite,
             SkipPage, TakePage, EndScan
    <2>2. scan' = scan \/ scan' = [scan EXCEPT !.block = NoPage, !.dead = {}]
      BY <2>1 DEF MoveRun, FreeBlock, RunDry
    <2>3. scan = [at |-> scan.at, prev |-> scan.prev, stop |-> scan.stop,
                  block |-> scan.block, dead |-> scan.dead]
      BY TypeFacts
    <2> QED
      BY <2>2, <2>3 DEF TypeOK
  <1>2. CASE next' = next
    BY <1>1, <1>2 DEF Ahead
  <1>3. CASE next' # next
    <2>1. PICK lp \in NewLogPage(file, free) : AppendEntry(file, Head(runs), lp)
      BY <1>3 DEF Next, Create, BeginWrite, BeginScan, WriteEntry, IndexPage, EndWrite,
                  SkipPage, TakePage, EndScan, FreeBlock, RunDry, MoveRun, vars, pool
    <2>2. PICK s : s = c[file]
      OBVIOUS
    <2>3. PICK k, m : Between(s, k, m)
      BY <2>2, AheadIs
    <2>4. /\ s \in Seq(Page) /\ IsInjective(s) /\ k \in 1..Len(s) /\ m \in k..Len(s)
          /\ scan.at = s[k] /\ scan.stop = s[m] /\ Ahead = {s[i] : i \in k..m}
          /\ \A i \in 1..(Len(s) - 1) : next[s[i]] = s[i + 1]
          /\ tail[file].page = s[Len(s)]
      BY <2>3 DEF Between
    <2>5. /\ Len(s) \in Nat /\ \A i, j \in 1..Len(s) : s[i] = s[j] => i = j
          /\ \A i \in 1..Len(s) : s[i] \in Page /\ s[i] \in Range(s)
      BY <2>4, ChainSize
    <2>6. next' = [next EXCEPT ![tail[file].page] = lp, ![lp] = NoPage] /\ lp \notin Range(s)
      <3>1. Full(file)
        BY <1>3, <2>1 DEF AppendEntry
      <3>2. head[file] # NoPage
        BY LogOpen
      <3>3. lp \notin Range(c[file])
        BY <2>1, <3>1, <3>2, TargetIs, TypeFacts
      <3> QED
        BY <2>1, <2>2, <3>1, <3>3 DEF AppendEntry
    <2>7. ASSUME NEW i \in k..(m - 1) PROVE next'[s[i]] = s[i + 1]
      <3>1. i \in 1..(Len(s) - 1) /\ i \in 1..Len(s) /\ Len(s) \in 1..Len(s) /\ i # Len(s)
        BY <2>4, <2>5
      <3>2. s[i] # s[Len(s)] /\ s[i] # lp /\ s[i] \in Page
        BY <2>5, <2>6, <3>1
      <3>3. next \in [Page -> Page \cup {NoPage}]
        BY TypeFacts
      <3>4. next'[s[i]] = next[s[i]]
        BY <2>4, <2>6, <3>2, <3>3
      <3> QED
        BY <2>4, <3>1, <3>4
    <2>8. Reached(s[k], s[m], next') = {s[i] : i \in k..m}
      BY <1>1, <2>4, <2>7, StretchReached
    <2> QED
      BY <1>1, <2>4, <2>8 DEF Ahead
  <1> QED
    BY <1>2, <1>3

(* What the links are after the page at hand is left or taken.             *)
LEMMA ScanStep ==
  ASSUME TypeOK, TypeOK', NEW c, NEW L, Sound(c, L), pc = "scan", pc' # "idle", Next,
         fault = "none"
  PROVE  Ahead' = Ahead \ {scan.at} /\ {scan.at, scan.stop} \subseteq Ahead
  <1>1. PICK k, m : Between(c[file], k, m)
    BY AheadIs
  <1>2. /\ next \in [Page -> Page \cup {NoPage}] /\ next' \in [Page -> Page \cup {NoPage}]
        /\ scan = [at |-> scan.at, prev |-> scan.prev, stop |-> scan.stop,
                   block |-> scan.block, dead |-> scan.dead]
    BY TypeFacts DEF TypeOK
  <1>3. SkipPage \/ TakePage
    BY DEF Next, Create, BeginWrite, BeginScan, WriteEntry, IndexPage, EndWrite,
           MoveRun, FreeBlock, RunDry, EndScan
  <1>4. CASE SkipPage
    <2>1. /\ scan.at # scan.stop /\ next' = next
          /\ scan' = [scan EXCEPT !.prev = scan.at, !.at = next[scan.at]]
      BY <1>4 DEF SkipPage, pool
    <2>2. scan'.at = next[scan.at] /\ scan'.stop = scan.stop
      BY <1>2, <2>1
    <2> QED
      BY <1>1, <1>2, <2>1, <2>2, WalkStep
  <1>5. CASE TakePage
    <2>1. scan.at # scan.stop /\ Unlink
      BY <1>5 DEF TakePage
    <2>2. scan'.at = next[scan.at] /\ scan'.stop = scan.stop
      <3>1. \E d : scan' = [scan EXCEPT !.at = next[scan.at], !.block = scan.at, !.dead = d]
        BY <1>5 DEF TakePage
      <3> QED
        BY <1>2, <3>1
    <2>3. \A q \in Page : q \notin {scan.at, scan.prev} => next'[q] = next[q]
      BY <1>2, <2>1 DEF Unlink
    <2>4. ASSUME k = 1, NEW q \in Page, q # scan.at PROVE next'[q] = next[q]
      <3>1. scan.at = head[file]
        <4>1. PICK s : s = c[file]
          OBVIOUS
        <4>2. s \in Seq(Page) /\ k \in 1..Len(s) /\ scan.at = s[k]
          BY <1>1, <4>1 DEF Between
        <4>3. s # <<>>
          <5>1. Len(<<>>) = 0 /\ 1..0 = {}
            OBVIOUS
          <5> QED
            BY <4>2, <5>1
        <4>4. Chained(head[file], tail[file].page, next, s)
          BY <4>1, LogIs, TypeFacts
        <4>5. head[file] = s[1]
          BY <4>2, <4>3, <4>4, ChainEnds
        <4> QED
          BY <2>4, <4>2, <4>5
      <3>2. next' = [next EXCEPT ![scan.at] = NoPage]
        BY <2>1, <3>1 DEF Unlink
      <3> QED
        BY <1>2, <2>4, <3>2
    <2> QED
      BY <1>1, <1>2, <2>1, <2>2, <2>3, <2>4, WalkStep
  <1> QED
    BY <1>3, <1>4, <1>5

(* start_gc_task stops: with every page that it looks at, the pages from   *)
(* there to the one where it stops are one fewer, the last of them is      *)
(* always that one, and what gc_log_block appends and frees in between     *)
(* changes nothing of this.  It is the safe half of CallsEnd.              *)
THEOREM WalkEnds == Spec => WalkShortens
  <1>1. ASSUME IInv, IInv', [Next]_vars
        PROVE  [/\ pc = "scan" /\ pc' # "idle" =>
                     Ahead' = Ahead \ {scan.at} /\ {scan.at, scan.stop} \subseteq Ahead
                /\ pc = "move" => Ahead' = Ahead]_vars
    <2> SUFFICES ASSUME ~UNCHANGED vars
                 PROVE  /\ pc = "scan" /\ pc' # "idle" =>
                             Ahead' = Ahead \ {scan.at} /\ {scan.at, scan.stop} \subseteq Ahead
                        /\ pc = "move" => Ahead' = Ahead
      OBVIOUS
    <2>1. Next /\ fault = "none"
      BY <1>1 DEF Next
    <2>2. TypeOK /\ TypeOK' /\ \E c, L : Sound(c, L)
      BY <1>1, <2>1, Unfold DEF IInv
    <2> QED
      BY <2>1, <2>2, ScanStep, MoveStep
  <1> QED
    BY <1>1, Safety, PTL DEF Spec, WalkShortens
=============================================================================
