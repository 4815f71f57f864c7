-------------------------- MODULE InodeTableProofs --------------------------
(***************************************************************************)
(* The inode lists are apart, their counts are covered, and the table is a *)
(* ledger of inodes, for any number of threads, CPUs and inodes, as long   *)
(* as no free has linked to a list that had changed under it.              *)
(***************************************************************************)
EXTENDS InodeTable, FiniteSetTheorems, WellFoundedInduction, TLAPS

-----------------------------------------------------------------------------
(* Runs of inodes.  One without repetitions is no longer than there are    *)
(* inodes.                                                                 *)
LEMMA RunSize ==
  ASSUME NEW s \in Seq(Inode), IsInjective(s)
  PROVE  /\ s \in Run
         /\ Len(s) \in 0..NumInodes
         /\ Cardinality(Range(s)) = Len(s)
  <1>1. s \in Injection(1..Len(s), Inode) /\ s \in Bijection(1..Len(s), Range(s))
    BY DEF IsInjective, Injection, Bijection, Surjection, Range
  <1>2. IsFiniteSet(Inode) /\ Cardinality(Inode) = NumInodes /\ NumInodes \in Nat
    BY FS_Interval, TableAssumption DEF Inode
  <1>3. Cardinality(1..Len(s)) <= NumInodes
    BY <1>1, <1>2, FS_Injection
  <1>4. Cardinality(1..Len(s)) = Len(s) /\ Len(s) \in Nat
    BY FS_Interval
  <1>5. Cardinality(Range(s)) = Len(s)
    BY <1>1, <1>4, FS_CountingElements DEF ExistsBijection
  <1>6. Len(s) \in 0..NumInodes /\ s \in [1..Len(s) -> Inode]
    BY <1>2, <1>3, <1>4
  <1> QED
    BY <1>5, <1>6 DEF Run

LEMMA RunShape ==
  ASSUME NEW s \in Run
  PROVE  /\ s \in Seq(Inode) /\ IsInjective(s)
         /\ Len(s) \in 0..NumInodes /\ DOMAIN s = 1..Len(s)
         /\ \A i \in 1..Len(s) : s[i] \in Inode
         /\ Range(s) \subseteq Inode
  <1>1. PICK n \in 0..NumInodes : s \in [1..n -> Inode]
    BY DEF Run
  <1>2. n \in Nat
    BY <1>1, TableAssumption
  <1>3. s \in Seq(Inode) /\ Len(s) = n
    BY <1>1, <1>2
  <1> QED
    BY <1>1, <1>3 DEF Run, Range

LEMMA SameRun ==
  ASSUME NEW s \in Run, NEW from, NEW links, NEW new,
         ChainedFrom(from, links, s),
         \A i \in Range(s) : new[i] = links[i]
  PROVE  ChainedFrom(from, new, s)
  BY RunShape DEF ChainedFrom, Range

LEMMA EmptyRun ==
  ASSUME NEW links
  PROVE  <<>> \in Run /\ ChainedFrom(NoInode, links, <<>>) /\ Range(<<>>) = {}
  <1>1. <<>> \in Seq(Inode) /\ Len(<<>>) = 0 /\ DOMAIN <<>> = {}
    OBVIOUS
  <1>2. IsInjective(<<>>)
    BY <1>1 DEF IsInjective
  <1>3. <<>> \in Run
    BY <1>1, <1>2, RunSize
  <1>4. Range(<<>>) = {}
    BY <1>1 DEF Range
  <1>5. ChainedFrom(NoInode, links, <<>>)
    BY <1>1 DEF ChainedFrom
  <1> QED
    BY <1>3, <1>4, <1>5

(* What a refill or the boot chains.                                       *)
LEMMA FreshRun ==
  ASSUME NEW n \in Nat, n + PerRefill <= NumInodes, NEW links,
         \A i \in Batch(n) : links[i] = ChainedDown(n, i)
  PROVE  \E s \in Run : /\ ChainedFrom(n + PerRefill, links, s)
                        /\ Range(s) = Batch(n) /\ Len(s) = PerRefill
  <1> DEFINE s == [k \in 1..PerRefill |-> n + PerRefill + 1 - k]
  <1>1. PerRefill \in Nat /\ PerRefill > 0 /\ NumInodes \in Nat /\ NoInode \notin Nat
    BY TableAssumption
  <1>2. s \in Seq(Inode) /\ Len(s) = PerRefill /\ DOMAIN s = 1..PerRefill
    BY <1>1 DEF Inode
  <1>3. \A k \in 1..PerRefill : s[k] = n + PerRefill + 1 - k
    OBVIOUS
  <1>4. s # <<>> /\ s[1] = n + PerRefill
    BY <1>1, <1>2, <1>3
  <1> HIDE DEF s
  <1>5. IsInjective(s)
    BY <1>1, <1>2, <1>3 DEF IsInjective
  <1>6. Range(s) = Batch(n)
    <2>1. Range(s) \subseteq Batch(n)
      BY <1>1, <1>2, <1>3 DEF Range, Batch
    <2>2. ASSUME NEW i \in Batch(n) PROVE i \in Range(s)
      <3>1. n + PerRefill + 1 - i \in 1..PerRefill
            /\ n + PerRefill + 1 - (n + PerRefill + 1 - i) = i
        BY <1>1 DEF Batch
      <3>2. s[n + PerRefill + 1 - i] = i
        BY <1>3, <3>1
      <3> QED
        BY <1>2, <3>1, <3>2 DEF Range
    <2> QED
      BY <2>1, <2>2
  <1>7. ASSUME NEW k \in 1..Len(s)
        PROVE  links[s[k]] = IF k = Len(s) THEN NoInode ELSE s[k + 1]
    <2>1. s[k] = n + PerRefill + 1 - k /\ s[k] \in Batch(n)
      BY <1>1, <1>2, <1>3 DEF Batch
    <2>2. links[s[k]] = IF s[k] = n + 1 THEN NoInode ELSE s[k] - 1
      BY <2>1 DEF ChainedDown
    <2>3. CASE k = PerRefill
      BY <1>1, <1>2, <2>1, <2>2, <2>3
    <2>4. CASE k # PerRefill
      <3>1. k + 1 \in 1..PerRefill /\ s[k + 1] = n + PerRefill + 1 - (k + 1)
        BY <1>1, <1>2, <1>3, <2>4
      <3> QED
        BY <1>1, <1>2, <2>1, <2>2, <2>4, <3>1
    <2> QED
      BY <2>3, <2>4
  <1>8. s \in Run
    BY <1>2, <1>5, RunSize
  <1> QED
    BY <1>2, <1>4, <1>6, <1>7, <1>8 DEF ChainedFrom

(* What is left when the head is taken off.                                *)
LEMMA TailRun ==
  ASSUME NEW s \in Run, s # <<>>, NEW from,
         NEW links \in [Inode \cup {NoInode} -> Inode \cup {NoInode}],
         ChainedFrom(from, links, s)
  PROVE  /\ from \in Inode /\ from = s[1]
         /\ Tail(s) \in Run
         /\ ChainedFrom(links[from], [links EXCEPT ![from] = NoInode], Tail(s))
         /\ Range(s) = Range(Tail(s)) \cup {from} /\ from \notin Range(Tail(s))
         /\ Len(Tail(s)) = Len(s) - 1
  <1> DEFINE low == Tail(s)
             new == [links EXCEPT ![from] = NoInode]
  <1>1. /\ s \in Seq(Inode) /\ DOMAIN s = 1..Len(s) /\ Len(s) \in Nat /\ Len(s) >= 1
        /\ \A i, j \in 1..Len(s) : s[i] = s[j] => i = j
    BY RunShape DEF IsInjective
  <1>2. from = s[1] /\ from \in Inode
    <2>1. 1 \in 1..Len(s)
      BY <1>1
    <2> QED
      BY <2>1, RunShape DEF ChainedFrom
  <1>3. /\ low \in Seq(Inode) /\ Len(low) = Len(s) - 1 /\ DOMAIN low = 1..Len(low)
        /\ \A i \in 1..Len(low) : low[i] = s[i + 1]
    BY <1>1
  <1> HIDE DEF low
  <1>4. IsInjective(low)
    BY <1>1, <1>3 DEF IsInjective
  <1>5. from \notin Range(low)
    BY <1>1, <1>2, <1>3 DEF Range
  <1>6. Range(s) = Range(low) \cup {from}
    <2>1. Range(low) \cup {from} \subseteq Range(s)
      <3>1. 1 \in 1..Len(s) /\ \A i \in 1..Len(low) : i + 1 \in 1..Len(s)
        BY <1>1, <1>3
      <3> QED
        BY <1>1, <1>2, <1>3, <3>1 DEF Range
    <2>2. ASSUME NEW i \in 1..Len(s) PROVE s[i] \in Range(low) \cup {from}
      <3>1. CASE i = 1
        BY <1>2, <3>1
      <3>2. CASE i # 1
        <4>1. i - 1 \in 1..Len(low) /\ (i - 1) + 1 = i
          BY <1>1, <1>3, <3>2
        <4>2. low[i - 1] = s[i]
          BY <1>3, <4>1
        <4> QED
          BY <1>3, <4>1, <4>2 DEF Range
      <3> QED
        BY <3>1, <3>2
    <2>3. Range(s) \subseteq Range(low) \cup {from}
      BY <1>1, <2>2 DEF Range
    <2> QED
      BY <2>1, <2>3
  <1>7. \A i \in Range(low) : new[i] = links[i]
    BY <1>5
  <1>8. ChainedFrom(links[from], new, low)
    <2>1. links[from] = IF low = <<>> THEN NoInode ELSE low[1]
      <3>1. links[s[1]] = IF 1 = Len(s) THEN NoInode ELSE s[2]
        <4>1. 1 \in 1..Len(s) /\ 1 + 1 = 2
          BY <1>1
        <4> QED
          BY <4>1 DEF ChainedFrom
      <3>2. CASE Len(s) = 1
        BY <1>2, <1>3, <3>1, <3>2
      <3>3. CASE Len(s) # 1
        <4>1. 1 \in 1..Len(low) /\ low # <<>>
          BY <1>1, <1>3, <3>3
        <4>2. low[1] = s[2]
          BY <1>3, <4>1
        <4> QED
          BY <1>2, <3>1, <3>3, <4>1, <4>2
      <3> QED
        BY <3>2, <3>3
    <2>2. ASSUME NEW i \in 1..Len(low)
          PROVE  new[low[i]] = IF i = Len(low) THEN NoInode ELSE low[i + 1]
      <3>1. i + 1 \in 1..Len(s) /\ low[i] = s[i + 1] /\ low[i] \in Range(low)
        BY <1>1, <1>3 DEF Range
      <3>2. links[low[i]] = IF i + 1 = Len(s) THEN NoInode ELSE s[(i + 1) + 1]
        BY <3>1 DEF ChainedFrom
      <3>3. new[low[i]] = links[low[i]]
        BY <1>7, <3>1
      <3>4. CASE i = Len(low)
        BY <1>1, <1>3, <3>2, <3>3, <3>4
      <3>5. CASE i # Len(low)
        <4>1. i + 1 \in 1..Len(low) /\ i + 1 # Len(s)
          <5>1. Len(s) \in Nat /\ Len(low) = Len(s) - 1 /\ Len(s) >= 1
            BY <1>1, <1>3
          <5> QED
            BY <3>5, <5>1
        <4>2. low[i + 1] = s[(i + 1) + 1]
          BY <1>3, <4>1
        <4> QED
          BY <3>2, <3>3, <3>5, <4>1, <4>2
      <3> QED
        BY <3>4, <3>5
    <2> QED
      BY <2>1, <2>2 DEF ChainedFrom
  <1>9. low \in Run
    BY <1>3, <1>4, RunSize
  <1> QED
    BY <1>2, <1>3, <1>5, <1>6, <1>8, <1>9 DEF low

(* What a free makes of a list that has inodes.                            *)
LEMMA InsertRun ==
  ASSUME NEW s \in Run, s # <<>>, NEW from,
         NEW links, ChainedFrom(from, links, s),
         NEW i \in Inode, i \notin Range(s),
         NEW new, new[from] = i, new[i] = links[from],
         \A j \in Range(s) : j # from => new[j] = links[j]
  PROVE  \E r \in Run :
           /\ ChainedFrom(from, new, r)
           /\ Range(r) = Range(s) \cup {i}
           /\ Len(r) = Len(s) + 1
  <1> DEFINE r == [k \in 1..(Len(s) + 1) |->
                     IF k = 1 THEN s[1] ELSE IF k = 2 THEN i ELSE s[k - 1]]
  <1>1. /\ s \in Seq(Inode) /\ DOMAIN s = 1..Len(s) /\ Len(s) \in Nat /\ Len(s) >= 1
        /\ \A k, m \in 1..Len(s) : s[k] = s[m] => k = m
        /\ \A k \in 1..Len(s) : s[k] \in Range(s) /\ s[k] # i
    BY RunShape DEF IsInjective, Range
  <1>2. /\ from = s[1] /\ from \in Inode /\ from # i
        /\ links[from] = IF 1 = Len(s) THEN NoInode ELSE s[2]
    <2>1. 1 \in 1..Len(s) /\ 1 + 1 = 2
      BY <1>1
    <2>2. from = s[1]
      BY DEF ChainedFrom
    <2>3. links[s[1]] = IF 1 = Len(s) THEN NoInode ELSE s[2]
      BY <2>1 DEF ChainedFrom
    <2> QED
      BY <1>1, <2>1, <2>2, <2>3, RunShape
  <1>3. \A k \in 1..(Len(s) + 1) : s[1] \in Inode /\ (k # 1 /\ k # 2 => s[k - 1] \in Inode)
    BY <1>1
  <1>4. /\ r \in Seq(Inode) /\ Len(r) = Len(s) + 1 /\ DOMAIN r = 1..(Len(s) + 1)
    BY <1>1, <1>3
  <1>5. /\ r[1] = from /\ r[2] = i
        /\ \A k \in 2..Len(s) : r[k + 1] = s[k]
    BY <1>1, <1>2
  <1> HIDE DEF r
  <1>6. ASSUME NEW k \in 1..Len(r)
        PROVE  k = 1 \/ k = 2 \/ (k - 1 \in 2..Len(s) /\ r[k] = s[k - 1])
    <2>1. k - 1 \in 2..Len(s) => r[(k - 1) + 1] = s[k - 1]
      BY <1>5
    <2> QED
      BY <1>1, <1>4, <2>1
  <1>7. IsInjective(r)
    <2> SUFFICES ASSUME NEW k \in 1..Len(r), NEW m \in 1..Len(r), r[k] = r[m]
                 PROVE  k = m
      BY <1>4 DEF IsInjective
    <2>1. 1 \in 1..Len(s)
      BY <1>1
    <2>2. ASSUME NEW j \in 1..Len(r), j # 1, j # 2
          PROVE  j - 1 \in 2..Len(s) /\ r[j] = s[j - 1] /\ s[j - 1] # i /\ s[j - 1] # s[1]
      <3>1. j - 1 \in 2..Len(s) /\ r[j] = s[j - 1]
        BY <1>6, <2>2
      <3>2. j - 1 \in 1..Len(s) /\ j - 1 # 1
        BY <1>1, <3>1
      <3> QED
        BY <1>1, <2>1, <3>1, <3>2
    <2>3. CASE k \in {1, 2} \/ m \in {1, 2}
      BY <1>2, <1>5, <2>2, <2>3
    <2>4. CASE ~(k \in {1, 2} \/ m \in {1, 2})
      <3>1. s[k - 1] = s[m - 1] /\ k - 1 \in 1..Len(s) /\ m - 1 \in 1..Len(s)
        BY <1>1, <2>2, <2>4
      <3>2. k - 1 = m - 1
        BY <1>1, <3>1
      <3> QED
        BY <3>2
    <2> QED
      BY <2>3, <2>4
  <1>8. Range(r) = Range(s) \cup {i}
    <2>1. ASSUME NEW k \in 1..Len(r) PROVE r[k] \in Range(s) \cup {i}
      BY <1>1, <1>2, <1>5, <1>6
    <2>2. ASSUME NEW k \in 1..Len(s) PROVE s[k] \in Range(r)
      <3>1. 1 \in DOMAIN r /\ (k # 1 => k + 1 \in DOMAIN r /\ r[k + 1] = s[k])
        BY <1>1, <1>4, <1>5
      <3> QED
        BY <1>2, <1>5, <3>1 DEF Range
    <2>3. 2 \in DOMAIN r
      BY <1>1, <1>4
    <2> QED
      BY <1>1, <1>4, <1>5, <2>1, <2>2, <2>3 DEF Range
  <1>9. /\ new[from] = i /\ new[i] = links[from]
        /\ \A k \in 2..Len(s) : new[s[k]] = links[s[k]]
    <2>1. \A k \in 2..Len(s) : s[k] # from /\ s[k] \in Range(s)
      BY <1>1, <1>2
    <2> QED
      BY <2>1
  <1>10. ASSUME NEW k \in 1..Len(r)
         PROVE  new[r[k]] = IF k = Len(r) THEN NoInode ELSE r[k + 1]
    <2>1. CASE k = 1
      BY <1>1, <1>4, <1>5, <1>9, <2>1
    <2>2. CASE k = 2
      <3>1. CASE Len(s) = 1
        BY <1>2, <1>4, <1>5, <1>9, <2>2, <3>1
      <3>2. CASE Len(s) # 1
        <4>1. r[2 + 1] = s[2]
          BY <1>1, <1>5, <3>2
        <4> QED
          BY <1>1, <1>2, <1>4, <1>5, <1>9, <2>2, <3>2, <4>1
      <3> QED
        BY <3>1, <3>2
    <2>3. CASE k # 1 /\ k # 2
      <3>1. k - 1 \in 2..Len(s) /\ r[k] = s[k - 1] /\ k - 1 \in 1..Len(s)
        BY <1>6, <2>3, <1>1
      <3>2. links[s[k - 1]] = IF k - 1 = Len(s) THEN NoInode ELSE s[(k - 1) + 1]
        BY <3>1 DEF ChainedFrom
      <3>3. CASE k = Len(r)
        BY <1>1, <1>4, <1>9, <3>1, <3>2, <3>3
      <3>4. CASE k # Len(r)
        <4>1. k \in 2..Len(s)
          BY <1>4, <1>1, <2>3, <3>4
        <4>2. r[k + 1] = s[k]
          BY <1>5, <4>1
        <4> QED
          BY <1>1, <1>4, <1>9, <3>1, <3>2, <3>4, <4>2
      <3> QED
        BY <3>3, <3>4
    <2> QED
      BY <2>1, <2>2, <2>3
  <1>11. from = IF r = <<>> THEN NoInode ELSE r[1]
    BY <1>1, <1>4, <1>5
  <1>12. r \in Run
    BY <1>4, <1>7, RunSize
  <1> QED
    BY <1>4, <1>8, <1>10, <1>11, <1>12 DEF ChainedFrom

-----------------------------------------------------------------------------
(* The boot.                                                               *)
LEMMA Quotient ==
  ASSUME NEW k \in Nat \ {0}, NEW q \in Nat, NEW d \in Nat,
         d * k <= q, q < d * k + k
  PROVE  q \div k = d
  <1> DEFINE e == q \div k
  <1>1. q = k * e + (q % k) /\ q % k \in 0..(k - 1) /\ e \in Nat
    OBVIOUS
  <1> HIDE DEF e
  <1>2. e * k <= q /\ q < e * k + k
    BY <1>1
  <1>3. CASE e < d
    <2>1. (e + 1) * k <= d * k
      BY <1>1, <1>3
    <2> QED
      BY <1>2, <2>1
  <1>4. CASE d < e
    <2>1. (d + 1) * k <= e * k
      BY <1>1, <1>4
    <2> QED
      BY <1>2, <2>1
  <1> QED
    BY <1>1, <1>3, <1>4 DEF e

LEMMA Filled ==
  ASSUME NEW c \in 1..NumFilled
  PROVE  /\ (c - 1) * PerRefill \in Nat
         /\ c * PerRefill = (c - 1) * PerRefill + PerRefill
         /\ c * PerRefill <= NumFilled * PerRefill
         /\ NumFilled * PerRefill <= NumInodes
  <1>1. PerRefill \in Nat \ {0} /\ NumFilled \in Nat /\ NumFilled * PerRefill <= NumInodes
    BY TableAssumption
  <1> QED
    BY <1>1

LEMMA InitRun ==
  ASSUME Init, NEW c \in Cpu
  PROVE  \E s \in Run : /\ ChainedFrom(head[c], next, s)
                        /\ Len(s) = count[c]
                        /\ IF c <= NumFilled THEN Range(s) = Batch((c - 1) * PerRefill)
                                             ELSE Range(s) = {}
  <1>1. CASE c <= NumFilled
    <2> DEFINE n == (c - 1) * PerRefill
    <2>1. c \in 1..NumFilled
      BY <1>1, TableAssumption DEF Cpu
    <2>2. /\ n \in Nat /\ c * PerRefill = n + PerRefill
          /\ n + PerRefill <= NumFilled * PerRefill
          /\ NumFilled * PerRefill <= NumInodes
      BY <2>1, Filled
    <2>3. PerRefill \in Nat \ {0} /\ NumInodes \in Nat /\ c - 1 \in Nat /\ NumFilled * PerRefill \in Nat
      BY <2>1, TableAssumption
    <2>4. ASSUME NEW i \in Batch(n)
          PROVE  next[i] = ChainedDown(n, i)
      <3>1. i \in Inode /\ i <= made /\ i - 1 \in Nat /\ n <= i - 1 /\ i - 1 < n + PerRefill
        BY <2>2, <2>3 DEF Batch, Inode, Init
      <3>2. (i - 1) \div PerRefill = c - 1
        BY <2>3, <3>1, Quotient
      <3> QED
        BY <3>1, <3>2 DEF Init
    <2>5. head[c] = n + PerRefill /\ count[c] = PerRefill
      BY <1>1, <2>2 DEF Init
    <2> HIDE DEF n
    <2>6. \E s \in Run : /\ ChainedFrom(n + PerRefill, next, s)
                         /\ Range(s) = Batch(n) /\ Len(s) = PerRefill
      BY <2>2, <2>3, <2>4, FreshRun
    <2> QED
      BY <1>1, <2>5, <2>6 DEF n
  <1>2. CASE ~(c <= NumFilled)
    <2>1. head[c] = NoInode /\ count[c] = 0 /\ Len(<<>>) = 0
      BY <1>2 DEF Init
    <2> QED
      BY <1>2, <2>1, EmptyRun
  <1> QED
    BY <1>1, <1>2

LEMMA BatchesApart ==
  ASSUME NEW c \in 1..NumFilled, NEW d \in 1..NumFilled, c # d
  PROVE  Batch((c - 1) * PerRefill) \cap Batch((d - 1) * PerRefill) = {}
  <1>1. PerRefill \in Nat \ {0} /\ NumFilled \in Nat
    BY TableAssumption
  <1>2. CASE c < d
    <2>1. c * PerRefill <= (d - 1) * PerRefill
      BY <1>1, <1>2
    <2> QED
      BY <1>1, <2>1, Filled DEF Batch
  <1>3. CASE d < c
    <2>1. d * PerRefill <= (c - 1) * PerRefill
      BY <1>1, <1>3
    <2> QED
      BY <1>1, <2>1, Filled DEF Batch
  <1> QED
    BY <1>1, <1>2, <1>3

LEMMA InitInv ==
  Init => IInv
  <1> SUFFICES ASSUME Init PROVE IInv
    OBVIOUS
  <1>1. /\ NumFilled * PerRefill \in Nat /\ NumFilled * PerRefill <= NumInodes
        /\ PerRefill \in Nat \ {0} /\ NumCpus \in Nat \ {0} /\ NumFilled \in Nat /\ NumInodes \in Nat
    BY TableAssumption
  <1>2. made = NumFilled * PerRefill /\ made \in 0..NumInodes
    BY <1>1 DEF Init
  <1>3. ASSUME NEW i \in Inode, i <= made
        PROVE  next[i] \in (1..made) \cup {NoInode}
    <2> DEFINE n == ((i - 1) \div PerRefill) * PerRefill
    <2>1. i - 1 \in Nat /\ i - 1 = PerRefill * ((i - 1) \div PerRefill) + ((i - 1) % PerRefill)
          /\ (i - 1) % PerRefill \in 0..(PerRefill - 1) /\ (i - 1) \div PerRefill \in Nat
      BY <1>1 DEF Inode
    <2>2. n \in Nat /\ n <= i - 1
      <3> DEFINE d == (i - 1) \div PerRefill
                 r == (i - 1) % PerRefill
      <3>1. i - 1 = PerRefill * d + r /\ r \in Nat /\ d \in Nat /\ i - 1 \in Nat
        BY <1>1, <2>1
      <3> HIDE DEF d, r
      <3>2. d * PerRefill \in Nat /\ d * PerRefill = PerRefill * d
        BY <1>1, <3>1
      <3>3. d * PerRefill <= i - 1
        BY <3>1, <3>2
      <3> QED
        BY <3>2, <3>3 DEF d
    <2>3. next[i] = ChainedDown(n, i)
      BY <1>3 DEF Init
    <2> HIDE DEF n
    <2> QED
      BY <1>2, <1>3, <2>2, <2>3 DEF ChainedDown, Inode
  <1>4. ASSUME NEW i \in Inode \cup {NoInode}
        PROVE  next[i] \in (1..made) \cup {NoInode}
    BY <1>3 DEF Init
  <1>5. ASSUME NEW c \in Cpu
        PROVE  /\ head[c] \in (1..made) \cup {NoInode}
               /\ count[c] \in 0..PerRefill
    <2>1. CASE c <= NumFilled
      <3>1. c \in 1..NumFilled
        BY <1>1, <2>1 DEF Cpu
      <3>2. c * PerRefill \in 1..made
        BY <1>1, <1>2, <3>1, Filled
      <3> QED
        BY <1>1, <2>1, <3>2 DEF Init
    <2>2. CASE ~(c <= NumFilled)
      BY <1>1, <2>2 DEF Init
    <2> QED
      BY <2>1, <2>2
  <1>6. (1..made) \cup {NoInode} \subseteq Inode \cup {NoInode}
    BY <1>1, <1>2 DEF Inode
  <1>7. TypeOK
    <2>1. next \in [Inode \cup {NoInode} -> Inode \cup {NoInode}]
      BY <1>4, <1>6 DEF Init
    <2>2. head \in [Cpu -> Inode \cup {NoInode}] /\ count \in [Cpu -> 0..PerRefill]
      BY <1>5, <1>6 DEF Init
    <2>3. 1 \in Cpu
      BY <1>1 DEF Cpu
    <2> QED
      BY <1>2, <2>1, <2>2, <2>3 DEF Init, TypeOK, NothingSeen
  <1>8. MadeOnly
    BY <1>4, <1>5 DEF Init, MadeOnly, NothingSeen
  <1>9. LockDiscipline
    BY DEF Init, LockDiscipline
  <1>10. ListsApart
    <2> DEFINE Fits(c, s) ==
                 /\ ChainedFrom(head[c], next, s)
                 /\ Len(s) = count[c]
                 /\ IF c <= NumFilled THEN Range(s) = Batch((c - 1) * PerRefill)
                                      ELSE Range(s) = {}
               chain == [c \in Cpu |-> CHOOSE s \in Run : Fits(c, s)]
    <2>1. \A c \in Cpu : \E s \in Run : Fits(c, s)
      BY InitRun
    <2>2. \A c \in Cpu : chain[c] \in Run /\ Fits(c, chain[c])
      <3> HIDE DEF Fits
      <3> QED
        BY <2>1
    <2>3. chain \in [Cpu -> Run]
      <3> HIDE DEF Fits
      <3> QED
        BY <2>1
    <2> HIDE DEF chain
    <2>4. Given = {}
      BY DEF Given, Init
    <2>5. ASSUME NEW c \in Cpu
          PROVE  Range(chain[c]) \subseteq 1..made
      <3>1. CASE c <= NumFilled
        <4>1. c \in 1..NumFilled
          BY <1>1, <3>1 DEF Cpu
        <4>2. Range(chain[c]) = Batch((c - 1) * PerRefill)
          BY <2>2, <3>1
        <4> QED
          BY <1>1, <1>2, <4>1, <4>2, Filled DEF Batch
      <3>2. CASE ~(c <= NumFilled)
        BY <2>2, <3>2
      <3> QED
        BY <3>1, <3>2
    <2>6. ASSUME NEW c \in Cpu, NEW d \in Cpu, c # d
          PROVE  Range(chain[c]) \cap Range(chain[d]) = {}
      <3>1. CASE c <= NumFilled /\ d <= NumFilled
        <4>1. c \in 1..NumFilled /\ d \in 1..NumFilled
          BY <1>1, <3>1 DEF Cpu
        <4>2. /\ Range(chain[c]) = Batch((c - 1) * PerRefill)
              /\ Range(chain[d]) = Batch((d - 1) * PerRefill)
          BY <2>2, <3>1
        <4> QED
          BY <2>6, <4>1, <4>2, BatchesApart
      <3>2. CASE ~(c <= NumFilled /\ d <= NumFilled)
        BY <2>2, <3>2
      <3> QED
        BY <3>1, <3>2
    <2>7. \A c \in Cpu : count[c] <= Len(chain[c])
      BY <1>5, <2>2
    <2>8. Apart(chain)
      BY <2>2, <2>4, <2>5, <2>6, <2>7 DEF Apart
    <2>9. chain \in [Cpu -> Chains]
      BY <2>2, <2>3 DEF Chains
    <2> QED
      BY <2>8, <2>9 DEF ListsApart
  <1>11. HeldApart
    BY DEF Init, HeldApart
  <1> QED
    BY <1>7, <1>8, <1>9, <1>10, <1>11 DEF IInv
-----------------------------------------------------------------------------
(* What a thread holds, and what the lists hold.                           *)
LEMMA KeepLists ==
  ASSUME IInv, UNCHANGED <<next, head, count, made, held, stale>>
  PROVE  ListsApart' /\ HeldApart'
  <1>1. HeldApart'
    BY DEF IInv, HeldApart
  <1>2. ASSUME ~stale'
        PROVE  \E chain \in [Cpu -> Chains'] : Apart(chain)'
    <2>1. PICK chain \in [Cpu -> Chains] : Apart(chain)
      BY <1>2 DEF IInv, ListsApart
    <2>2. Apart(chain)'
      BY <2>1 DEF Apart, Given
    <2>3. Chains' = Chains
      BY DEF Chains
    <2> QED
      BY <2>1, <2>2, <2>3
  <1> QED
    BY <1>1, <1>2 DEF ListsApart

LEMMA WaitInv ==
  ASSUME IInv, NEW t \in Thread, CallAlloc(t) \/ LockList(t) \/ Pick(t)
  PROVE  IInv'
  <1>1. UNCHANGED <<next, head, count, made, held, stale, seen>>
    BY DEF CallAlloc, LockList, Pick, lists
  <1>2. TypeOK'
    <2>1. CASE CallAlloc(t)
      BY <2>1 DEF CallAlloc, Goto, lists, IInv, TypeOK
    <2>2. CASE LockList(t)
      BY <2>2 DEF LockList, Goto, IInv, TypeOK
    <2>3. CASE Pick(t)
      BY <2>3 DEF Pick, Goto, lists, IInv, TypeOK
    <2> QED
      BY <2>1, <2>2, <2>3
  <1>3. MadeOnly'
    <2>1. CASE CallAlloc(t) \/ LockList(t)
      BY <1>1, <2>1 DEF CallAlloc, LockList, IInv, MadeOnly
    <2>2. CASE Pick(t)
      BY <1>1, <2>2 DEF Pick, IInv, TypeOK, MadeOnly
    <2> QED
      BY <2>1, <2>2
  <1>4. LockDiscipline'
    <2>1. CASE CallAlloc(t)
      BY <2>1 DEF CallAlloc, Goto, lists, IInv, TypeOK, LockDiscipline
    <2>2. CASE LockList(t)
      BY <2>2, TableAssumption DEF LockList, Goto, IInv, TypeOK, LockDiscipline
    <2>3. CASE Pick(t)
      <3>1. count[at[t]] > 0
        BY <2>3, TableAssumption DEF Pick, UsedUp, IInv, TypeOK
      <3> QED
        BY <2>3, <3>1 DEF Pick, Goto, lists, IInv, TypeOK, LockDiscipline
    <2> QED
      BY <2>1, <2>2, <2>3
  <1> QED
    BY <1>1, <1>2, <1>3, <1>4, KeepLists DEF IInv

LEMMA ReadInv ==
  ASSUME IInv, NEW t \in Thread, CallFree(t) \/ ReadNext(t)
  PROVE  IInv'
  <1>1. UNCHANGED <<next, head, count, mutex, made, held, stale>>
    BY DEF CallFree, ReadNext, lists
  <1>2. CASE CallFree(t)
    <2>1. PICK c \in Cpu, i \in held[t] :
            /\ at' = [at EXCEPT ![t] = c]
            /\ node' = [node EXCEPT ![t] = i]
            /\ seen' = [seen EXCEPT ![t].head = head[c]]
      BY <1>2 DEF CallFree
    <2>2. i \in 1..made /\ 1..made \subseteq Inode
      BY TableAssumption DEF IInv, TypeOK, Inode
    <2>3. pc[t] = "idle" /\ pc' = [pc EXCEPT ![t] = "read"]
      BY <1>2 DEF CallFree, Goto
    <2>4. /\ seen'[t] = [head |-> head[c], next |-> seen[t].next]
          /\ \A u \in Thread : u # t => seen'[u] = seen[u]
      BY <2>1 DEF IInv, TypeOK
    <2>5. TypeOK'
      BY <1>1, <2>1, <2>2, <2>3 DEF IInv, TypeOK
    <2>6. MadeOnly'
      BY <1>1, <2>1, <2>2, <2>4 DEF IInv, TypeOK, MadeOnly
    <2>7. LockDiscipline'
      BY <1>1, <2>1, <2>3 DEF IInv, TypeOK, LockDiscipline
    <2> QED
      BY <1>1, <2>5, <2>6, <2>7, KeepLists DEF IInv
  <1>3. CASE ReadNext(t)
    <2>1. /\ pc[t] = "read" /\ pc' = [pc EXCEPT ![t] = "link"]
          /\ seen' = [seen EXCEPT ![t].next = next[seen[t].head]]
          /\ UNCHANGED <<at, node>>
      BY <1>3 DEF ReadNext, Goto
    <2>2. seen[t].head \in Inode \cup {NoInode}
      BY DEF IInv, TypeOK
    <2>3. /\ seen'[t] = [head |-> seen[t].head, next |-> next[seen[t].head]]
          /\ \A u \in Thread : u # t => seen'[u] = seen[u]
      BY <2>1 DEF IInv, TypeOK
    <2>4. TypeOK'
      BY <1>1, <2>1, <2>2 DEF IInv, TypeOK
    <2>5. MadeOnly'
      BY <1>1, <2>1, <2>2, <2>3 DEF IInv, TypeOK, MadeOnly
    <2>6. LockDiscipline'
      BY <1>1, <2>1 DEF IInv, TypeOK, LockDiscipline
    <2> QED
      BY <1>1, <2>4, <2>5, <2>6, KeepLists DEF IInv
  <1> QED
    BY <1>2, <1>3

-----------------------------------------------------------------------------
(* fill_atfs_inode_list.                                                   *)
LEMMA RefillInv ==
  ASSUME IInv, NEW t \in Thread, Refill(t)
  PROVE  IInv'
  <1> DEFINE c == at[t]
  <1>1. /\ pc[t] = "check" /\ count[c] = 0 /\ made + PerRefill <= NumInodes
        /\ next' = [i \in Inode \cup {NoInode} |->
                      IF i \in Batch(made) THEN ChainedDown(made, i) ELSE next[i]]
        /\ made' = made + PerRefill
        /\ head' = [head EXCEPT ![c] = made']
        /\ count' = [count EXCEPT ![c] = PerRefill]
        /\ UNCHANGED <<mutex, pc, at, node, seen, held, stale>>
    BY DEF Refill, UsedUp
  <1>2. /\ c \in Cpu /\ made \in Nat /\ PerRefill \in Nat \ {0} /\ NumInodes \in Nat
        /\ NoInode \notin Nat /\ made' \in 0..NumInodes /\ made' \in Inode
        /\ 1..made \subseteq 1..made' /\ Batch(made) \subseteq 1..made'
        /\ 1..made' \subseteq Inode
    BY <1>1, TableAssumption DEF IInv, TypeOK, Batch, Inode
  <1>3. \A i \in Batch(made) : ChainedDown(made, i) \in (1..made') \cup {NoInode}
    BY <1>1, <1>2 DEF ChainedDown, Batch
  <1>4. TypeOK'
    <2>1. next' \in [Inode \cup {NoInode} -> Inode \cup {NoInode}]
      BY <1>1, <1>2, <1>3 DEF IInv, TypeOK
    <2>2. head' \in [Cpu -> Inode \cup {NoInode}] /\ count' \in [Cpu -> 0..PerRefill]
      BY <1>1, <1>2 DEF IInv, TypeOK
    <2>3. held' \in [Thread -> SUBSET (1..made')]
      BY <1>1, <1>2 DEF IInv, TypeOK
    <2> QED
      BY <1>1, <1>2, <2>1, <2>2, <2>3 DEF IInv, TypeOK
  <1>5. MadeOnly'
    <2>1. \A i \in Inode \cup {NoInode} : next'[i] \in (1..made') \cup {NoInode}
      BY <1>1, <1>2, <1>3 DEF IInv, TypeOK, MadeOnly
    <2>2. \A d \in Cpu : head'[d] \in (1..made') \cup {NoInode}
      BY <1>1, <1>2 DEF IInv, TypeOK, MadeOnly, Inode
    <2>3. \A u \in Thread : /\ node'[u] \in (1..made') \cup {NoInode}
                            /\ seen'[u].head \in (1..made') \cup {NoInode}
                            /\ seen'[u].next \in (1..made') \cup {NoInode}
      BY <1>1, <1>2 DEF IInv, MadeOnly
    <2> QED
      BY <2>1, <2>2, <2>3 DEF MadeOnly
  <1>6. LockDiscipline'
    <2>1. \A u \in Thread : pc[u] = "take" => at[u] # c
      BY <1>1 DEF IInv, LockDiscipline
    <2> QED
      BY <1>1, <1>2, <2>1 DEF IInv, TypeOK, LockDiscipline
  <1>7. HeldApart'
    BY <1>1 DEF IInv, HeldApart
  <1>8. ListsApart'
    <2> SUFFICES ASSUME ~stale' PROVE \E runs \in [Cpu -> Chains'] : Apart(runs)'
      BY DEF ListsApart
    <2>1. PICK chain \in [Cpu -> Chains] : Apart(chain)
      BY <1>1 DEF IInv, ListsApart
    <2>2. \A i \in Batch(made) : next'[i] = ChainedDown(made, i)
      BY <1>1, <1>2 DEF Batch, Inode
    <2>3. PICK run \in Run : /\ ChainedFrom(made', next', run)
                             /\ Range(run) = Batch(made) /\ Len(run) = PerRefill
      BY <1>1, <1>2, <2>2, FreshRun
    <2>4. PICK new \in [Cpu -> Run] :
            /\ \A d \in Cpu : chain[d] \in Run
            /\ new[c] = run /\ \A d \in Cpu : d # c => new[d] = chain[d]
      <3>1. [chain EXCEPT ![c] = run] \in [Cpu -> Run]
        BY <1>2, <2>1, <2>3 DEF Chains
      <3> QED
        BY <1>2, <2>1, <2>3, <3>1 DEF Chains
    <2>5. \A i \in 1..made : i \notin Batch(made) /\ next'[i] = next[i]
      BY <1>1, <1>2 DEF Batch, IInv, TypeOK
    <2>6. ASSUME NEW d \in Cpu
          PROVE  /\ ChainedFrom(head'[d], next', new[d])
                 /\ Range(new[d]) \cap Given' = {}
                 /\ Range(new[d]) \subseteq 1..made'
                 /\ count'[d] <= Len(new[d])
      <3>1. Given' = Given /\ Given \subseteq 1..made
        BY <1>1 DEF Given, IInv, TypeOK
      <3>2. CASE d = c
        <4>1. head'[c] = made' /\ count'[c] = PerRefill
          BY <1>1, <1>2 DEF IInv, TypeOK
        <4>2. Range(new[c]) \cap Given' = {}
          BY <2>3, <2>4, <2>5, <3>1
        <4> QED
          BY <1>2, <2>3, <2>4, <3>2, <4>1, <4>2
      <3>3. CASE d # c
        <4>1. head'[d] = head[d] /\ count'[d] = count[d] /\ new[d] = chain[d]
          BY <1>1, <2>4, <3>3 DEF IInv, TypeOK
        <4>2. /\ ChainedFrom(head[d], next, chain[d]) /\ Range(chain[d]) \cap Given = {}
              /\ Range(chain[d]) \subseteq 1..made /\ count[d] <= Len(chain[d])
          BY <2>1 DEF Apart
        <4>3. ChainedFrom(head[d], next', chain[d])
          BY <2>4, <2>5, <4>2, SameRun
        <4> QED
          BY <1>2, <3>1, <4>1, <4>2, <4>3
      <3> QED
        BY <3>2, <3>3
    <2>7. ASSUME NEW d \in Cpu, NEW e \in Cpu, d # e
          PROVE  Range(new[d]) \cap Range(new[e]) = {}
      <3>1. /\ Range(chain[d]) \subseteq 1..made /\ Range(chain[e]) \subseteq 1..made
            /\ Range(chain[d]) \cap Range(chain[e]) = {}
        BY <2>1, <2>7 DEF Apart
      <3> QED
        BY <2>3, <2>4, <2>5, <2>7, <3>1
    <2>8. Apart(new)'
      BY <2>6, <2>7 DEF Apart
    <2>9. new \in [Cpu -> Chains']
      BY <2>4, <2>6 DEF Chains
    <2> QED
      BY <2>8, <2>9
  <1> QED
    BY <1>4, <1>5, <1>6, <1>7, <1>8 DEF IInv
-----------------------------------------------------------------------------
(* The head of a locked list is taken off it and given.                    *)
LEMMA TakeEffect ==
  ASSUME IInv, NEW t \in Thread, Take(t)
  PROVE  /\ at[t] \in Cpu /\ count[at[t]] \in 1..PerRefill
         /\ node[t] = head[at[t]] /\ node[t] \in (1..made) \cup {NoInode}
         /\ head' = [head EXCEPT ![at[t]] = next[node[t]]]
         /\ next' = [next EXCEPT ![node[t]] = NoInode]
         /\ count' = [count EXCEPT ![at[t]] = @ - 1]
         /\ held' = [held EXCEPT ![t] = @ \cup ({node[t]} \ {NoInode})]
         /\ Given' = Given \cup ({node[t]} \ {NoInode})
  <1>1. /\ pc[t] = "take"
        /\ head' = [head EXCEPT ![at[t]] = next[node[t]]]
        /\ next' = [next EXCEPT ![node[t]] = NoInode]
        /\ count' = [count EXCEPT ![at[t]] = @ - 1]
        /\ held' = [held EXCEPT ![t] = @ \cup ({node[t]} \ {NoInode})]
    BY DEF Take, Unlink
  <1>2. node[t] = head[at[t]] /\ count[at[t]] > 0
    BY <1>1 DEF IInv, LockDiscipline
  <1>3. at[t] \in Cpu /\ count[at[t]] \in 1..PerRefill
    BY <1>2, TableAssumption DEF IInv, TypeOK
  <1>4. node[t] \in (1..made) \cup {NoInode}
    BY DEF IInv, MadeOnly
  <1>5. Given' = Given \cup ({node[t]} \ {NoInode})
    <2>1. held'[t] = held[t] \cup ({node[t]} \ {NoInode}) /\ \A u \in Thread : u # t => held'[u] = held[u]
      BY <1>1 DEF IInv, TypeOK
    <2> QED
      BY <2>1 DEF Given
  <1> QED
    BY <1>1, <1>2, <1>3, <1>4, <1>5

(* As long as no free was stale, what is taken is an inode, and of its list*)
(* only.                                                                   *)
LEMMA TakenFromRun ==
  ASSUME IInv, ~stale, NEW t \in Thread, Take(t),
         NEW chain \in [Cpu -> Chains], Apart(chain)
  PROVE  /\ chain[at[t]] \in Run /\ chain[at[t]] # <<>>
         /\ node[t] \in Range(chain[at[t]]) /\ node[t] \in 1..made /\ node[t] \notin Given
         /\ Tail(chain[at[t]]) \in Run
         /\ ChainedFrom(head'[at[t]], next', Tail(chain[at[t]]))
         /\ Range(chain[at[t]]) = Range(Tail(chain[at[t]])) \cup {node[t]}
         /\ node[t] \notin Range(Tail(chain[at[t]]))
         /\ count'[at[t]] <= Len(Tail(chain[at[t]]))
  <1> DEFINE c == at[t]
  <1>1. /\ c \in Cpu /\ count[c] \in 1..PerRefill /\ PerRefill \in Nat
        /\ node[t] = head[c]
        /\ head' = [head EXCEPT ![c] = next[node[t]]]
        /\ next' = [next EXCEPT ![node[t]] = NoInode]
        /\ count' = [count EXCEPT ![c] = @ - 1]
    BY TakeEffect, TableAssumption
  <1>2. /\ chain[c] \in Run /\ ChainedFrom(head[c], next, chain[c])
        /\ Range(chain[c]) \cap Given = {} /\ Range(chain[c]) \subseteq 1..made
        /\ count[c] <= Len(chain[c])
    BY <1>1 DEF Apart, Chains
  <1> HIDE DEF c
  <1>3. chain[c] # <<>> /\ Len(chain[c]) \in Nat
    <2>1. Len(chain[c]) \in Nat /\ Len(chain[c]) # 0
      BY <1>1, <1>2, RunShape
    <2> QED
      BY <2>1
  <1>4. /\ head[c] \in Inode
        /\ Tail(chain[c]) \in Run
        /\ ChainedFrom(next[head[c]], [next EXCEPT ![head[c]] = NoInode], Tail(chain[c]))
        /\ Range(chain[c]) = Range(Tail(chain[c])) \cup {head[c]}
        /\ head[c] \notin Range(Tail(chain[c]))
        /\ Len(Tail(chain[c])) = Len(chain[c]) - 1
    <2>1. next \in [Inode \cup {NoInode} -> Inode \cup {NoInode}]
      BY DEF IInv, TypeOK
    <2> QED
      BY <1>2, <1>3, <2>1, TailRun
  <1>5. head'[c] = next[head[c]] /\ count'[c] = count[c] - 1
    BY <1>1 DEF IInv, TypeOK
  <1>6. count'[c] <= Len(Tail(chain[c]))
    BY <1>1, <1>2, <1>3, <1>4, <1>5
  <1> QED
    BY <1>1, <1>2, <1>3, <1>4, <1>5, <1>6 DEF c

LEMMA TakeInv ==
  ASSUME IInv, NEW t \in Thread, Take(t)
  PROVE  IInv'
  <1> DEFINE c == at[t]
  <1>1. /\ pc[t] = "take" /\ pc' = [pc EXCEPT ![t] = "idle"]
        /\ at' = [at EXCEPT ![t] = 1] /\ node' = [node EXCEPT ![t] = NoInode]
        /\ seen' = [seen EXCEPT ![t] = NothingSeen]
        /\ mutex' = [mutex EXCEPT ![c] = NoThread]
        /\ UNCHANGED <<made, stale>>
    BY DEF Take, Return, Unlink, Goto
  <1>2. /\ c \in Cpu /\ count[c] \in 1..PerRefill
        /\ node[t] = head[c] /\ node[t] \in (1..made) \cup {NoInode}
        /\ head' = [head EXCEPT ![c] = next[node[t]]]
        /\ next' = [next EXCEPT ![node[t]] = NoInode]
        /\ count' = [count EXCEPT ![c] = @ - 1]
        /\ held' = [held EXCEPT ![t] = @ \cup ({node[t]} \ {NoInode})]
        /\ Given' = Given \cup ({node[t]} \ {NoInode})
    BY TakeEffect
  <1>3. /\ PerRefill \in Nat \ {0} /\ 1 \in Cpu /\ NoInode \notin Nat
        /\ (1..made) \cup {NoInode} \subseteq Inode \cup {NoInode}
        /\ next[node[t]] \in (1..made) \cup {NoInode}
    <2>1. (1..made) \cup {NoInode} \subseteq Inode \cup {NoInode}
      BY TableAssumption DEF Inode, IInv, TypeOK
    <2>2. next[node[t]] \in (1..made) \cup {NoInode}
      BY <1>2, <2>1 DEF IInv, MadeOnly
    <2> QED
      BY <2>1, <2>2, TableAssumption DEF Cpu
  <1> HIDE DEF c
  <1>4. TypeOK'
    <2>1. count' \in [Cpu -> 0..PerRefill]
      BY <1>2, <1>3 DEF IInv, TypeOK
    <2>2. held' \in [Thread -> SUBSET (1..made')]
      BY <1>1, <1>2 DEF IInv, TypeOK
    <2>3. head' \in [Cpu -> Inode \cup {NoInode}] /\ next' \in [Inode \cup {NoInode} -> Inode \cup {NoInode}]
      BY <1>2, <1>3 DEF IInv, TypeOK
    <2> QED
      BY <1>1, <1>3, <2>1, <2>2, <2>3 DEF IInv, TypeOK, NothingSeen
  <1>5. MadeOnly'
    <2>1. \A i \in Inode \cup {NoInode} : next'[i] \in (1..made') \cup {NoInode}
      BY <1>1, <1>2 DEF IInv, TypeOK, MadeOnly
    <2>2. \A d \in Cpu : head'[d] \in (1..made') \cup {NoInode}
      BY <1>1, <1>2, <1>3 DEF IInv, TypeOK, MadeOnly
    <2>3. \A u \in Thread : /\ node'[u] \in (1..made') \cup {NoInode}
                            /\ seen'[u].head \in (1..made') \cup {NoInode}
                            /\ seen'[u].next \in (1..made') \cup {NoInode}
      BY <1>1 DEF IInv, TypeOK, MadeOnly, NothingSeen
    <2> QED
      BY <2>1, <2>2, <2>3 DEF MadeOnly
  <1>6. LockDiscipline'
    <2>1. ASSUME NEW u \in Thread
          PROVE  /\ pc'[u] \in {"check", "take"} => mutex'[at'[u]] = u
                 /\ pc'[u] = "take" => node'[u] = head'[at'[u]] /\ count'[at'[u]] > 0
                 /\ pc'[u] \in {"read", "link"} => node'[u] \in held'[u]
      <3>1. CASE u = t
        BY <1>1, <3>1 DEF IInv, TypeOK
      <3>2. CASE u # t
        <4>1. pc'[u] = pc[u] /\ at'[u] = at[u] /\ node'[u] = node[u] /\ held'[u] = held[u]
          BY <1>1, <1>2, <3>2 DEF IInv, TypeOK
        <4>2. mutex[c] = t
          BY <1>1 DEF IInv, LockDiscipline, c
        <4>3. pc[u] \in {"check", "take"} => at[u] # c
          BY <3>2, <4>2 DEF IInv, LockDiscipline
        <4> QED
          BY <1>1, <1>2, <4>1, <4>3 DEF IInv, TypeOK, LockDiscipline
      <3> QED
        BY <3>1, <3>2
    <2> QED
      BY <2>1 DEF LockDiscipline
  <1>7. ASSUME ~stale'
        PROVE  /\ \E runs \in [Cpu -> Chains'] : Apart(runs)'
               /\ \A u, w \in Thread : u # w => held'[u] \cap held'[w] = {}
    <2>1. PICK chain \in [Cpu -> Chains] : Apart(chain)
      BY <1>1, <1>7 DEF IInv, ListsApart
    <2>2. /\ chain[c] \in Run /\ chain[c] # <<>>
          /\ node[t] \in Range(chain[c]) /\ node[t] \in 1..made /\ node[t] \notin Given
          /\ Tail(chain[c]) \in Run
          /\ ChainedFrom(head'[c], next', Tail(chain[c]))
          /\ Range(chain[c]) = Range(Tail(chain[c])) \cup {node[t]}
          /\ node[t] \notin Range(Tail(chain[c]))
          /\ count'[c] <= Len(Tail(chain[c]))
      BY <1>1, <1>7, <2>1, TakenFromRun DEF c
    <2>3. PICK new \in [Cpu -> Run] :
            /\ \A d \in Cpu : chain[d] \in Run
            /\ new[c] = Tail(chain[c]) /\ \A d \in Cpu : d # c => new[d] = chain[d]
      <3>1. [chain EXCEPT ![c] = Tail(chain[c])] \in [Cpu -> Run]
        BY <1>2, <2>1, <2>2 DEF Chains
      <3> QED
        BY <1>2, <2>1, <2>2, <3>1 DEF Chains
    <2>4. \A d \in Cpu : /\ Range(new[d]) \subseteq Range(chain[d])
                         /\ node[t] \notin Range(new[d])
      <3>1. \A d \in Cpu : d # c => Range(chain[d]) \cap Range(chain[c]) = {}
        BY <1>2, <2>1 DEF Apart
      <3> QED
        BY <1>2, <2>2, <2>3, <3>1
    <2>5. ASSUME NEW d \in Cpu
          PROVE  /\ ChainedFrom(head'[d], next', new[d])
                 /\ Range(new[d]) \cap Given' = {}
                 /\ Range(new[d]) \subseteq 1..made'
                 /\ count'[d] <= Len(new[d])
      <3>1. /\ ChainedFrom(head[d], next, chain[d]) /\ Range(chain[d]) \cap Given = {}
            /\ Range(chain[d]) \subseteq 1..made /\ count[d] <= Len(chain[d])
        BY <2>1 DEF Apart
      <3>2. Range(new[d]) \cap Given' = {} /\ Range(new[d]) \subseteq 1..made'
        BY <1>1, <1>2, <2>4, <3>1
      <3>3. CASE d = c
        BY <2>2, <2>3, <3>2, <3>3
      <3>4. CASE d # c
        <4>1. head'[d] = head[d] /\ count'[d] = count[d] /\ new[d] = chain[d] /\ chain[d] \in Run
          BY <1>2, <2>3, <3>4 DEF IInv, TypeOK
        <4>2. \A i \in Range(chain[d]) : next'[i] = next[i]
          <5>1. Range(chain[d]) \subseteq Inode /\ node[t] \notin Range(chain[d])
            BY <2>4, <4>1, RunShape
          <5> QED
            BY <1>2, <5>1 DEF IInv, TypeOK
        <4>3. ChainedFrom(head[d], next', chain[d])
          BY <3>1, <4>1, <4>2, SameRun
        <4> QED
          BY <3>1, <3>2, <4>1, <4>3
      <3> QED
        BY <3>3, <3>4
    <2>6. \A d, e \in Cpu : d # e => Range(new[d]) \cap Range(new[e]) = {}
      <3>1. \A d, e \in Cpu : d # e => Range(chain[d]) \cap Range(chain[e]) = {}
        BY <2>1 DEF Apart
      <3> QED
        BY <2>4, <3>1
    <2>7. Apart(new)'
      BY <2>5, <2>6 DEF Apart
    <2>8. new \in [Cpu -> Chains']
      BY <2>3, <2>5 DEF Chains
    <2>9. \A u, w \in Thread : u # w => held'[u] \cap held'[w] = {}
      <3>1. \A u, w \in Thread : u # w => held[u] \cap held[w] = {}
        BY <1>1, <1>7 DEF IInv, HeldApart
      <3>2. \A u \in Thread : node[t] \notin held[u]
        BY <2>2 DEF Given
      <3>3. \A u \in Thread : held'[u] \subseteq IF u = t THEN held[u] \cup {node[t]} ELSE held[u]
        BY <1>2 DEF IInv, TypeOK
      <3> QED
        BY <3>1, <3>2, <3>3
    <2> QED
      BY <2>7, <2>8, <2>9
  <1>8. ListsApart' /\ HeldApart'
    BY <1>7 DEF ListsApart, HeldApart
  <1> QED
    BY <1>4, <1>5, <1>6, <1>8 DEF IInv
-----------------------------------------------------------------------------
(* The critical section of free_atfs_inode.                                *)
LEMMA LinkEffect ==
  ASSUME IInv, NEW t \in Thread, LinkFree(t)
  PROVE  /\ pc[t] = "link" /\ at[t] \in Cpu /\ mutex[at[t]] = NoThread
         /\ node[t] \in held[t] /\ node[t] \in 1..made /\ node[t] \in Inode
         /\ next' = [next EXCEPT ![seen[t].head] = node[t], ![node[t]] = seen[t].next]
         /\ held'[t] = held[t] \ {node[t]}
         /\ \A u \in Thread : u # t => held'[u] = held[u]
         /\ Given \ {node[t]} \subseteq Given' /\ Given' \subseteq Given
         /\ UNCHANGED <<head, count, mutex, made>>
         /\ ~stale' => /\ ~stale /\ head[at[t]] = seen[t].head
                       /\ seen[t].head # NoInode => seen[t].next = next[seen[t].head]
                       /\ node[t] \notin Given'
  <1>1. /\ pc[t] = "link" /\ mutex[at[t]] = NoThread
        /\ next' = [next EXCEPT ![seen[t].head] = node[t], ![node[t]] = seen[t].next]
        /\ held' = [held EXCEPT ![t] = @ \ {node[t]}]
        /\ stale' = (stale \/ Outdated(t))
        /\ UNCHANGED <<head, count, mutex, made>>
    BY DEF LinkFree
  <1>2. node[t] \in held[t]
    BY <1>1 DEF IInv, LockDiscipline
  <1>3. node[t] \in 1..made /\ 1..made \subseteq Inode /\ at[t] \in Cpu
    BY <1>2, TableAssumption DEF IInv, TypeOK, Inode
  <1>4. /\ held'[t] = held[t] \ {node[t]}
        /\ \A u \in Thread : u # t => held'[u] = held[u]
    BY <1>1 DEF IInv, TypeOK
  <1>5. Given \ {node[t]} \subseteq Given' /\ Given' \subseteq Given
    BY <1>4 DEF Given
  <1>6. ASSUME ~stale'
        PROVE  /\ ~stale /\ head[at[t]] = seen[t].head
               /\ seen[t].head # NoInode => seen[t].next = next[seen[t].head]
               /\ node[t] \notin Given'
    <2>1. ~stale /\ ~Outdated(t)
      BY <1>1, <1>6 DEF IInv, TypeOK
    <2>2. \A u \in Thread : u # t => node[t] \notin held[u]
      BY <1>2, <2>1 DEF IInv, HeldApart
    <2>3. node[t] \notin Given'
      BY <1>4, <2>2 DEF Given
    <2> QED
      BY <2>1, <2>3 DEF Outdated
  <1> QED
    BY <1>1, <1>2, <1>3, <1>4, <1>5, <1>6

(* A free that is not stale lengthens the run of its list, or leaves a list*)
(* that has none as it was.                                                *)
LEMMA LinkedIntoRun ==
  ASSUME IInv, NEW t \in Thread, LinkFree(t), ~stale',
         NEW chain \in [Cpu -> Chains], Apart(chain)
  PROVE  /\ chain[at[t]] \in Run
         /\ \E r \in Run :
              /\ ChainedFrom(head[at[t]], next', r)
              /\ Range(r) = IF seen[t].head = NoInode THEN Range(chain[at[t]])
                            ELSE Range(chain[at[t]]) \cup {node[t]}
              /\ Len(r) >= Len(chain[at[t]])
  <1> DEFINE c == at[t]
  <1>1. /\ c \in Cpu /\ node[t] \in held[t] /\ node[t] \in Inode
        /\ next' = [next EXCEPT ![seen[t].head] = node[t], ![node[t]] = seen[t].next]
        /\ head[c] = seen[t].head
        /\ seen[t].head # NoInode => seen[t].next = next[seen[t].head]
    BY LinkEffect
  <1>2. /\ chain[c] \in Run /\ ChainedFrom(head[c], next, chain[c])
        /\ Range(chain[c]) \cap Given = {}
    BY <1>1 DEF Apart, Chains
  <1>3. node[t] \notin Range(chain[c])
    BY <1>1, <1>2 DEF Given
  <1>4. next \in [Inode \cup {NoInode} -> Inode \cup {NoInode}] /\ NoInode \notin Inode
    BY TableAssumption DEF IInv, TypeOK, Inode
  <1> HIDE DEF c
  <1>5. CASE head[c] = NoInode
    <2>1. \A i \in Range(chain[c]) : i # NoInode /\ i # node[t] /\ i \in Inode
      BY <1>2, <1>3, <1>4, RunShape
    <2>2. \A i \in Range(chain[c]) : next'[i] = next[i]
      BY <1>1, <1>4, <1>5, <2>1
    <2>3. ChainedFrom(head[c], next', chain[c])
      BY <1>2, <2>2, SameRun
    <2>4. Len(chain[c]) >= Len(chain[c])
      BY <1>2, RunShape
    <2> QED
      BY <1>1, <1>2, <1>5, <2>3, <2>4 DEF c
  <1>6. CASE head[c] # NoInode
    <2>1. chain[c] # <<>>
      BY <1>2, <1>6 DEF ChainedFrom
    <2>2. next' = [next EXCEPT ![head[c]] = node[t], ![node[t]] = next[head[c]]]
      BY <1>1, <1>6
    <2>3. \E r \in Run :
            /\ ChainedFrom(head[c], next', r)
            /\ Range(r) = Range(chain[c]) \cup {node[t]}
            /\ Len(r) = Len(chain[c]) + 1
      <3>1. node[t] \in Inode /\ node[t] \notin Range(chain[c])
        BY <1>1, <1>3
      <3>2. /\ chain[c] \in Run /\ ChainedFrom(head[c], next, chain[c])
            /\ next \in [Inode \cup {NoInode} -> Inode \cup {NoInode}]
        BY <1>2, <1>4
      <3> QED
        <4>1. head[c] \in Range(chain[c]) /\ Range(chain[c]) \subseteq Inode
          <5>1. head[c] = chain[c][1] /\ 1 \in DOMAIN chain[c]
            BY <2>1, <3>2, RunShape DEF ChainedFrom
          <5> QED
            BY <3>2, <5>1, RunShape DEF Range
        <4>2. /\ next'[head[c]] = node[t] /\ next'[node[t]] = next[head[c]]
              /\ \A j \in Range(chain[c]) : j # head[c] => next'[j] = next[j]
          BY <2>2, <3>1, <3>2, <4>1
        <4> QED
          BY <2>1, <3>1, <3>2, <4>2, InsertRun
    <2>4. Len(chain[c]) \in Nat
      BY <1>2, RunShape
    <2>5. PICK r \in Run : /\ ChainedFrom(head[c], next', r)
                           /\ Range(r) = Range(chain[c]) \cup {node[t]}
                           /\ Len(r) = Len(chain[c]) + 1
      BY <2>3
    <2>6. Len(r) >= Len(chain[c])
      BY <2>4, <2>5
    <2> QED
      BY <1>1, <1>2, <1>6, <2>5, <2>6 DEF c
  <1> QED
    BY <1>5, <1>6

LEMMA LinkInv ==
  ASSUME IInv, NEW t \in Thread, LinkFree(t)
  PROVE  IInv'
  <1> DEFINE c == at[t]
  <1>1. /\ pc' = [pc EXCEPT ![t] = "idle"]
        /\ at' = [at EXCEPT ![t] = 1] /\ node' = [node EXCEPT ![t] = NoInode]
        /\ seen' = [seen EXCEPT ![t] = NothingSeen]
        /\ held' = [held EXCEPT ![t] = @ \ {node[t]}]
        /\ stale' = (stale \/ Outdated(t))
    BY DEF LinkFree, Return, Goto
  <1>2. /\ pc[t] = "link" /\ c \in Cpu /\ mutex[c] = NoThread
        /\ node[t] \in held[t] /\ node[t] \in 1..made /\ node[t] \in Inode
        /\ next' = [next EXCEPT ![seen[t].head] = node[t], ![node[t]] = seen[t].next]
        /\ held'[t] = held[t] \ {node[t]}
        /\ \A u \in Thread : u # t => held'[u] = held[u]
        /\ Given' \subseteq Given
        /\ UNCHANGED <<head, count, mutex, made>>
        /\ ~stale' => ~stale /\ node[t] \notin Given'
    BY LinkEffect
  <1>3. seen[t].head \in (1..made) \cup {NoInode} /\ seen[t].next \in (1..made) \cup {NoInode}
    BY DEF IInv, MadeOnly
  <1>4. 1 \in Cpu /\ (1..made) \cup {NoInode} \subseteq Inode \cup {NoInode}
    BY TableAssumption DEF Cpu, Inode, IInv, TypeOK
  <1>5. TypeOK'
    <2>1. next' \in [Inode \cup {NoInode} -> Inode \cup {NoInode}]
      BY <1>2, <1>3, <1>4 DEF IInv, TypeOK
    <2>2. stale' \in BOOLEAN
      BY <1>1 DEF IInv, TypeOK, Outdated
    <2>3. held' \in [Thread -> SUBSET (1..made')]
      BY <1>1, <1>2 DEF IInv, TypeOK
    <2>4. seen' \in [Thread -> [head : Inode \cup {NoInode}, next : Inode \cup {NoInode}]]
      BY <1>1 DEF IInv, TypeOK, NothingSeen
    <2> QED
      BY <1>1, <1>2, <1>4, <2>1, <2>2, <2>3, <2>4 DEF IInv, TypeOK
  <1>6. MadeOnly'
    <2>1. \A i \in Inode \cup {NoInode} : next'[i] \in (1..made') \cup {NoInode}
      BY <1>2, <1>3 DEF IInv, TypeOK, MadeOnly
    <2>2. \A d \in Cpu : head'[d] \in (1..made') \cup {NoInode}
      BY <1>2 DEF IInv, MadeOnly
    <2>3. \A u \in Thread : /\ node'[u] \in (1..made') \cup {NoInode}
                            /\ seen'[u].head \in (1..made') \cup {NoInode}
                            /\ seen'[u].next \in (1..made') \cup {NoInode}
      BY <1>1, <1>2 DEF IInv, TypeOK, MadeOnly, NothingSeen
    <2> QED
      BY <2>1, <2>2, <2>3 DEF MadeOnly
  <1>7. LockDiscipline'
    BY <1>1, <1>2 DEF IInv, TypeOK, LockDiscipline
  <1>8. HeldApart'
    BY <1>2 DEF IInv, HeldApart
  <1>9. ASSUME ~stale'
        PROVE  \E runs \in [Cpu -> Chains'] : Apart(runs)'
    <2>1. PICK chain \in [Cpu -> Chains] : Apart(chain)
      BY <1>2, <1>9 DEF IInv, ListsApart
    <2>2. PICK r \in Run :
            /\ ChainedFrom(head[c], next', r)
            /\ Range(r) = IF seen[t].head = NoInode THEN Range(chain[c])
                          ELSE Range(chain[c]) \cup {node[t]}
            /\ Len(r) >= Len(chain[c])
      BY <1>9, <2>1, LinkedIntoRun
    <2> HIDE DEF c
    <2>3. PICK new \in [Cpu -> Run] :
            /\ \A d \in Cpu : chain[d] \in Run
            /\ new[c] = r /\ \A d \in Cpu : d # c => new[d] = chain[d]
      <3>1. [chain EXCEPT ![c] = r] \in [Cpu -> Run]
        BY <1>2, <2>1, <2>2 DEF Chains
      <3> QED
        BY <1>2, <2>1, <2>2, <3>1 DEF Chains
    <2>4. /\ ~stale /\ head[c] = seen[t].head /\ node[t] \in Given /\ node[t] \notin Given'
      BY <1>2, <1>9, LinkEffect DEF c, Given
    <2>5. ASSUME NEW d \in Cpu
          PROVE  /\ ChainedFrom(head[d], next, chain[d]) /\ Range(chain[d]) \cap Given = {}
                 /\ Range(chain[d]) \subseteq 1..made /\ count[d] <= Len(chain[d])
                 /\ chain[d] \in Run /\ Range(chain[d]) \subseteq Inode /\ node[t] \notin Range(chain[d])
                 /\ Range(new[d]) \subseteq IF d = c THEN Range(chain[d]) \cup {node[t]}
                                                     ELSE Range(chain[d])
      <3>1. /\ ChainedFrom(head[d], next, chain[d]) /\ Range(chain[d]) \cap Given = {}
            /\ Range(chain[d]) \subseteq 1..made /\ count[d] <= Len(chain[d])
        BY <2>1 DEF Apart
      <3>2. chain[d] \in Run
        BY <2>3
      <3>3. Range(chain[d]) \subseteq Inode
        BY <3>2, RunShape
      <3>4. Range(new[d]) \subseteq IF d = c THEN Range(chain[d]) \cup {node[t]}
                                             ELSE Range(chain[d])
        BY <2>2, <2>3
      <3> QED
        BY <2>4, <3>1, <3>2, <3>3, <3>4
    <2>6. ASSUME NEW d \in Cpu
          PROVE  /\ ChainedFrom(head'[d], next', new[d])
                 /\ Range(new[d]) \cap Given' = {}
                 /\ Range(new[d]) \subseteq 1..made'
                 /\ count'[d] <= Len(new[d])
      <3>1. Range(new[d]) \cap Given' = {} /\ Range(new[d]) \subseteq 1..made'
        BY <1>2, <2>4, <2>5
      <3>2. CASE d = c
        <4>1. count[c] <= Len(chain[c]) /\ Len(chain[c]) \in Nat /\ Len(r) \in Nat
          BY <1>2, <2>2, <2>5, RunShape
        <4>2. count[c] \in Nat
          BY <1>2, TableAssumption DEF IInv, TypeOK
        <4>3. count[c] <= Len(r)
          BY <2>2, <4>1, <4>2
        <4> QED
          BY <1>2, <2>2, <2>3, <3>1, <3>2, <4>3
      <3>3. CASE d # c
        <4>1. new[d] = chain[d]
          BY <2>3, <3>3
        <4>2. Range(chain[d]) \cap Range(chain[c]) = {}
          BY <1>2, <2>1, <3>3 DEF Apart
        <4>3. head[c] # NoInode => head[c] \in Range(chain[c])
          <5>1. CASE chain[c] = <<>>
            BY <1>2, <2>5, <5>1 DEF ChainedFrom
          <5>2. CASE chain[c] # <<>>
            <6>1. head[c] = chain[c][1]
              BY <1>2, <2>5, <5>2 DEF ChainedFrom
            <6>2. 1 \in DOMAIN chain[c]
              BY <1>2, <2>5, <5>2, RunShape
            <6> QED
              BY <6>1, <6>2 DEF Range
          <5> QED
            BY <5>1, <5>2
        <4>4. NoInode \notin Inode
          BY TableAssumption DEF Inode
        <4>5. \A i \in Range(chain[d]) : i # seen[t].head /\ i # node[t] /\ i \in Inode
          BY <2>4, <2>5, <4>2, <4>3, <4>4
        <4>6. \A i \in Range(chain[d]) : next'[i] = next[i]
          BY <1>2, <4>5 DEF IInv, TypeOK
        <4>7. ChainedFrom(head[d], next', chain[d])
          BY <2>5, <4>6, SameRun
        <4> QED
          BY <1>2, <2>5, <3>1, <4>1, <4>7
      <3> QED
        BY <3>2, <3>3
    <2>7. \A d, e \in Cpu : d # e => Range(new[d]) \cap Range(new[e]) = {}
      <3>1. \A d, e \in Cpu : d # e => Range(chain[d]) \cap Range(chain[e]) = {}
        BY <2>1 DEF Apart
      <3> QED
        BY <2>5, <3>1
    <2>8. Apart(new)'
      BY <2>6, <2>7 DEF Apart
    <2>9. new \in [Cpu -> Chains']
      BY <2>3, <2>6 DEF Chains
    <2> QED
      BY <2>8, <2>9
  <1>10. ListsApart'
    BY <1>9 DEF ListsApart
  <1> QED
    BY <1>5, <1>6, <1>7, <1>8, <1>10 DEF IInv

-----------------------------------------------------------------------------
LEMMA StutterInv ==
  ASSUME IInv, UNCHANGED vars
  PROVE  IInv'
  <1>1. UNCHANGED <<next, head, count, mutex, made, pc, at, node, seen, held, stale>>
    BY DEF vars, lists
  <1>2. TypeOK' /\ MadeOnly' /\ LockDiscipline'
    BY <1>1 DEF IInv, TypeOK, MadeOnly, LockDiscipline
  <1> QED
    BY <1>1, <1>2, KeepLists DEF IInv

(* The strengthened invariant of the inode table: what is linked has been  *)
(* made, an alloc works on the list it has locked, and until a stale link  *)
(* every list is a run of its own, as long as its count says.              *)
THEOREM Safety == Spec => []IInv
  <1>1. ASSUME IInv, [Next]_vars PROVE IInv'
    <2>1. ASSUME NEW t \in Thread, Step(t) PROVE IInv'
      BY <1>1, <2>1, WaitInv, ReadInv, RefillInv, TakeInv, LinkInv DEF Step
    <2>2. CASE UNCHANGED vars
      BY <1>1, <2>2, StutterInv
    <2> QED
      BY <1>1, <2>1, <2>2 DEF Next
  <1> QED
    BY InitInv, <1>1, PTL DEF Spec
-----------------------------------------------------------------------------
(* Induction over the naturals, in terms of a set of them.                 *)
LEMMA SmallestIn ==
  ASSUME NEW T \in SUBSET Nat, T # {}
  PROVE  \E x \in T : \A y \in T : x <= y
  <1> DEFINE R == {p \in Nat \X Nat : p[1] < p[2]}
  <1>1. IsWellFoundedOn(R, Nat)
    BY NatLessThanWellFounded DEF OpToRel
  <1>2. PICK x \in T : \A y \in T : ~(<<y, x>> \in R)
    BY <1>1, WFMin
  <1>3. ASSUME NEW y \in T PROVE x <= y
    <2>1. x \in Nat /\ y \in Nat /\ <<y, x>> \in Nat \X Nat
      OBVIOUS
    <2>2. ~(y < x)
      BY <1>2, <2>1
    <2> QED
      BY <2>1, <2>2
  <1> QED
    BY <1>3

LEMMA SetInduction ==
  ASSUME NEW S \in SUBSET Nat, 0 \in S, \A n \in S : n + 1 \in S
  PROVE  S = Nat
  <1> SUFFICES ASSUME Nat \ S # {} PROVE FALSE
    OBVIOUS
  <1>1. PICK x \in Nat \ S : \A y \in Nat \ S : x <= y
    BY SmallestIn
  <1>2. x - 1 \in S
    BY <1>1
  <1> QED
    BY <1>1, <1>2

(* The set that is reached is determined: there is one function that       *)
(* satisfies its recursion.                                                *)
ReachUpTo(from, links, n, f) ==
  f = [k \in 0..n |-> IF k = 0 THEN {from}
                      ELSE f[k - 1] \cup {links[i] : i \in f[k - 1] \ {NoInode}}]

LEMMA ReachExists ==
  ASSUME NEW from, NEW links
  PROVE  \A n \in Nat : \E f : ReachUpTo(from, links, n, f)
  <1> DEFINE S == {n \in Nat : \E f : ReachUpTo(from, links, n, f)}
  <1>1. 0 \in S
    <2> DEFINE f == [k \in 0..0 |-> {from}]
    <2>1. f = [k \in 0..0 |-> IF k = 0 THEN {from}
                      ELSE f[k - 1] \cup {links[i] : i \in f[k - 1] \ {NoInode}}]
      OBVIOUS
    <2> HIDE DEF f
    <2>2. ReachUpTo(from, links, 0, f)
      BY <2>1 DEF ReachUpTo
    <2> QED
      BY <2>2
  <1>2. ASSUME NEW n \in S PROVE n + 1 \in S
    <2>1. PICK f : ReachUpTo(from, links, n, f)
      OBVIOUS
    <2> DEFINE last == f[n] \cup {links[i] : i \in f[n] \ {NoInode}}
               g == [k \in 0..(n + 1) |-> IF k = n + 1 THEN last ELSE f[k]]
               h == [k \in 0..(n + 1) |-> IF k = 0 THEN {from}
                      ELSE g[k - 1] \cup {links[i] : i \in g[k - 1] \ {NoInode}}]
    <2>2. n \in Nat
      OBVIOUS
    <2>3. ASSUME NEW k \in 0..(n + 1) PROVE g[k] = h[k]
      <3>1. CASE k = n + 1
        <4>1. k # 0 /\ k - 1 = n /\ n \in 0..(n + 1) /\ n # n + 1
          BY <2>2, <3>1
        <4>2. g[k] = last /\ g[k - 1] = f[n]
          BY <3>1, <4>1
        <4> QED
          BY <4>1, <4>2
      <3>2. CASE k # n + 1
        <4>1. k \in 0..n /\ (k # 0 => k - 1 \in 0..(n + 1) /\ k - 1 # n + 1)
          BY <2>2, <3>2
        <4>2. g[k] = f[k] /\ (k # 0 => g[k - 1] = f[k - 1])
          BY <3>2, <4>1
        <4>3. f[k] = IF k = 0 THEN {from}
                     ELSE f[k - 1] \cup {links[i] : i \in f[k - 1] \ {NoInode}}
          BY <2>1, <4>1 DEF ReachUpTo
        <4> QED
          BY <4>2, <4>3
      <3> QED
        BY <3>1, <3>2
    <2>4. g = h
      BY <2>3
    <2> HIDE DEF g
    <2>5. ReachUpTo(from, links, n + 1, g)
      BY <2>4 DEF ReachUpTo
    <2> QED
      BY <2>2, <2>5
  <1> HIDE DEF S
  <1>3. S = Nat
    <2>1. S \in SUBSET Nat
      BY DEF S
    <2> QED
      BY <1>1, <1>2, <2>1, SetInduction
  <1> QED
    BY <1>3 DEF S
LEMMA ReachedBy ==
  ASSUME NEW from, NEW links
  PROVE  \E f : /\ ReachUpTo(from, links, NumInodes, f)
                /\ Reached(from, links) = f[NumInodes] \ {NoInode}
  <1> DEFINE f == CHOOSE f : ReachUpTo(from, links, NumInodes, f)
  <1>1. ReachUpTo(from, links, NumInodes, f)
    <2>1. \E g : ReachUpTo(from, links, NumInodes, g)
      BY ReachExists, TableAssumption
    <2> QED
      BY <2>1
  <1>2. Reached(from, links) = f[NumInodes] \ {NoInode}
    BY DEF Reached, ReachUpTo
  <1> QED
    BY <1>1, <1>2

(* What is reached from the head of a run is the inodes of the run.        *)
LEMMA ReachedRun ==
  ASSUME NEW s \in Run, NEW from, NEW links, ChainedFrom(from, links, s)
  PROVE  Reached(from, links) = Range(s)
  <1>1. PICK f : /\ ReachUpTo(from, links, NumInodes, f)
                 /\ Reached(from, links) = f[NumInodes] \ {NoInode}
    BY ReachedBy
  <1>2. /\ NumInodes \in Nat /\ Len(s) \in 0..NumInodes /\ Len(s) \in Nat
        /\ DOMAIN s = 1..Len(s)
        /\ \A i \in 1..Len(s) : s[i] # NoInode
    BY RunShape, TableAssumption DEF Inode
  <1>3. /\ f[0] = {from}
        /\ \A k \in 0..NumInodes : k + 1 \in 0..NumInodes =>
             f[k + 1] = f[k] \cup {links[i] : i \in f[k] \ {NoInode}}
    <2>1. \A k \in 0..NumInodes :
            f[k] = IF k = 0 THEN {from}
                   ELSE f[k - 1] \cup {links[i] : i \in f[k - 1] \ {NoInode}}
      BY <1>1 DEF ReachUpTo
    <2>2. ASSUME NEW k \in 0..NumInodes, k + 1 \in 0..NumInodes
          PROVE  f[k + 1] = f[k] \cup {links[i] : i \in f[k] \ {NoInode}}
      <3>1. k + 1 # 0 /\ (k + 1) - 1 = k
        BY <1>2
      <3>2. f[k + 1] = f[(k + 1) - 1] \cup {links[i] : i \in f[(k + 1) - 1] \ {NoInode}}
        BY <2>1, <2>2, <3>1
      <3> QED
        BY <3>1, <3>2
    <2>3. 0 \in 0..NumInodes
      BY <1>2
    <2> QED
      BY <2>1, <2>2, <2>3
  <1> DEFINE First(k) == {s[i] : i \in {j \in 1..Len(s) : j <= k}}
             S == {k \in Nat : k \in 0..NumInodes => f[k] \ {NoInode} = First(k + 1)}
  <1>4. 0 \in S
    <2>1. CASE s = <<>>
      <3>1. from = NoInode /\ Len(s) = 0
        BY <2>1 DEF ChainedFrom
      <3>2. First(0 + 1) = {}
        BY <3>1
      <3> QED
        BY <1>3, <3>1, <3>2
    <2>2. CASE s # <<>>
      <3>1. from = s[1] /\ 1 \in 1..Len(s)
        <4>1. from = s[1]
          BY <2>2 DEF ChainedFrom
        <4>2. Len(s) # 0
          BY <2>2, RunShape
        <4> QED
          BY <1>2, <4>1, <4>2
      <3>2. {j \in 1..Len(s) : j <= 0 + 1} = {1}
        BY <1>2, <3>1
      <3>3. First(0 + 1) = {s[1]}
        BY <3>2
      <3> QED
        BY <1>2, <1>3, <3>1, <3>3
    <2> QED
      BY <2>1, <2>2
  <1>5. ASSUME NEW k \in S PROVE k + 1 \in S
    <2> SUFFICES ASSUME k + 1 \in 0..NumInodes
                 PROVE  f[k + 1] \ {NoInode} = First((k + 1) + 1)
      OBVIOUS
    <2>1. k \in Nat /\ k \in 0..NumInodes
      BY <1>2
    <2>2. f[k] \ {NoInode} = First(k + 1)
      BY <2>1
    <2>3. f[k + 1] = f[k] \cup {links[i] : i \in f[k] \ {NoInode}}
      BY <1>3, <2>1
    <2>4. ASSUME NEW x \in f[k + 1] \ {NoInode}
          PROVE  x \in First((k + 1) + 1)
      <3>1. CASE x \in f[k]
        BY <2>1, <2>2, <3>1
      <3>2. CASE x \notin f[k]
        <4>1. PICK i \in f[k] \ {NoInode} : x = links[i]
          BY <2>3, <2>4, <3>2
        <4>2. PICK j \in 1..Len(s) : j <= k + 1 /\ i = s[j]
          BY <2>2, <4>1
        <4>3. j # Len(s) /\ x = s[j + 1]
          BY <4>1, <4>2 DEF ChainedFrom
        <4>4. j + 1 \in 1..Len(s) /\ j + 1 <= (k + 1) + 1
          <5>1. Len(s) \in Nat
            BY <1>2
          <5> QED
            BY <2>1, <4>2, <4>3, <5>1
        <4> QED
          BY <4>3, <4>4
      <3> QED
        BY <3>1, <3>2
    <2>5. ASSUME NEW j \in 1..Len(s), j <= (k + 1) + 1
          PROVE  s[j] \in f[k + 1] \ {NoInode}
      <3>1. CASE j <= k + 1
        <4>1. s[j] \in First(k + 1)
          BY <3>1
        <4> QED
          BY <2>2, <2>3, <4>1
      <3>2. CASE ~(j <= k + 1)
        <4>1. j - 1 \in 1..Len(s) /\ j - 1 <= k + 1 /\ j - 1 # Len(s) /\ (j - 1) + 1 = j
          BY <1>2, <2>1, <2>5, <3>2
        <4>2. s[j - 1] \in First(k + 1)
          BY <4>1
        <4>3. links[s[j - 1]] = s[j]
          <5>1. links[s[j - 1]] = IF j - 1 = Len(s) THEN NoInode ELSE s[(j - 1) + 1]
            BY <4>1 DEF ChainedFrom
          <5> QED
            BY <4>1, <5>1
        <4> HIDE DEF First
        <4>4. s[j - 1] \in f[k] \ {NoInode}
          BY <2>2, <4>2
        <4> QED
          BY <1>2, <2>3, <4>3, <4>4
      <3> QED
        BY <3>1, <3>2
    <2> QED
      BY <2>4, <2>5
  <1>6. S = Nat
    <2>1. S \in SUBSET Nat
      OBVIOUS
    <2> HIDE DEF S
    <2> QED
      BY <1>4, <1>5, <2>1, SetInduction
  <1>7. f[NumInodes] \ {NoInode} = First(NumInodes + 1)
    <2>1. NumInodes \in S /\ NumInodes \in 0..NumInodes
      BY <1>2, <1>6
    <2> QED
      BY <2>1
  <1>8. First(NumInodes + 1) = Range(s)
    <2>1. {j \in 1..Len(s) : j <= NumInodes + 1} = 1..Len(s)
      BY <1>2
    <2> QED
      BY <1>2, <2>1 DEF Range
  <1> QED
    BY <1>1, <1>7, <1>8
-----------------------------------------------------------------------------
(* Until a stale link the sets that are listed are the runs.               *)
LEMMA ListsAreRuns ==
  ASSUME IInv, ~stale
  PROVE  \E chain \in [Cpu -> Chains] :
           /\ Apart(chain)
           /\ \A c \in Cpu : chain[c] \in Run /\ Listed(c) = Range(chain[c])
  <1>1. PICK chain \in [Cpu -> Chains] : Apart(chain)
    BY DEF IInv, ListsApart
  <1>2. ASSUME NEW c \in Cpu
        PROVE  chain[c] \in Run /\ Listed(c) = Range(chain[c])
    BY <1>1, ReachedRun DEF Chains, Apart, Listed
  <1> QED
    BY <1>1, <1>2

(* Until a free has linked to a list that had changed under it, every list *)
(* is a chain of inodes of its own and no inode is given twice: two files  *)
(* never share one, whatever alloc_atfs_inode and free_atfs_inode overlap. *)
THEOREM TablesExclude == Spec => []InodeExclusive
  <1>1. ASSUME IInv PROVE InodeExclusive
    <2> SUFFICES ASSUME ~stale PROVE InodeExclusive
      BY DEF InodeExclusive
    <2>1. PICK chain \in [Cpu -> Chains] :
            /\ Apart(chain)
            /\ \A c \in Cpu : chain[c] \in Run /\ Listed(c) = Range(chain[c])
      BY <1>1, ListsAreRuns
    <2>2. \A c, d \in Cpu : c # d => Listed(c) \cap Listed(d) = {}
      BY <2>1 DEF Apart
    <2>3. ASSUME NEW c \in Cpu
          PROVE  /\ Listed(c) \cap Given = {}
                 /\ \A i, j \in Listed(c) : next[i] = next[j] /\ next[i] # NoInode => i = j
                 /\ \A i \in Listed(c) : next[i] # head[c]
      <3> DEFINE s == chain[c]
      <3>1. /\ s \in Run /\ Listed(c) = Range(s) /\ ChainedFrom(head[c], next, s)
            /\ Range(s) \cap Given = {}
        BY <2>1 DEF Apart
      <3> HIDE DEF s
      <3>2. /\ Len(s) \in Nat /\ DOMAIN s = 1..Len(s)
            /\ \A k \in 1..Len(s) : s[k] # NoInode
            /\ \A k, m \in 1..Len(s) : s[k] = s[m] => k = m
        BY <3>1, RunShape, TableAssumption DEF Inode, IsInjective
      <3>3. ASSUME NEW k \in 1..Len(s)
            PROVE  /\ next[s[k]] = IF k = Len(s) THEN NoInode ELSE s[k + 1]
                   /\ k # Len(s) => k + 1 \in 1..Len(s) /\ k + 1 # 1
        <4>1. next[s[k]] = IF k = Len(s) THEN NoInode ELSE s[k + 1]
          BY <3>1 DEF ChainedFrom
        <4>2. Len(s) \in Nat
          BY <3>2
        <4>3. k # Len(s) => k + 1 \in 1..Len(s) /\ k + 1 # 1
          BY <4>2
        <4> QED
          BY <4>1, <4>3
      <3>4. ASSUME NEW k \in 1..Len(s), NEW m \in 1..Len(s),
                   next[s[k]] = next[s[m]], next[s[k]] # NoInode
            PROVE  k = m
        <4>1. s[k + 1] = s[m + 1] /\ k + 1 \in 1..Len(s) /\ m + 1 \in 1..Len(s)
          BY <3>3, <3>4
        <4>2. k + 1 = m + 1
          BY <3>2, <4>1
        <4> QED
          BY <4>2
      <3>5. ASSUME NEW k \in 1..Len(s)
            PROVE  next[s[k]] # head[c]
        <4>1. head[c] = s[1] /\ 1 \in 1..Len(s)
          <5>1. s # <<>> /\ 1 \in 1..Len(s)
            BY <3>2
          <5> QED
            BY <3>1, <5>1 DEF ChainedFrom
        <4>2. CASE k = Len(s)
          BY <3>2, <3>3, <4>1, <4>2
        <4>3. CASE k # Len(s)
          <5>1. next[s[k]] = s[k + 1] /\ k + 1 \in 1..Len(s) /\ k + 1 # 1
            BY <3>3, <4>3, Zenon
          <5> QED
            BY <3>2, <4>1, <5>1, Zenon
        <4> QED
          BY <4>2, <4>3
      <3> QED
        BY <3>1, <3>2, <3>4, <3>5 DEF Range
    <2>4. \A t, u \in Thread : t # u => held[t] \cap held[u] = {}
      BY <1>1 DEF IInv, HeldApart
    <2> QED
      BY <2>2, <2>3, <2>4 DEF InodeExclusive
  <1> QED
    BY Safety, <1>1, PTL

(* Until then the counts that alloc_atfs_inode tests are covered by the    *)
(* lists, so that no caller is given OFFSET_NULL.                          *)
THEOREM CountsAreCovered == Spec => []CountCovered
  <1>1. ASSUME IInv PROVE CountCovered
    <2> SUFFICES ASSUME ~stale, NEW c \in Cpu
                 PROVE  count[c] <= Cardinality(Listed(c))
      BY DEF CountCovered
    <2>1. PICK chain \in [Cpu -> Chains] :
            /\ Apart(chain)
            /\ \A d \in Cpu : chain[d] \in Run /\ Listed(d) = Range(chain[d])
      BY <1>1, ListsAreRuns
    <2>2. count[c] <= Len(chain[c]) /\ Listed(c) = Range(chain[c]) /\ chain[c] \in Run
      BY <2>1 DEF Apart
    <2>3. Cardinality(Range(chain[c])) = Len(chain[c])
      BY <2>2, RunShape, RunSize
    <2> QED
      BY <2>2, <2>3
  <1> QED
    BY Safety, <1>1, PTL
-----------------------------------------------------------------------------
(* What each step does to what is given and listed.                        *)
LEMMA SameListed ==
  ASSUME NEW s \in Run, NEW from, NEW links, ChainedFrom(from, links, s),
         NEW new, \A i \in Range(s) : new[i] = links[i]
  PROVE  Reached(from, new) = Range(s)
  BY SameRun, ReachedRun

LEMMA RefillDrops ==
  ASSUME IInv, ~stale, NEW t \in Thread, Refill(t)
  PROVE  Known \ Known' \in {{}, Listed(at[t])}
  <1> DEFINE c == at[t]
             Now(d) == Reached(head'[d], next')
  <1>1. /\ next' = [i \in Inode \cup {NoInode} |->
                      IF i \in Batch(made) THEN ChainedDown(made, i) ELSE next[i]]
        /\ head' = [head EXCEPT ![c] = made'] /\ made' = made + PerRefill
        /\ made + PerRefill <= NumInodes /\ UNCHANGED held
    BY DEF Refill
  <1>2. /\ c \in Cpu /\ made \in Nat /\ PerRefill \in Nat \ {0} /\ NumInodes \in Nat
        /\ Given' = Given /\ Given \subseteq 1..made
    BY <1>1, TableAssumption DEF IInv, TypeOK, Given
  <1>3. PICK chain \in [Cpu -> Chains] :
          /\ Apart(chain)
          /\ \A d \in Cpu : chain[d] \in Run /\ Listed(d) = Range(chain[d])
    BY ListsAreRuns
  <1>4. /\ \A i \in 1..made : i \notin Batch(made) /\ next'[i] = next[i]
        /\ \A i \in Batch(made) : next'[i] = ChainedDown(made, i)
    BY <1>1, <1>2 DEF Batch, Inode
  <1>5. \A d \in Cpu : /\ ChainedFrom(head[d], next, chain[d]) /\ Range(chain[d]) \subseteq 1..made
                       /\ Range(chain[d]) \cap Given = {}
                       /\ d # c => Range(chain[d]) \cap Range(chain[c]) = {}
    BY <1>2, <1>3 DEF Apart
  <1>6. ASSUME NEW d \in Cpu, d # c PROVE Now(d) = Listed(d)
    <2>1. head'[d] = head[d]
      BY <1>1, <1>6 DEF IInv, TypeOK
    <2>2. \A i \in Range(chain[d]) : next'[i] = next[i]
      BY <1>4, <1>5
    <2>3. Reached(head[d], next') = Range(chain[d])
      BY <1>3, <1>5, <2>2, SameListed
    <2> QED
      BY <1>3, <2>1, <2>3
  <1>7. Now(c) = Batch(made)
    <2>1. head'[c] = made + PerRefill
      BY <1>1, <1>2 DEF IInv, TypeOK
    <2>2. PICK run \in Run : ChainedFrom(made + PerRefill, next', run) /\ Range(run) = Batch(made)
      BY <1>1, <1>2, <1>4, FreshRun
    <2> QED
      BY <2>1, <2>2, ReachedRun
  <1>8. Known = Given \cup UNION {Listed(d) : d \in Cpu}
    BY DEF Known
  <1>9. Known' = Given \cup UNION {Now(d) : d \in Cpu}
    BY <1>2 DEF Known, Listed
  <1> HIDE DEF Now, c
  <1>10. ASSUME NEW i \in Listed(c) PROVE i \in Known /\ i \notin Known'
    BY <1>2, <1>3, <1>4, <1>5, <1>6, <1>7, <1>8, <1>9
  <1>11. ASSUME NEW i \in Known, i \notin Listed(c) PROVE i \in Known'
    <2>1. CASE i \in Given
      BY <1>9, <2>1
    <2>2. CASE i \notin Given
      <3>1. PICK d \in Cpu : i \in Listed(d)
        BY <1>8, <2>2
      <3>2. d # c /\ i \in Now(d)
        BY <1>6, <1>11, <3>1
      <3> QED
        BY <1>9, <3>2
    <2> QED
      BY <2>1, <2>2
  <1>12. Known \ Known' = Listed(c)
    BY <1>10, <1>11
  <1> QED
    BY <1>12 DEF c

LEMMA TakeDrops ==
  ASSUME IInv, ~stale, NEW t \in Thread, Take(t)
  PROVE  Known \subseteq Known'
  <1> DEFINE c == at[t]
             Now(d) == Reached(head'[d], next')
  <1>1. /\ c \in Cpu
        /\ head' = [head EXCEPT ![c] = next[node[t]]]
        /\ next' = [next EXCEPT ![node[t]] = NoInode]
        /\ Given' = Given \cup ({node[t]} \ {NoInode})
    BY TakeEffect
  <1>2. PICK chain \in [Cpu -> Chains] :
          /\ Apart(chain)
          /\ \A d \in Cpu : chain[d] \in Run /\ Listed(d) = Range(chain[d])
    BY ListsAreRuns
  <1>3. /\ node[t] \in Range(chain[c]) /\ node[t] \in 1..made
        /\ Tail(chain[c]) \in Run
        /\ ChainedFrom(head'[c], next', Tail(chain[c]))
        /\ Range(chain[c]) = Range(Tail(chain[c])) \cup {node[t]}
    BY <1>2, TakenFromRun
  <1>4. node[t] \in Given'
    BY <1>1, <1>3, TableAssumption
  <1>5. ASSUME NEW d \in Cpu, d # c PROVE Now(d) = Listed(d)
    <2>1. head'[d] = head[d]
      BY <1>1, <1>5 DEF IInv, TypeOK
    <2>2. /\ ChainedFrom(head[d], next, chain[d])
          /\ Range(chain[d]) \cap Range(chain[c]) = {} /\ Range(chain[d]) \subseteq Inode
      BY <1>1, <1>2, <1>5, RunShape DEF Apart
    <2>3. \A i \in Range(chain[d]) : next'[i] = next[i]
      BY <1>1, <1>3, <2>2 DEF IInv, TypeOK
    <2>4. Reached(head[d], next') = Range(chain[d])
      BY <1>2, <2>2, <2>3, SameListed
    <2> QED
      BY <1>2, <2>1, <2>4
  <1>6. Now(c) = Range(Tail(chain[c]))
    BY <1>3, ReachedRun
  <1>7. Known = Given \cup UNION {Listed(d) : d \in Cpu}
    BY DEF Known
  <1>8. Known' = Given' \cup UNION {Now(d) : d \in Cpu}
    BY DEF Known, Listed
  <1> HIDE DEF Now, c
  <1>9. ASSUME NEW d \in Cpu PROVE Listed(d) \subseteq Known'
    <2>1. CASE d = c
      BY <1>1, <1>2, <1>3, <1>4, <1>6, <1>8, <2>1
    <2>2. CASE d # c
      BY <1>5, <1>8, <2>2
    <2> QED
      BY <2>1, <2>2
  <1> QED
    BY <1>1, <1>7, <1>8, <1>9

LEMMA LinkDrops ==
  ASSUME IInv, NEW t \in Thread, LinkFree(t), ~stale'
  PROVE  /\ seen[t].head # NoInode => Known \subseteq Known'
         /\ seen[t].head = NoInode => Known \ Known' = {node[t]}
  <1> DEFINE c == at[t]
             Now(d) == Reached(head'[d], next')
  <1>1. /\ c \in Cpu /\ node[t] \in held[t] /\ node[t] \in Inode
        /\ next' = [next EXCEPT ![seen[t].head] = node[t], ![node[t]] = seen[t].next]
        /\ Given \ {node[t]} \subseteq Given' /\ Given' \subseteq Given
        /\ UNCHANGED head /\ ~stale /\ head[c] = seen[t].head /\ node[t] \notin Given'
    BY LinkEffect
  <1>2. PICK chain \in [Cpu -> Chains] :
          /\ Apart(chain)
          /\ \A d \in Cpu : chain[d] \in Run /\ Listed(d) = Range(chain[d])
    BY <1>1, ListsAreRuns
  <1>3. PICK r \in Run :
          /\ ChainedFrom(head[c], next', r)
          /\ Range(r) = IF seen[t].head = NoInode THEN Range(chain[c])
                        ELSE Range(chain[c]) \cup {node[t]}
    BY <1>2, LinkedIntoRun
  <1>4. Now(c) = Range(r)
    BY <1>1, <1>3, ReachedRun
  <1>5. \A d \in Cpu : /\ ChainedFrom(head[d], next, chain[d]) /\ Range(chain[d]) \subseteq Inode
                       /\ Range(chain[d]) \cap Given = {} /\ node[t] \in Given
                       /\ d # c => Range(chain[d]) \cap Range(chain[c]) = {}
    BY <1>1, <1>2, RunShape DEF Apart, Given
  <1>6. head[c] # NoInode => head[c] \in Range(chain[c])
    <2>1. CASE chain[c] = <<>>
      BY <1>1, <1>5, <2>1 DEF ChainedFrom
    <2>2. CASE chain[c] # <<>>
      <3>1. head[c] = chain[c][1]
        BY <1>1, <1>5, <2>2 DEF ChainedFrom
      <3>2. 1 \in DOMAIN chain[c]
        BY <1>1, <1>2, <2>2, RunShape
      <3> QED
        BY <3>1, <3>2 DEF Range
    <2> QED
      BY <2>1, <2>2
  <1>7. ASSUME NEW d \in Cpu, d # c PROVE Now(d) = Listed(d)
    <2>1. NoInode \notin Inode
      BY TableAssumption DEF Inode
    <2>2. \A i \in Range(chain[d]) : i # head[c] /\ i # node[t] /\ i \in Inode
      BY <1>5, <1>6, <1>7, <2>1
    <2>3. \A i \in Range(chain[d]) : next'[i] = next[i]
      BY <1>1, <2>2 DEF IInv, TypeOK
    <2>4. Reached(head[d], next') = Range(chain[d])
      BY <1>2, <1>5, <2>3, SameListed
    <2> QED
      BY <1>1, <1>2, <2>4
  <1>8. Known = Given \cup UNION {Listed(d) : d \in Cpu}
    BY DEF Known
  <1>9. Known' = Given' \cup UNION {Now(d) : d \in Cpu}
    BY DEF Known, Listed
  <1> HIDE DEF Now, c
  <1>10. /\ \A d \in Cpu : Listed(d) \subseteq Now(d)
         /\ \A d \in Cpu : node[t] \notin Listed(d)
    BY <1>2, <1>3, <1>4, <1>5, <1>7
  <1>11. Known \ {node[t]} \subseteq Known'
    BY <1>1, <1>8, <1>9, <1>10
  <1>12. CASE seen[t].head # NoInode
    <2>1. node[t] \in Now(c)
      BY <1>3, <1>4, <1>12
    <2> QED
      BY <1>1, <1>9, <1>11, <1>12, <2>1
  <1>13. CASE seen[t].head = NoInode
    <2>1. \A d \in Cpu : Now(d) = Listed(d)
      BY <1>2, <1>3, <1>4, <1>7, <1>13
    <2>2. node[t] \notin Known' /\ node[t] \in Known
      BY <1>1, <1>5, <1>8, <1>9, <1>10, <2>1
    <2> QED
      BY <1>11, <1>13, <2>2
  <1> QED
    BY <1>12, <1>13
LEMMA OthersDropNothing ==
  ASSUME UNCHANGED <<next, head, held>>
  PROVE  Known \subseteq Known'
  <1>1. \A c \in Cpu : Reached(head'[c], next') = Listed(c)
    BY DEF Listed
  <1>2. Known' = Given \cup UNION {Reached(head'[c], next') : c \in Cpu}
    BY DEF Known, Listed, Given
  <1> QED
    BY <1>1, <1>2 DEF Known

(* Until a stale link an inode drops out of sight in two ways only: freed  *)
(* to a list without inodes, or freed uncounted and left in a list that    *)
(* fill_atfs_inode_list replaces.                                          *)
THEOREM DropsAreUncounted == Spec => DropsOnlyUncounted
  <1>1. ASSUME IInv, [Next]_vars, ~stale', ~ Known \subseteq Known'
        PROVE  \E t \in Thread :
                 \/ pc[t] = "link" /\ seen[t].head = NoInode /\ Known \ Known' = {node[t]}
                 \/ pc[t] = "check" /\ count[at[t]] = 0 /\ Known \ Known' = Listed(at[t])
    <2>1. CASE UNCHANGED vars
      <3>1. UNCHANGED <<next, head, held>>
        BY <2>1 DEF vars, lists
      <3> QED
        BY <1>1, <3>1, OthersDropNothing
    <2>2. ASSUME NEW t \in Thread, Step(t)
          PROVE  \/ pc[t] = "link" /\ seen[t].head = NoInode /\ Known \ Known' = {node[t]}
                 \/ pc[t] = "check" /\ count[at[t]] = 0 /\ Known \ Known' = Listed(at[t])
      <3>1. CASE CallAlloc(t) \/ LockList(t) \/ Pick(t) \/ CallFree(t) \/ ReadNext(t)
        <4>1. UNCHANGED <<next, head, held>>
          BY <3>1 DEF CallAlloc, LockList, Pick, CallFree, ReadNext, lists
        <4> QED
          BY <1>1, <4>1, OthersDropNothing
      <3>2. CASE Refill(t)
        <4>1. ~stale /\ pc[t] = "check" /\ count[at[t]] = 0
          BY <1>1, <3>2 DEF Refill, UsedUp
        <4>2. Known \ Known' \in {{}, Listed(at[t])}
          BY <1>1, <3>2, <4>1, RefillDrops
        <4> QED
          BY <1>1, <4>1, <4>2
      <3>3. CASE Take(t)
        <4>1. ~stale
          BY <1>1, <3>3 DEF Take
        <4> QED
          BY <1>1, <3>3, <4>1, TakeDrops
      <3>4. CASE LinkFree(t)
        <4>1. pc[t] = "link"
          BY <3>4 DEF LinkFree
        <4> QED
          BY <1>1, <3>4, <4>1, LinkDrops
      <3> QED
        BY <2>2, <3>1, <3>2, <3>3, <3>4 DEF Step
    <2> QED
      BY <1>1, <2>1, <2>2 DEF Next
  <1>2. IInv /\ [Next]_vars =>
          [~stale' /\ ~ Known \subseteq Known' =>
             \E t \in Thread :
               \/ pc[t] = "link" /\ seen[t].head = NoInode /\ Known \ Known' = {node[t]}
               \/ pc[t] = "check" /\ count[at[t]] = 0 /\ Known \ Known' = Listed(at[t])]_vars
    BY <1>1
  <1> QED
    BY Safety, <1>2, PTL DEF Spec, DropsOnlyUncounted

-----------------------------------------------------------------------------
(* The table as a ledger.                                                  *)
Wants == [t \in Thread |-> IF pc[t] \in {"lock", "check", "take"} THEN 1 ELSE 0]

LEMMA SameCardinality ==
  ASSUME NEW S
  PROVE  Ledger!Cardinality(S) = Cardinality(S)
  BY DEF Ledger!Cardinality, Cardinality

(* Until a stale link every call of alloc_atfs_inode is granted one inode  *)
(* that nobody holds, and free_atfs_inode takes one from its holder: the   *)
(* lists implement PageLedger.                                             *)
THEOREM KeepsLedger == Spec => ImplementsLedger
  <1>1. ASSUME Init PROVE Ledger!Init
    <2>1. Given = {}
      BY <1>1 DEF Init, Given
    <2> QED
      BY <1>1, <2>1 DEF Init, Ledger!Init
  <1>2. ASSUME IInv, [Next]_vars, ~stale'
        PROVE  [Ledger!Next]_(Ledger!vars)
    <2>1. CASE UNCHANGED vars
      BY <2>1 DEF vars, lists, Ledger!vars, Given
    <2>2. ASSUME NEW t \in Thread, Step(t)
          PROVE  [Ledger!Next]_(Ledger!vars)
      <3>1. CASE CallAlloc(t)
        <4>1. /\ pc[t] = "idle" /\ pc' = [pc EXCEPT ![t] = "lock"] /\ UNCHANGED held
          BY <3>1 DEF CallAlloc, Goto
        <4>2. Wants[t] = 0 /\ Wants' = [Wants EXCEPT ![t] = 1]
          BY <1>2, <4>1 DEF Wants, IInv, TypeOK
        <4>3. Inode \ Given' = Inode \ Given
          BY <4>1 DEF Given
        <4>4. 1 \in 1..1
          OBVIOUS
        <4>5. Ledger!Ask(t)
          BY <4>1, <4>2, <4>3, <4>4 DEF Ledger!Ask, Wants
        <4> QED
          BY <4>5 DEF Ledger!Next
      <3>2. CASE LockList(t) \/ Refill(t) \/ Pick(t) \/ CallFree(t) \/ ReadNext(t)
        <4>1. UNCHANGED held
          BY <3>2 DEF LockList, Refill, Pick, CallFree, ReadNext
        <4>2. Wants' = Wants
          BY <1>2, <3>2 DEF LockList, Refill, Pick, CallFree, ReadNext, Goto, Wants, IInv, TypeOK
        <4> QED
          BY <4>1, <4>2 DEF Ledger!vars, Given, Wants
      <3>3. CASE Take(t)
        <4>1. ~stale /\ pc[t] = "take" /\ pc' = [pc EXCEPT ![t] = "idle"]
          BY <1>2, <3>3 DEF Take, Return, Goto
        <4>2. PICK chain \in [Cpu -> Chains] : Apart(chain)
          BY <1>2, <4>1 DEF IInv, ListsApart
        <4>3. node[t] \in 1..made /\ node[t] \notin Given
          BY <1>2, <3>3, <4>1, <4>2, TakenFromRun
        <4>4. node[t] \in Inode /\ node[t] # NoInode
          BY <1>2, <4>3, TableAssumption DEF IInv, TypeOK, Inode
        <4>5. /\ held' = [held EXCEPT ![t] = @ \cup {node[t]}]
              /\ Inode \ Given' = (Inode \ Given) \ {node[t]}
          BY <1>2, <3>3, <4>4, TakeEffect
        <4>6. Wants[t] = 1 /\ Wants' = [Wants EXCEPT ![t] = 0]
          BY <1>2, <4>1 DEF Wants, IInv, TypeOK
        <4>7. Ledger!Cardinality({node[t]}) = 1 /\ {node[t]} \in SUBSET (Inode \ Given)
          BY <4>3, <4>4, SameCardinality, FS_Singleton
        <4>8. Ledger!Grant(t)
          <5>1. \E S \in SUBSET (Inode \ Given) :
                  /\ Ledger!Cardinality(S) = Wants[t]
                  /\ Inode \ Given' = (Inode \ Given) \ S
                  /\ held' = [held EXCEPT ![t] = @ \cup S]
            BY <4>5, <4>6, <4>7
          <5>2. Wants[t] # 0
            BY <4>6
          <5> QED
            BY <4>6, <5>1, <5>2 DEF Ledger!Grant, Wants
        <4> QED
          BY <4>8 DEF Ledger!Next
      <3>4. CASE LinkFree(t)
        <4>1. /\ pc[t] = "link" /\ pc' = [pc EXCEPT ![t] = "idle"]
              /\ held' = [held EXCEPT ![t] = @ \ {node[t]}]
          BY <3>4 DEF LinkFree, Return, Goto
        <4>2. /\ node[t] \in held[t] /\ node[t] \in Inode
              /\ Given \ {node[t]} \subseteq Given' /\ Given' \subseteq Given /\ node[t] \notin Given'
          BY <1>2, <3>4, LinkEffect
        <4>3. Inode \ Given' = (Inode \ Given) \cup {node[t]}
          BY <4>2
        <4>4. Wants[t] = 0 /\ Wants' = Wants
          BY <1>2, <4>1 DEF Wants, IInv, TypeOK
        <4>5. {node[t]} \in SUBSET held[t] /\ {node[t]} # {}
          BY <4>2
        <4>6. Ledger!GiveUp(t)
          BY <4>1, <4>3, <4>4, <4>5 DEF Ledger!GiveUp, Wants
        <4> QED
          BY <4>6 DEF Ledger!Next
      <3> QED
        BY <2>2, <3>1, <3>2, <3>3, <3>4 DEF Step
    <2> QED
      BY <1>2, <2>1, <2>2 DEF Next
  <1>3. IInv /\ [Next]_vars => [~stale' => [Ledger!Next]_(Ledger!vars)]_vars
    BY <1>2
  <1> QED
    BY Safety, <1>1, <1>3, PTL DEF Spec, ImplementsLedger
=============================================================================
