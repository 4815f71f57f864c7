--------------------------- MODULE FileLogProofs ---------------------------
(***************************************************************************)
(* The logs of the files are chains of their own pages, they hold the      *)
(* B+trees, and only stale back pointers, marks or counters lead to        *)
(* damage: for any number of files and pages, any size of the files and of *)
(* the log pages, and any number of calls.                                 *)
(***************************************************************************)
EXTENDS FileLog, FiniteSetTheorems, WellFoundedInduction, TLAPS

(* Induction over the naturals with sets for predicates, so that it can be *)
(* cited for a set that a proof defines; with it, the function that        *)
(* satisfies a recursion over 0..n exists.                                 *)

(* A set of naturals that is not empty has a smallest element.             *)
LEMMA SmallestIn ==
  ASSUME NEW T \in SUBSET Nat, T # {}
  PROVE  \E x \in T : \A y \in T : x <= y
  <1> DEFINE R == {p \in Nat \X Nat : p[1] < p[2]}
  <1>1. IsWellFoundedOn(R, Nat)
    BY NatLessThanWellFounded DEF OpToRel
  <1>2. PICK x \in T : \A y \in T : ~(<<y, x>> \in R)
    BY <1>1, WFMin
  <1>3. ASSUME NEW y \in T PROVE x <= y
    <2>1. x \in Nat /\ y \in Nat /\ <<y, x>> \in Nat \X Nat
      OBVIOUS
    <2>2. ~(y < x)
      BY <1>2, <2>1
    <2> QED
      BY <2>1, <2>2
  <1> QED
    BY <1>3

(* A set that holds 0 and the successor of what it holds is Nat.           *)
LEMMA SetInduction ==
  ASSUME NEW S \in SUBSET Nat, 0 \in S, \A n \in S : n + 1 \in S
  PROVE  S = Nat
  <1> SUFFICES ASSUME Nat \ S # {} PROVE FALSE
    OBVIOUS
  <1>1. PICK x \in Nat \ S : \A y \in Nat \ S : x <= y
    BY SmallestIn
  <1>2. x - 1 \in S
    BY <1>1
  <1> QED
    BY <1>1, <1>2

(* The values of a recursion over 0..N.                                    *)
Recursion(S, a, step, N, f) ==
  /\ f \in [0..N -> S]
  /\ f[0] = a
  /\ \A n \in 1..N : f[n] = step[n][f[n - 1]]

LEMMA PrimitiveRecursion ==
  ASSUME NEW S, NEW a \in S, NEW step \in [Nat -> [S -> S]], NEW N \in Nat
  PROVE  \E f : Recursion(S, a, step, N, f)
  <1> DEFINE Good(n, f) == f[0] = a /\ \A k \in 1..n : f[k] = step[k][f[k - 1]]
             T == {n \in Nat : \E f \in [0..n -> S] : Good(n, f)}
  <1>1. 0 \in T
    <2>1. [k \in 0..0 |-> a] \in [0..0 -> S] /\ Good(0, [k \in 0..0 |-> a])
      OBVIOUS
    <2> QED
      BY <2>1
  <1>2. ASSUME NEW n \in T PROVE n + 1 \in T
    <2>1. PICK f \in [0..n -> S] : Good(n, f)
      OBVIOUS
    <2>2. n \in Nat /\ n \in 0..n /\ n + 1 \in Nat
      OBVIOUS
    <2> DEFINE last == step[n + 1][f[n]]
               g == [k \in 0..(n + 1) |-> IF k = n + 1 THEN last ELSE f[k]]
    <2>3. last \in S
      <3>1. step[n + 1] \in [S -> S] /\ f[n] \in S
        BY <2>2
      <3> QED
        BY <3>1
    <2> HIDE DEF last
    <2>4. ASSUME NEW k \in 0..(n + 1), k # n + 1 PROVE k \in 0..n /\ f[k] \in S
      BY <2>2, <2>4
    <2>5. g \in [0..(n + 1) -> S]
      BY <2>3, <2>4
    <2>6. g[n + 1] = last /\ \A k \in 0..n : g[k] = f[k]
      <3>1. n + 1 \in 0..(n + 1) /\ \A k \in 0..n : k \in 0..(n + 1) /\ k # n + 1
        BY <2>2
      <3> QED
        BY <3>1
    <2> HIDE DEF g
    <2>7. g[0] = a
      BY <2>1, <2>2, <2>6
    <2>8. ASSUME NEW k \in 1..(n + 1) PROVE g[k] = step[k][g[k - 1]]
      <3>1. CASE k = n + 1
        <4>1. k - 1 = n
          BY <2>2, <3>1
        <4>2. g[k] = last /\ g[k - 1] = f[n]
          BY <2>2, <2>6, <3>1, <4>1
        <4> QED
          BY <3>1, <4>2 DEF last
      <3>2. CASE k # n + 1
        <4>1. k \in 1..n /\ k \in 0..n /\ k - 1 \in 0..n
          BY <2>2, <3>2
        <4> QED
          BY <2>1, <2>6, <4>1
      <3> QED
        BY <3>1, <3>2
    <2>9. Good(n + 1, g)
      BY <2>7, <2>8
    <2> HIDE DEF Good
    <2> QED
      BY <2>2, <2>5, <2>9
  <1> HIDE DEF T
  <1>3. T = Nat
    <2>1. T \in SUBSET Nat
      BY DEF T
    <2> QED
      BY <1>1, <1>2, <2>1, SetInduction
  <1> QED
    BY <1>3 DEF T, Recursion
-----------------------------------------------------------------------------
NumPages == Cardinality(Page)

LEMMA PagesCounted ==
  /\ NumPages \in Nat /\ IsFiniteSet(Page) /\ NoPage \notin Page
  /\ NumFilePages \in Nat /\ NumFilePages > 0
  /\ Slots \in Nat /\ Slots > 0
  /\ MaxPerEntry \in Nat /\ MaxPerEntry > 0 /\ MaxPerEntry <= 64
  /\ MaxWrites \in Nat
  BY FS_CardinalityType, LogAssumption DEF NumPages

-----------------------------------------------------------------------------
(* What is reached from a page: the values of the recursion of Reached.    *)
ReachUpTo(from, to, links, f) ==
  /\ f[0] = {from}
  /\ \A n \in 1..NumPages :
       f[n] = f[n - 1] \cup {links[p] : p \in f[n - 1] \ {NoPage, to}}

LEMMA ReachedValues ==
  ASSUME NEW from \in Page \cup {NoPage}, NEW to,
         NEW links \in [Page -> Page \cup {NoPage}]
  PROVE  \E f : /\ ReachUpTo(from, to, links, f)
                /\ Reached(from, to, links) = f[NumPages] \ {NoPage}
  <1> DEFINE More(X) == X \cup {links[p] : p \in X \ {NoPage, to}}
             S == SUBSET (Page \cup {NoPage})
             Rec(f) == f = [n \in 0..NumPages |-> IF n = 0 THEN {from} ELSE More(f[n - 1])]
  <1>1. PICK g \in [0..NumPages -> S] :
          g[0] = {from} /\ \A n \in 1..NumPages : g[n] = More(g[n - 1])
    <2> DEFINE step == [n \in Nat |-> [X \in S |-> More(X)]]
    <2>1. step \in [Nat -> [S -> S]] /\ {from} \in S
      OBVIOUS
    <2>2. PICK g : Recursion(S, {from}, step, NumPages, g)
      <3> HIDE DEF step, S
      <3> QED
        BY <2>1, PagesCounted, PrimitiveRecursion
    <2>3. ASSUME NEW n \in 1..NumPages PROVE g[n] = More(g[n - 1])
      <3>1. n \in Nat /\ n - 1 \in 0..NumPages
        BY PagesCounted
      <3>2. g[n - 1] \in S
        BY <2>2, <3>1 DEF Recursion
      <3> HIDE DEF S, More
      <3> QED
        BY <2>2, <3>1, <3>2 DEF Recursion
    <2> HIDE DEF More
    <2> QED
      BY <2>2, <2>3 DEF Recursion
  <1>2. Rec(g)
    <2> HIDE DEF More, S
    <2>1. ASSUME NEW n \in 0..NumPages
          PROVE  g[n] = IF n = 0 THEN {from} ELSE More(g[n - 1])
      <3>1. n # 0 => n \in 1..NumPages
        BY PagesCounted
      <3> QED
        BY <1>1, <3>1
    <2> QED
      BY <1>1, <2>1
  <1> DEFINE reach == CHOOSE f : Rec(f)
  <1>3. Rec(reach)
    <2> HIDE DEF Rec
    <2> QED
      BY <1>2
  <1>4. Reached(from, to, links) = reach[NumPages] \ {NoPage}
    BY DEF Reached, NumPages
  <1>5. reach[0] = {from} /\ \A n \in 1..NumPages : reach[n] = More(reach[n - 1])
    <2> HIDE DEF reach, More
    <2>1. \A n \in 0..NumPages : reach[n] = IF n = 0 THEN {from} ELSE More(reach[n - 1])
      BY <1>3
    <2>2. 0 \in 0..NumPages /\ \A n \in 1..NumPages : n \in 0..NumPages /\ n # 0
      BY PagesCounted
    <2> QED
      BY <2>1, <2>2
  <1> HIDE DEF reach
  <1>6. ReachUpTo(from, to, links, reach)
    BY <1>5 DEF ReachUpTo
  <1> QED
    BY <1>4, <1>6

LEMMA ReachedPages ==
  ASSUME NEW from \in Page \cup {NoPage}, NEW to,
         NEW links \in [Page -> Page \cup {NoPage}]
  PROVE  /\ Reached(from, to, links) \subseteq Page
         /\ Cardinality(Reached(from, to, links)) \in Nat
  <1>1. PICK f : /\ ReachUpTo(from, to, links, f)
                 /\ Reached(from, to, links) = f[NumPages] \ {NoPage}
    BY ReachedValues
  <1> DEFINE T == {n \in Nat : n \in 0..NumPages => f[n] \subseteq Page \cup {NoPage}}
  <1>2. 0 \in T
    BY <1>1 DEF ReachUpTo
  <1>3. ASSUME NEW n \in T PROVE n + 1 \in T
    <2> SUFFICES ASSUME n + 1 \in 0..NumPages PROVE f[n + 1] \subseteq Page \cup {NoPage}
      OBVIOUS
    <2>1. n \in Nat /\ n \in 0..NumPages /\ n + 1 \in 1..NumPages /\ (n + 1) - 1 = n
      BY PagesCounted
    <2>2. f[n] \subseteq Page \cup {NoPage}
      BY <2>1
    <2>3. f[n + 1] = f[(n + 1) - 1] \cup {links[p] : p \in f[(n + 1) - 1] \ {NoPage, to}}
      BY <1>1, <2>1 DEF ReachUpTo
    <2> QED
      BY <2>1, <2>2, <2>3
  <1> HIDE DEF T
  <1>4. T = Nat
    <2>1. T \in SUBSET Nat
      BY DEF T
    <2> QED
      BY <1>2, <1>3, <2>1, SetInduction
  <1>5. NumPages \in 0..NumPages
    BY PagesCounted
  <1>6. Reached(from, to, links) \subseteq Page
    BY <1>1, <1>4, <1>5, PagesCounted DEF T
  <1> QED
    BY <1>6, FS_Subset, FS_CardinalityType, PagesCounted
-----------------------------------------------------------------------------
(* Logs as sequences of pages without repetitions.                         *)
LEMMA ChainSize ==
  ASSUME NEW s \in Seq(Page), IsInjective(s)
  PROVE  /\ Len(s) \in 0..NumPages /\ Len(s) \in Nat /\ DOMAIN s = 1..Len(s)
         /\ Cardinality(Range(s)) = Len(s)
         /\ Range(s) \subseteq Page
         /\ s \in [1..Len(s) -> Range(s)]
         /\ \A i, j \in 1..Len(s) : s[i] = s[j] => i = j
         /\ \A i \in 1..Len(s) : s[i] \in Page /\ s[i] # NoPage /\ s[i] \in Range(s)
  <1>1. /\ s \in Injection(1..Len(s), Page) /\ s \in Bijection(1..Len(s), Range(s))
    BY DEF IsInjective, Injection, Bijection, Surjection, Range
  <1>2. Cardinality(1..Len(s)) <= NumPages
    BY <1>1, FS_Injection, PagesCounted DEF NumPages
  <1>3. Cardinality(1..Len(s)) = Len(s) /\ Len(s) \in Nat
    BY FS_Interval
  <1>4. Cardinality(Range(s)) = Len(s)
    BY <1>1, <1>3, FS_CountingElements DEF ExistsBijection
  <1>5. Len(s) \in 0..NumPages
    BY <1>2, <1>3, PagesCounted
  <1>6. \A i, j \in 1..Len(s) : s[i] = s[j] => i = j
    BY DEF IsInjective
  <1>7. /\ DOMAIN s = 1..Len(s) /\ s \in [1..Len(s) -> Range(s)]
        /\ \A i \in 1..Len(s) : s[i] \in Page /\ s[i] # NoPage /\ s[i] \in Range(s)
    BY PagesCounted DEF Range
  <1>8. Range(s) \subseteq Page
    BY DEF Range
  <1> QED
    BY <1>3, <1>4, <1>5, <1>6, <1>7, <1>8

LEMMA ChainEnds ==
  ASSUME NEW s \in Seq(Page), NEW from, NEW to, NEW links, Chained(from, to, links, s)
  PROVE  /\ IsInjective(s)
         /\ from \in Page \cup {NoPage} /\ to \in Page \cup {NoPage}
         /\ from = NoPage <=> s = <<>>
         /\ to = NoPage <=> s = <<>>
         /\ s # <<>> => /\ 1 \in 1..Len(s) /\ Len(s) \in 1..Len(s)
                        /\ from = s[1] /\ to = s[Len(s)]
                        /\ from \in Range(s) /\ to \in Range(s)
         /\ \A i \in 1..Len(s) : s[i] # to => i + 1 \in 1..Len(s) /\ links[s[i]] = s[i + 1]
  <1>1. IsInjective(s)
    BY DEF Chained
  <1>2. /\ Len(s) \in Nat /\ \A i, j \in 1..Len(s) : s[i] = s[j] => i = j
        /\ \A i \in 1..Len(s) : s[i] \in Page /\ s[i] # NoPage /\ s[i] \in Range(s)
    BY <1>1, ChainSize
  <1>3. s # <<>> => 1 \in 1..Len(s) /\ Len(s) \in 1..Len(s) /\ from = s[1] /\ to = s[Len(s)]
    <2>1. s # <<>> => Len(s) # 0
      OBVIOUS
    <2>2. s # <<>> => from = s[1] /\ to = s[Len(s)]
      BY DEF Chained
    <2> QED
      BY <1>2, <2>1, <2>2
  <1>4. s = <<>> => from = NoPage /\ to = NoPage
    BY DEF Chained
  <1>5. ASSUME NEW i \in 1..Len(s), s[i] # to
        PROVE  i + 1 \in 1..Len(s) /\ links[s[i]] = s[i + 1]
    <2>1. i \in 1..(Len(s) - 1) /\ i + 1 \in 1..Len(s)
      <3>1. i # Len(s)
        BY <1>2, <1>3, <1>5
      <3> QED
        BY <1>2, <3>1
    <2> QED
      BY <2>1 DEF Chained
  <1> QED
    BY <1>1, <1>2, <1>3, <1>4, <1>5

(* What is reached along a chain is its pages.                             *)
LEMMA ReachedChain ==
  ASSUME NEW s \in Seq(Page), NEW from, NEW to,
         NEW links \in [Page -> Page \cup {NoPage}], Chained(from, to, links, s)
  PROVE  Reached(from, to, links) = Range(s)
  <1>1. PICK f : /\ ReachUpTo(from, to, links, f)
                 /\ Reached(from, to, links) = f[NumPages] \ {NoPage}
    <2>1. from \in Page \cup {NoPage}
      BY ChainEnds
    <2> QED
      BY <2>1, ReachedValues
  <1>2. /\ NumPages \in Nat /\ Len(s) \in 0..NumPages /\ Len(s) \in Nat
        /\ DOMAIN s = 1..Len(s)
        /\ \A i \in 1..Len(s) : s[i] # NoPage
        /\ \A i, j \in 1..Len(s) : s[i] = s[j] => i = j
    BY ChainSize, ChainEnds, PagesCounted
  <1> DEFINE First(k) == {s[i] : i \in {j \in 1..Len(s) : j <= k}}
             T == {k \in Nat : k \in 0..NumPages => f[k] \ {NoPage} = First(k + 1)}
  <1>3. 0 \in T
    <2>1. f[0] = {from}
      BY <1>1 DEF ReachUpTo
    <2>2. CASE s = <<>>
      <3>1. from = NoPage /\ Len(s) = 0
        BY <2>2, ChainEnds
      <3>2. First(0 + 1) = {}
        BY <3>1
      <3> QED
        BY <2>1, <3>1, <3>2
    <2>3. CASE s # <<>>
      <3>1. from = s[1] /\ 1 \in 1..Len(s)
        BY <2>3, ChainEnds
      <3>2. {j \in 1..Len(s) : j <= 0 + 1} = {1}
        BY <1>2, <3>1
      <3>3. First(0 + 1) = {s[1]}
        BY <3>2
      <3> QED
        BY <1>2, <2>1, <3>1, <3>3
    <2> QED
      BY <2>2, <2>3
  <1>4. ASSUME NEW k \in T PROVE k + 1 \in T
    <2> SUFFICES ASSUME k + 1 \in 0..NumPages
                 PROVE  f[k + 1] \ {NoPage} = First((k + 1) + 1)
      OBVIOUS
    <2>1. k \in Nat /\ k \in 0..NumPages /\ k + 1 \in 1..NumPages /\ (k + 1) - 1 = k
      BY <1>2
    <2>2. f[k] \ {NoPage} = First(k + 1)
      BY <2>1
    <2>3. f[k + 1] = f[k] \cup {links[p] : p \in f[k] \ {NoPage, to}}
      <3>1. f[k + 1] = f[(k + 1) - 1] \cup {links[p] : p \in f[(k + 1) - 1] \ {NoPage, to}}
        BY <1>1, <2>1 DEF ReachUpTo
      <3> QED
        BY <2>1, <3>1
    <2>4. ASSUME NEW x \in f[k + 1] \ {NoPage}
          PROVE  x \in First((k + 1) + 1)
      <3>1. CASE x \in f[k]
        BY <2>1, <2>2, <3>1
      <3>2. CASE x \notin f[k]
        <4>1. PICK p \in f[k] \ {NoPage, to} : x = links[p]
          BY <2>3, <2>4, <3>2
        <4>2. PICK j \in 1..Len(s) : j <= k + 1 /\ p = s[j]
          BY <2>2, <4>1
        <4>3. j + 1 \in 1..Len(s) /\ x = s[j + 1]
          BY <4>1, <4>2, ChainEnds
        <4>4. j + 1 <= (k + 1) + 1
          BY <2>1, <4>2
        <4> QED
          BY <4>3, <4>4
      <3> QED
        BY <3>1, <3>2
    <2>5. ASSUME NEW j \in 1..Len(s), j <= (k + 1) + 1
          PROVE  s[j] \in f[k + 1] \ {NoPage}
      <3>1. CASE j <= k + 1
        <4>1. s[j] \in First(k + 1)
          BY <3>1
        <4> QED
          BY <2>2, <2>3, <4>1
      <3>2. CASE ~(j <= k + 1)
        <4>1. j - 1 \in 1..Len(s) /\ j - 1 <= k + 1 /\ j - 1 # Len(s) /\ (j - 1) + 1 = j
          BY <1>2, <2>1, <2>5, <3>2
        <4>2. s[j - 1] \in First(k + 1)
          BY <4>1
        <4>3. s[j - 1] # to
          <5>1. s # <<>>
            BY <4>1
          <5>2. to = s[Len(s)] /\ Len(s) \in 1..Len(s)
            BY <5>1, ChainEnds
          <5> QED
            BY <1>2, <4>1, <5>2
        <4>4. links[s[j - 1]] = s[(j - 1) + 1]
          BY <4>1, <4>3, ChainEnds
        <4> HIDE DEF First
        <4>5. s[j - 1] \in f[k] \ {NoPage, to}
          BY <2>2, <4>2, <4>3
        <4> QED
          BY <1>2, <2>3, <4>1, <4>4, <4>5
      <3> QED
        BY <3>1, <3>2
    <2> QED
      BY <2>4, <2>5
  <1>5. T = Nat
    <2>1. T \in SUBSET Nat
      OBVIOUS
    <2> HIDE DEF T
    <2> QED
      BY <1>3, <1>4, <2>1, SetInduction
  <1>6. f[NumPages] \ {NoPage} = First(NumPages + 1)
    <2>1. NumPages \in T /\ NumPages \in 0..NumPages
      BY <1>2, <1>5
    <2> QED
      BY <2>1
  <1>7. First(NumPages + 1) = Range(s)
    <2>1. {j \in 1..Len(s) : j <= NumPages + 1} = 1..Len(s)
      BY <1>2
    <2> QED
      BY <1>2, <2>1 DEF Range
  <1> QED
    BY <1>1, <1>6, <1>7
LEMMA SameChain ==
  ASSUME NEW s \in Seq(Page), NEW from, NEW to, NEW links, NEW new,
         Chained(from, to, links, s),
         \A p \in Range(s) : p # to => new[p] = links[p]
  PROVE  Chained(from, to, new, s)
  <1>1. ASSUME NEW i \in 1..(Len(s) - 1) PROVE new[s[i]] = s[i + 1]
    <2>1. i \in 1..Len(s) /\ i # Len(s) /\ Len(s) \in 1..Len(s) /\ s # <<>>
      <3>1. Len(s) \in Nat
        OBVIOUS
      <3> QED
        BY <3>1
    <2>2. s[i] # to /\ s[i] \in Range(s)
      BY <2>1, ChainEnds, ChainSize
    <2>3. links[s[i]] = s[i + 1]
      BY DEF Chained
    <2> QED
      BY <2>2, <2>3
  <1> QED
    BY <1>1 DEF Chained

(* A page that get_log_entry puts behind the tail.                         *)
LEMMA AppendChain ==
  ASSUME NEW s \in Seq(Page), s # <<>>, NEW from, NEW to, NEW links, NEW new,
         Chained(from, to, links, s),
         NEW p \in Page, p \notin Range(s), new[to] = p,
         \A q \in Range(s) : q # to => new[q] = links[q]
  PROVE  /\ Append(s, p) \in Seq(Page)
         /\ Chained(from, p, new, Append(s, p))
         /\ Range(Append(s, p)) = Range(s) \cup {p}
         /\ Len(Append(s, p)) = Len(s) + 1
         /\ \A i \in 1..Len(s) : Append(s, p)[i] = s[i]
  <1> DEFINE r == Append(s, p)
  <1>1. /\ Len(s) \in Nat /\ DOMAIN s = 1..Len(s)
        /\ 1 \in 1..Len(s) /\ Len(s) \in 1..Len(s) /\ to = s[Len(s)] /\ from = s[1]
        /\ \A i, j \in 1..Len(s) : s[i] = s[j] => i = j
        /\ \A i \in 1..Len(s) : s[i] \in Range(s)
    BY ChainSize, ChainEnds
  <1>2. /\ r \in Seq(Page) /\ Len(r) = Len(s) + 1 /\ DOMAIN r = 1..(Len(s) + 1)
        /\ \A i \in 1..Len(s) : r[i] = s[i]
        /\ r[Len(s) + 1] = p
    BY <1>1
  <1> HIDE DEF r
  <1>3. \A i \in 1..Len(r) : i \in 1..Len(s) \/ i = Len(s) + 1
    BY <1>1, <1>2
  <1>4. IsInjective(r)
    BY <1>1, <1>2, <1>3 DEF IsInjective
  <1>5. Range(r) = Range(s) \cup {p}
    <2>1. Range(r) \subseteq Range(s) \cup {p}
      BY <1>1, <1>2, <1>3 DEF Range
    <2>2. ASSUME NEW i \in 1..Len(s) PROVE s[i] \in Range(r)
      <3>1. i \in DOMAIN r
        BY <1>1, <1>2
      <3> QED
        BY <1>2, <3>1 DEF Range
    <2>3. p \in Range(r)
      <3>1. Len(s) + 1 \in DOMAIN r
        BY <1>1, <1>2
      <3> QED
        BY <1>2, <3>1 DEF Range
    <2> QED
      BY <1>1, <2>1, <2>2, <2>3 DEF Range
  <1>6. ASSUME NEW i \in 1..(Len(r) - 1) PROVE new[r[i]] = r[i + 1]
    <2>1. i \in 1..Len(s)
      BY <1>1, <1>2
    <2>2. CASE i = Len(s)
      BY <1>1, <1>2, <2>1, <2>2
    <2>3. CASE i # Len(s)
      <3>1. i + 1 \in 1..Len(s) /\ s[i] # to
        <4>1. Len(s) \in Nat
          BY <1>1
        <4>2. i + 1 \in 1..Len(s)
          BY <2>1, <2>3, <4>1
        <4> QED
          BY <1>1, <2>1, <2>3, <4>2
      <3>2. links[s[i]] = s[i + 1]
        BY <2>1, <3>1, ChainEnds
      <3> QED
        BY <1>1, <1>2, <2>1, <3>1, <3>2
    <2> QED
      BY <2>2, <2>3
  <1>7. r # <<>> /\ r[1] = from /\ r[Len(r)] = p
    BY <1>1, <1>2
  <1>8. Chained(from, p, new, r)
    BY <1>4, <1>6, <1>7 DEF Chained
  <1> QED
    BY <1>2, <1>5, <1>8 DEF r

(* The page that start_gc_task takes out.                                  *)
Drops(s, k, from, to, links, first, new) ==
  /\ s \in Seq(Page) /\ Chained(from, to, links, s)
  /\ k \in 1..Len(s) /\ s[k] # to
  /\ first = IF k = 1 THEN links[s[k]] ELSE from
  /\ k # 1 => new[s[k - 1]] = links[s[k]]
  /\ \A q \in Range(s) : q # s[k] /\ (k # 1 => q # s[k - 1]) => new[q] = links[q]

Without(s, k, r) ==
  /\ Range(r) = Range(s) \ {s[k]}
  /\ Len(r) = Len(s) - 1
  /\ \A i \in 1..Len(r) : r[i] = IF i < k THEN s[i] ELSE s[i + 1]

LEMMA DropFromChain ==
  ASSUME NEW s, NEW k, NEW from, NEW to, NEW links, NEW first, NEW new,
         Drops(s, k, from, to, links, first, new)
  PROVE  \E r \in Seq(Page) : Chained(first, to, new, r) /\ Without(s, k, r)
  <1>0. /\ s \in Seq(Page) /\ Chained(from, to, links, s)
        /\ k \in 1..Len(s) /\ s[k] # to
        /\ first = IF k = 1 THEN links[s[k]] ELSE from
        /\ k # 1 => new[s[k - 1]] = links[s[k]]
        /\ \A q \in Range(s) : q # s[k] /\ (k # 1 => q # s[k - 1]) => new[q] = links[q]
    BY DEF Drops
  <1> USE <1>0
  <1> DEFINE r == [i \in 1..(Len(s) - 1) |-> IF i < k THEN s[i] ELSE s[i + 1]]
  <1>1. /\ Len(s) \in Nat /\ k \in Nat /\ DOMAIN s = 1..Len(s)
        /\ \A i, j \in 1..Len(s) : s[i] = s[j] => i = j
        /\ \A i \in 1..Len(s) : s[i] \in Range(s) /\ s[i] \in Page
    BY ChainSize, ChainEnds
  <1>2. /\ k < Len(s) /\ k + 1 \in 1..Len(s) /\ links[s[k]] = s[k + 1]
        /\ from = s[1] /\ to = s[Len(s)] /\ 1 \in 1..Len(s) /\ Len(s) \in 1..Len(s)
    <2>1. s # <<>>
      BY <1>1
    <2>2. k + 1 \in 1..Len(s) /\ links[s[k]] = s[k + 1]
      BY ChainEnds
    <2>3. k < Len(s)
      BY <1>1, <2>2
    <2> QED
      BY <2>1, <2>2, <2>3, ChainEnds
  <1>3. \A i \in 1..(Len(s) - 1) : i \in 1..Len(s) /\ i + 1 \in 1..Len(s)
    BY <1>1
  <1>4. /\ r \in Seq(Page) /\ Len(r) = Len(s) - 1 /\ DOMAIN r = 1..(Len(s) - 1)
        /\ \A i \in 1..(Len(s) - 1) : r[i] = IF i < k THEN s[i] ELSE s[i + 1]
    <2>1. \A i \in 1..(Len(s) - 1) : s[i] \in Page /\ s[i + 1] \in Page
      BY <1>1, <1>3
    <2>2. Len(s) - 1 \in Nat
      BY <1>1, <1>2
    <2> QED
      BY <2>1, <2>2
  <1> HIDE DEF r
  <1>5. IsInjective(r)
    <2> SUFFICES ASSUME NEW i \in 1..(Len(s) - 1), NEW j \in 1..(Len(s) - 1), r[i] = r[j]
                 PROVE  i = j
      BY <1>4 DEF IsInjective
    <2> DEFINE a == IF i < k THEN i ELSE i + 1
               b == IF j < k THEN j ELSE j + 1
    <2>1. a \in 1..Len(s) /\ b \in 1..Len(s) /\ r[i] = s[a] /\ r[j] = s[b]
      BY <1>3, <1>4
    <2>2. a = b
      <3> HIDE DEF a, b
      <3>1. s[a] = s[b]
        BY <2>1
      <3>2. \A x, y \in 1..Len(s) : s[x] = s[y] => x = y
        BY <1>1
      <3> HIDE <1>0
      <3> QED
        BY <2>1, <3>1, <3>2
    <2>3. i \in Nat /\ j \in Nat
      OBVIOUS
    <2> QED
      BY <1>1, <2>2, <2>3
  <1>6. Range(r) = Range(s) \ {s[k]}
    <2>1. ASSUME NEW i \in 1..(Len(s) - 1) PROVE r[i] \in Range(s) \ {s[k]}
      <3> DEFINE a == IF i < k THEN i ELSE i + 1
      <3>1. a \in 1..Len(s) /\ r[i] = s[a]
        BY <1>3, <1>4
      <3>2. a # k
        BY <1>1
      <3> HIDE DEF a
      <3> QED
        BY <1>1, <3>1, <3>2
    <2>2. ASSUME NEW j \in 1..Len(s), j # k PROVE s[j] \in Range(r)
      <3>1. CASE j < k
        <4>1. j \in 1..(Len(s) - 1)
          BY <1>1, <1>2, <3>1
        <4>2. r[j] = s[j]
          BY <1>4, <3>1, <4>1
        <4> QED
          BY <1>4, <4>1, <4>2 DEF Range
      <3>2. CASE ~(j < k)
        <4>1. j - 1 \in 1..(Len(s) - 1) /\ ~(j - 1 < k) /\ (j - 1) + 1 = j
          BY <1>1, <1>2, <2>2, <3>2
        <4>2. r[j - 1] = s[j]
          BY <1>4, <4>1
        <4> QED
          BY <1>4, <4>1, <4>2 DEF Range
      <3> QED
        BY <3>1, <3>2
    <2>3. Range(r) \subseteq Range(s) \ {s[k]}
      BY <1>4, <2>1 DEF Range
    <2>4. Range(s) \ {s[k]} \subseteq Range(r)
      BY <1>1, <2>2 DEF Range
    <2> QED
      BY <2>3, <2>4
  <1>7. ASSUME NEW i \in 1..(Len(r) - 1) PROVE new[r[i]] = r[i + 1]
    <2>1. /\ i \in 1..(Len(s) - 1) /\ i + 1 \in 1..(Len(s) - 1)
          /\ i \in 1..Len(s) /\ i + 1 \in 1..Len(s) /\ (i + 1) + 1 \in 1..Len(s)
      <3>1. Len(s) \in Nat /\ Len(r) = Len(s) - 1
        BY <1>1, <1>4
      <3> QED
        BY <3>1
    <2>2. CASE i + 1 < k
      <3>1. i < k /\ i # k /\ i # k - 1 /\ k - 1 \in 1..Len(s) /\ i # Len(s)
        <4>1. Len(s) \in Nat /\ k \in 1..Len(s)
          BY <1>1
        <4> QED
          BY <2>1, <2>2, <4>1
      <3>2. r[i] = s[i] /\ r[i + 1] = s[i + 1]
        BY <1>4, <2>1, <2>2, <3>1
      <3>3. s[i] # s[k] /\ s[i] # s[k - 1] /\ s[i] # to /\ s[i] \in Range(s)
        BY <1>1, <1>2, <2>1, <3>1
      <3>4. links[s[i]] = s[i + 1]
        BY <2>1, <3>3, ChainEnds
      <3> QED
        BY <3>2, <3>3, <3>4
    <2>3. CASE i + 1 = k
      <3>1. i < k /\ ~(i + 1 < k) /\ i = k - 1 /\ k # 1
        BY <1>1, <2>1, <2>3
      <3>2. r[i] = s[k - 1] /\ r[i + 1] = s[k + 1]
        BY <1>4, <2>1, <2>3, <3>1
      <3> QED
        BY <1>2, <3>1, <3>2
    <2>4. CASE i + 1 > k
      <3>1. ~(i < k) /\ ~(i + 1 < k) /\ i + 1 # k /\ (k # 1 => k - 1 \in 1..Len(s) /\ i + 1 # k - 1)
            /\ i + 1 # Len(s)
        <4>1. Len(s) \in Nat /\ Len(r) = Len(s) - 1 /\ k \in 1..Len(s)
          BY <1>1, <1>4
        <4> QED
          BY <2>1, <2>4, <4>1
      <3>2. r[i] = s[i + 1] /\ r[i + 1] = s[(i + 1) + 1]
        BY <1>4, <2>1, <3>1
      <3>3. s[i + 1] # s[k] /\ (k # 1 => s[i + 1] # s[k - 1]) /\ s[i + 1] # to /\ s[i + 1] \in Range(s)
        BY <1>1, <1>2, <2>1, <3>1
      <3>4. links[s[i + 1]] = s[(i + 1) + 1]
        BY <2>1, <3>3, ChainEnds
      <3> QED
        BY <3>2, <3>3, <3>4
    <2> QED
      BY <1>1, <2>1, <2>2, <2>3, <2>4
  <1>8. r # <<>> /\ first = r[1] /\ to = r[Len(r)]
    <2>1. /\ 1 \in 1..(Len(s) - 1) /\ Len(r) \in 1..(Len(s) - 1) /\ Len(r) + 1 = Len(s)
          /\ 1 + 1 = 2
      BY <1>1, <1>2, <1>4
    <2>2. ~(Len(r) < k)
      BY <1>1, <1>2, <1>4
    <2>3. to = r[Len(r)]
      BY <1>2, <1>4, <2>1, <2>2
    <2>4. first = r[1]
      <3>1. CASE k = 1
        BY <1>2, <1>4, <2>1, <3>1
      <3>2. CASE k # 1
        <4>1. 1 < k
          BY <1>1, <3>2
        <4> QED
          BY <1>2, <1>4, <2>1, <3>2, <4>1
      <3> QED
        BY <3>1, <3>2
    <2>5. r # <<>>
      BY <1>4, <2>1
    <2> QED
      BY <2>3, <2>4, <2>5
  <1>9. Chained(first, to, new, r)
    BY <1>5, <1>7, <1>8 DEF Chained
  <1>10. Without(s, k, r)
    BY <1>4, <1>6 DEF Without
  <1> QED
    BY <1>4, <1>9, <1>10
-----------------------------------------------------------------------------
(* FlattenSeq: its first n sequences make flat, where element r comes from *)
(* sequence at[r], position pos[r].                                        *)
Gathers(seqs, n, flat, at, pos) ==
  /\ at \in [1..Len(flat) -> 1..n] /\ pos \in [1..Len(flat) -> Nat]
  /\ \A r \in 1..Len(flat) : pos[r] \in 1..Len(seqs[at[r]]) /\ flat[r] = seqs[at[r]][pos[r]]
  /\ \A r, t \in 1..Len(flat) : at[r] = at[t] /\ pos[r] = pos[t] => r = t
  /\ \A i \in 1..n : \A j \in 1..Len(seqs[i]) :
       \E r \in 1..Len(flat) : at[r] = i /\ pos[r] = j

LEMMA GathersFirst ==
  ASSUME NEW S, NEW seqs \in Seq(Seq(S)), 1 \in 1..Len(seqs)
  PROVE  \E at, pos : Gathers(seqs, 1, seqs[1], at, pos)
  <1> DEFINE flat == seqs[1]
             at == [r \in 1..Len(flat) |-> 1]
             pos == [r \in 1..Len(flat) |-> r]
  <1>1. flat \in Seq(S) /\ Len(flat) \in Nat
    OBVIOUS
  <1>2. at \in [1..Len(flat) -> 1..1] /\ pos \in [1..Len(flat) -> Nat]
    BY <1>1
  <1>3. \A r \in 1..Len(flat) : at[r] = 1 /\ pos[r] = r
    OBVIOUS
  <1>4. \A i \in 1..1 : i = 1
    OBVIOUS
  <1> HIDE DEF flat, at, pos
  <1>5. flat = seqs[1]
    BY DEF flat
  <1>6. Gathers(seqs, 1, flat, at, pos)
    BY <1>2, <1>3, <1>4, <1>5 DEF Gathers
  <1> QED
    BY <1>5, <1>6

LEMMA GathersNext ==
  ASSUME NEW S, NEW seqs \in Seq(Seq(S)), NEW n \in Nat, n \in 1..Len(seqs), n + 1 \in 1..Len(seqs),
         NEW flat \in Seq(S), NEW at, NEW pos, Gathers(seqs, n, flat, at, pos)
  PROVE  \E bt, qos : Gathers(seqs, n + 1, flat \o seqs[n + 1], bt, qos)
  <1> DEFINE more == seqs[n + 1]
             long == flat \o more
             bt == [r \in 1..Len(long) |-> IF r <= Len(flat) THEN at[r] ELSE n + 1]
             qos == [r \in 1..Len(long) |-> IF r <= Len(flat) THEN pos[r] ELSE r - Len(flat)]
  <1>1. more \in Seq(S) /\ Len(more) \in Nat /\ Len(flat) \in Nat
    OBVIOUS
  <1>2. /\ long \in Seq(S) /\ Len(long) = Len(flat) + Len(more)
        /\ \A r \in 1..Len(flat) : long[r] = flat[r]
        /\ \A r \in 1..Len(more) : long[r + Len(flat)] = more[r]
    BY <1>1
  <1> HIDE DEF more, long
  <1>3. /\ \A r \in 1..Len(flat) : r \in 1..Len(long) /\ bt[r] = at[r] /\ qos[r] = pos[r]
        /\ \A r \in 1..Len(more) : /\ r + Len(flat) \in 1..Len(long)
                                   /\ bt[r + Len(flat)] = n + 1 /\ qos[r + Len(flat)] = r
    <2>1. PICK a, b : a = Len(flat) /\ b = Len(more)
      OBVIOUS
    <2>2. a \in Nat /\ b \in Nat /\ Len(long) = a + b
      BY <1>1, <1>2, <2>1
    <2>3. ASSUME NEW r \in 1..a
          PROVE  r \in 1..Len(long) /\ bt[r] = at[r] /\ qos[r] = pos[r]
      <3>1. r \in 1..Len(long) /\ r <= a
        BY <2>2
      <3> QED
        BY <2>1, <3>1
    <2>4. ASSUME NEW r \in 1..b
          PROVE  /\ r + a \in 1..Len(long)
                 /\ bt[r + a] = n + 1 /\ qos[r + a] = r
      <3>1. r + a \in 1..Len(long) /\ ~(r + a <= a) /\ (r + a) - a = r
        BY <2>2
      <3> QED
        BY <2>1, <3>1
    <2> HIDE DEF bt, qos
    <2> QED
      BY <2>1, <2>3, <2>4
  <1>4. \A r \in 1..Len(long) : \/ r \in 1..Len(flat)
                                \/ r - Len(flat) \in 1..Len(more) /\ (r - Len(flat)) + Len(flat) = r
    BY <1>1, <1>2
  <1>5. /\ \A r \in 1..Len(flat) : at[r] \in 1..n /\ pos[r] \in Nat
        /\ \A i \in 1..n : i \in 1..(n + 1) /\ i # n + 1
        /\ n + 1 \in 1..(n + 1)
        /\ \A i \in 1..(n + 1) : i \in 1..n \/ i = n + 1
    <2>1. \A r \in 1..Len(flat) : at[r] \in 1..n /\ pos[r] \in Nat
      BY DEF Gathers
    <2>2. /\ \A i \in 1..n : i \in 1..(n + 1) /\ i # n + 1
          /\ n + 1 \in 1..(n + 1)
          /\ \A i \in 1..(n + 1) : i \in 1..n \/ i = n + 1
      OBVIOUS
    <2> QED
      BY <2>1, <2>2
  <1>6. /\ DOMAIN bt = 1..Len(long) /\ DOMAIN qos = 1..Len(long)
        /\ bt = [r \in 1..Len(long) |-> bt[r]] /\ qos = [r \in 1..Len(long) |-> qos[r]]
    OBVIOUS
  <1> HIDE DEF bt, qos
  <1>7. ASSUME NEW r \in 1..Len(long)
        PROVE  \/ r \in 1..Len(flat) /\ bt[r] = at[r] /\ qos[r] = pos[r] /\ long[r] = flat[r] /\ bt[r] # n + 1
               \/ /\ r - Len(flat) \in 1..Len(more) /\ bt[r] = n + 1
                  /\ qos[r] = r - Len(flat) /\ long[r] = more[r - Len(flat)]
    <2>1. CASE r \in 1..Len(flat)
      BY <1>2, <1>3, <1>5, <2>1
    <2>2. CASE r - Len(flat) \in 1..Len(more) /\ (r - Len(flat)) + Len(flat) = r
      <3> DEFINE m == r - Len(flat)
      <3>1. m \in 1..Len(more) /\ m + Len(flat) = r
        BY <2>2
      <3> HIDE DEF m
      <3>2. bt[r] = n + 1 /\ qos[r] = m /\ long[r] = more[m]
        BY <1>2, <1>3, <3>1
      <3> QED
        BY <3>1, <3>2 DEF m
    <2> QED
      BY <1>4, <2>1, <2>2
  <1>8. bt \in [1..Len(long) -> 1..(n + 1)] /\ qos \in [1..Len(long) -> Nat]
    <2>1. ASSUME NEW r \in 1..Len(long) PROVE bt[r] \in 1..(n + 1) /\ qos[r] \in Nat
      <3>1. CASE r \in 1..Len(flat) /\ bt[r] = at[r] /\ qos[r] = pos[r]
        BY <1>5, <3>1
      <3>2. CASE r - Len(flat) \in 1..Len(more) /\ bt[r] = n + 1 /\ qos[r] = r - Len(flat)
        BY <1>1, <1>5, <3>2
      <3> QED
        BY <1>7, <3>1, <3>2
    <2> QED
      BY <1>6, <2>1
  <1>9. ASSUME NEW r \in 1..Len(long)
        PROVE  qos[r] \in 1..Len(seqs[bt[r]]) /\ long[r] = seqs[bt[r]][qos[r]]
    <2>1. CASE r \in 1..Len(flat) /\ bt[r] = at[r] /\ qos[r] = pos[r] /\ long[r] = flat[r]
      BY <2>1 DEF Gathers
    <2>2. CASE r - Len(flat) \in 1..Len(more) /\ bt[r] = n + 1 /\ qos[r] = r - Len(flat)
               /\ long[r] = more[r - Len(flat)]
      BY <2>2 DEF more
    <2> QED
      BY <1>7, <2>1, <2>2
  <1>10. ASSUME NEW r \in 1..Len(long), NEW t \in 1..Len(long), bt[r] = bt[t], qos[r] = qos[t]
         PROVE  r = t
    <2>1. CASE bt[r] = n + 1
      <3>1. r - Len(flat) = t - Len(flat)
        BY <1>7, <1>10, <2>1
      <3>2. r \in Int /\ t \in Int
        OBVIOUS
      <3> QED
        BY <1>1, <3>1, <3>2
    <2>2. CASE bt[r] # n + 1
      <3>1. r \in 1..Len(flat) /\ t \in 1..Len(flat) /\ at[r] = at[t] /\ pos[r] = pos[t]
        BY <1>7, <1>10, <2>2
      <3> QED
        BY <3>1 DEF Gathers
    <2> QED
      BY <2>1, <2>2
  <1>11. ASSUME NEW i \in 1..(n + 1), NEW j \in 1..Len(seqs[i])
         PROVE  \E r \in 1..Len(long) : bt[r] = i /\ qos[r] = j
    <2>1. CASE i \in 1..n
      <3>1. PICK r \in 1..Len(flat) : at[r] = i /\ pos[r] = j
        BY <2>1 DEF Gathers
      <3> QED
        BY <1>3, <3>1
    <2>2. CASE i = n + 1
      <3>1. j \in 1..Len(more)
        BY <2>2 DEF more
      <3> QED
        BY <1>3, <2>2, <3>1
    <2> QED
      BY <1>5, <2>1, <2>2
  <1>12. Gathers(seqs, n + 1, long, bt, qos)
    BY <1>8, <1>9, <1>10, <1>11 DEF Gathers
  <1> QED
    BY <1>12 DEF long, more

LEMMA Flattened ==
  ASSUME NEW S, NEW seqs \in Seq(Seq(S))
  PROVE  /\ FlattenSeq(seqs) \in Seq(S)
         /\ \E at, pos : Gathers(seqs, Len(seqs), FlattenSeq(seqs), at, pos)
  <1>1. Len(seqs) \in Nat /\ DOMAIN seqs = 1..Len(seqs) /\ \A i \in 1..Len(seqs) : seqs[i] \in Seq(S)
    OBVIOUS
  <1>2. CASE Len(seqs) = 0
    <2>1. FlattenSeq(seqs) = seqs /\ seqs = <<>>
      BY <1>1, <1>2 DEF FlattenSeq
    <2>2. <<>> \in Seq(S) /\ Len(<<>>) = 0
      OBVIOUS
    <2>3. 1..0 = {}
      OBVIOUS
    <2>4. Gathers(seqs, 0, <<>>, <<>>, <<>>)
      BY <2>2, <2>3 DEF Gathers
    <2> QED
      BY <1>2, <2>1, <2>2, <2>4
  <1>3. CASE Len(seqs) # 0
    <2> DEFINE N == Len(seqs)
               Rec(f) == f = [i \in 1..N |-> IF i = 1 THEN seqs[i] ELSE f[i - 1] \o seqs[i]]
    <2>1. N \in Nat /\ N - 1 \in Nat /\ 1 \in 1..N /\ N \in 1..N
      BY <1>1, <1>3
    <2> DEFINE step == [n \in Nat |-> [x \in Seq(S) |-> IF n + 1 \in 1..N THEN x \o seqs[n + 1] ELSE x]]
    <2>2. step \in [Nat -> [Seq(S) -> Seq(S)]] /\ seqs[1] \in Seq(S)
      <3>1. ASSUME NEW n \in Nat, NEW x \in Seq(S)
            PROVE  (IF n + 1 \in 1..N THEN x \o seqs[n + 1] ELSE x) \in Seq(S)
        BY <1>1
      <3> QED
        BY <1>1, <2>1, <3>1
    <2>3. PICK h : Recursion(Seq(S), seqs[1], step, N - 1, h)
      <3> HIDE DEF step, N
      <3> QED
        BY <2>1, <2>2, PrimitiveRecursion
    <2>4. /\ \A n \in 0..(N - 1) : h[n] \in Seq(S)
          /\ h[0] = seqs[1]
          /\ \A n \in 1..(N - 1) : h[n] = h[n - 1] \o seqs[n + 1]
      <3>1. (\A n \in 0..(N - 1) : h[n] \in Seq(S)) /\ h[0] = seqs[1]
        BY <2>3 DEF Recursion
      <3>2. ASSUME NEW n \in 1..(N - 1) PROVE h[n] = h[n - 1] \o seqs[n + 1]
        <4>1. n \in Nat /\ n + 1 \in 1..N /\ n - 1 \in 0..(N - 1)
          BY <2>1
        <4>2. h[n - 1] \in Seq(S)
          BY <3>1, <4>1
        <4>3. h[n] = step[n][h[n - 1]]
          BY <2>3 DEF Recursion
        <4> QED
          BY <4>1, <4>2, <4>3
      <3> QED
        BY <3>1, <3>2
    <2> DEFINE g == [i \in 1..N |-> h[i - 1]]
    <2> HIDE DEF step
    <2>5. Rec(g)
      <3>1. ASSUME NEW i \in 1..N
            PROVE  h[i - 1] = IF i = 1 THEN seqs[i] ELSE g[i - 1] \o seqs[i]
        <4>1. CASE i = 1
          BY <2>4, <4>1
        <4>2. CASE i # 1
          <5>1. i - 1 \in 1..(N - 1) /\ i - 1 \in 1..N /\ (i - 1) + 1 = i
            BY <2>1, <4>2
          <5>2. h[i - 1] = h[(i - 1) - 1] \o seqs[(i - 1) + 1]
            BY <2>4, <5>1
          <5>3. g[i - 1] = h[(i - 1) - 1]
            BY <5>1
          <5> QED
            BY <4>2, <5>1, <5>2, <5>3
        <4> QED
          BY <4>1, <4>2
      <3> QED
        BY <3>1
    <2> DEFINE flat == CHOOSE f : Rec(f)
    <2>6. Rec(flat)
      <3> HIDE DEF Rec
      <3> QED
        BY <2>5
    <2>7. FlattenSeq(seqs) = flat[N]
      BY <1>3 DEF FlattenSeq
    <2>8. /\ flat[1] = seqs[1]
          /\ \A i \in 1..N : i + 1 \in 1..N => flat[i + 1] = flat[i] \o seqs[i + 1]
      <3> HIDE DEF flat
      <3>1. \A i \in 1..N : flat[i] = IF i = 1 THEN seqs[i] ELSE flat[i - 1] \o seqs[i]
        BY <2>6
      <3>2. ASSUME NEW i \in 1..N, i + 1 \in 1..N PROVE flat[i + 1] = flat[i] \o seqs[i + 1]
        <4>1. i + 1 # 1 /\ (i + 1) - 1 = i
          BY <2>1
        <4>2. flat[i + 1] = flat[(i + 1) - 1] \o seqs[i + 1]
          BY <3>1, <3>2, <4>1
        <4> QED
          BY <4>1, <4>2
      <3> QED
        BY <2>1, <3>1, <3>2
    <2> HIDE DEF flat, Rec
    <2> DEFINE Good(n) == flat[n] \in Seq(S) /\ \E at, pos : Gathers(seqs, n, flat[n], at, pos)
               T == {n \in Nat : n + 1 \in 1..N => Good(n + 1)}
    <2>9. 0 \in T
      <3>1. Good(1)
        <4>1. \E at, pos : Gathers(seqs, 1, seqs[1], at, pos)
          BY <2>1, GathersFirst
        <4> QED
          BY <2>2, <2>8, <4>1
      <3> HIDE DEF Good
      <3> QED
        BY <3>1
    <2>10. ASSUME NEW n \in T PROVE n + 1 \in T
      <3>1. n \in Nat /\ (n + 1 \in 1..N => Good(n + 1))
        BY DEF T
      <3> SUFFICES ASSUME (n + 1) + 1 \in 1..N PROVE Good((n + 1) + 1)
        BY <3>1
      <3> DEFINE m == n + 1
      <3>2. m \in Nat /\ m \in 1..N /\ m + 1 \in 1..N
        BY <2>1, <3>1
      <3>3. Good(m)
        BY <3>1, <3>2
      <3> HIDE DEF m
      <3>4. flat[m + 1] = flat[m] \o seqs[m + 1]
        BY <2>8, <3>2
      <3>5. flat[m] \in Seq(S) /\ seqs[m + 1] \in Seq(S)
        BY <1>1, <3>2, <3>3
      <3>6. PICK at, pos : Gathers(seqs, m, flat[m], at, pos)
        BY <3>3
      <3>7. \E bt, qos : Gathers(seqs, m + 1, flat[m] \o seqs[m + 1], bt, qos)
        BY <3>2, <3>5, <3>6, GathersNext
      <3>8. Good(m + 1)
        BY <3>4, <3>5, <3>7
      <3> QED
        BY <3>8 DEF m
    <2>11. T = Nat
      <3>1. T \in SUBSET Nat
        BY DEF T
      <3> HIDE DEF T
      <3> QED
        BY <2>9, <2>10, <3>1, SetInduction
    <2>12. Good(N)
      <3>1. N - 1 \in T /\ (N - 1) + 1 = N
        <4> HIDE DEF N, T
        <4> QED
          BY <2>1, <2>11
      <3> HIDE DEF Good, N
      <3> QED
        BY <2>1, <3>1 DEF T
    <2> QED
      BY <2>7, <2>12
  <1> QED
    BY <1>2, <1>3
-----------------------------------------------------------------------------
(* The runs of valid pages of an entry.                                    *)
LEMMA EntryType ==
  ASSUME NEW e \in LogEntry
  PROVE  /\ e.data \in Seq(Page) /\ Len(e.data) \in Nat /\ DOMAIN e.data = 1..Len(e.data)
         /\ e.first \in Nat /\ e.bitmap \subseteq 0..63 /\ e.invalid \in Nat
         /\ e.first + Len(e.data) <= NumFilePages /\ Len(e.data) <= MaxPerEntry
         /\ \A k \in 1..Len(e.data) : e.data[k] \in Page
         /\ e = [data |-> e.data, first |-> e.first, bitmap |-> e.bitmap, invalid |-> e.invalid]
  BY DEF LogEntry, FilePage

LEMMA EntryMade ==
  ASSUME NEW d \in Seq(Page), NEW i \in Nat, NEW b \in SUBSET (0..63), NEW n \in Nat,
         i < NumFilePages, i + Len(d) <= NumFilePages, Len(d) <= MaxPerEntry
  PROVE  [data |-> d, first |-> i, bitmap |-> b, invalid |-> n] \in LogEntry
  <1> i \in FilePage
    BY PagesCounted DEF FilePage
  <1> QED
    BY DEF LogEntry

LEMMA RunEnds ==
  ASSUME NEW e \in LogEntry, NEW k \in 0..(Len(e.data) - 1)
  PROVE  /\ RunEnd(e, k) \in (k + 1)..Len(e.data)
         /\ RunEnd(e, k) = Len(e.data) \/ ~Valid(e, RunEnd(e, k))
         /\ \A m \in (k + 1)..(RunEnd(e, k) - 1) : Valid(e, m)
  <1> DEFINE n == Len(e.data)
             Ends(j) == /\ j = n \/ ~Valid(e, j)
                        /\ \A m \in (k + 1)..(j - 1) : Valid(e, m)
             T == {j \in (k + 1)..n : j = n \/ ~Valid(e, j)}
  <1>1. n \in Nat /\ k \in Nat /\ k < n
    BY EntryType
  <1>2. n \in T /\ T \in SUBSET Nat
    BY <1>1
  <1>3. PICK x \in T : \A y \in T : x <= y
    <2> HIDE DEF T
    <2> QED
      BY <1>2, SmallestIn
  <1>4. x \in (k + 1)..n /\ Ends(x)
    <2>1. ASSUME NEW m \in (k + 1)..(x - 1), ~Valid(e, m) PROVE FALSE
      <3>1. m \in T /\ m < x
        BY <1>1, <2>1
      <3> QED
        BY <1>1, <1>3, <3>1
    <2> QED
      BY <2>1
  <1>5. RunEnd(e, k) = CHOOSE j \in (k + 1)..n : Ends(j)
    BY DEF RunEnd
  <1>6. RunEnd(e, k) \in (k + 1)..n /\ Ends(RunEnd(e, k))
    <2> HIDE DEF Ends, n
    <2> QED
      BY <1>4, <1>5
  <1> QED
    BY <1>6

LEMMA RunIs ==
  ASSUME NEW e \in LogEntry, NEW k \in 0..(Len(e.data) - 1)
  PROVE  /\ Run(e, k) \in LogEntry
         /\ Run(e, k).first = e.first + k
         /\ Run(e, k).bitmap = {} /\ Run(e, k).invalid = 0
         /\ Len(Run(e, k).data) = RunEnd(e, k) - k
         /\ Run(e, k).data # <<>>
         /\ \A i \in 1..(RunEnd(e, k) - k) : Run(e, k).data[i] = e.data[k + i]
  <1> DEFINE n == Len(e.data)
             x == RunEnd(e, k)
             d == SubSeq(e.data, k + 1, x)
  <1>1. /\ n \in Nat /\ k \in Nat /\ k < n /\ x \in (k + 1)..n /\ e.data \in Seq(Page)
        /\ e.first \in Nat /\ e.first + n <= NumFilePages /\ n <= MaxPerEntry
    BY RunEnds, EntryType
  <1> HIDE DEF x
  <1>2. d \in Seq(Page) /\ Len(d) = x - k /\ \A i \in 1..(x - k) : d[i] = e.data[k + i]
    <2>1. k + 1 \in 1..n /\ x \in 1..n /\ x - (k + 1) + 1 = x - k
      BY <1>1
    <2>2. /\ d \in Seq(Page) /\ Len(d) = x - (k + 1) + 1
          /\ \A i \in 1..(x - (k + 1) + 1) : d[i] = e.data[(k + 1) + i - 1]
      BY <1>1, <2>1
    <2>3. \A i \in 1..(x - k) : (k + 1) + i - 1 = k + i
      BY <1>1
    <2> QED
      BY <2>1, <2>2, <2>3
  <1>3. Run(e, k) = [data |-> d, first |-> e.first + k, bitmap |-> {}, invalid |-> 0]
    <2>1. Run(e, k) = [NoEntry EXCEPT !.data = d, !.first = e.first + k]
      BY DEF Run, x
    <2> HIDE DEF d
    <2> QED
      BY <2>1 DEF NoEntry
  <1> HIDE DEF d
  <1>4. /\ e.first + k \in Nat /\ e.first + k < NumFilePages
        /\ (e.first + k) + Len(d) <= NumFilePages /\ Len(d) <= MaxPerEntry
    BY <1>1, <1>2, PagesCounted
  <1>5. Run(e, k) \in LogEntry
    BY <1>2, <1>3, <1>4, EntryMade
  <1>6. d # <<>>
    BY <1>1, <1>2
  <1> QED
    BY <1>2, <1>3, <1>5, <1>6 DEF x

LEMMA RunsOfParts ==
  ASSUME NEW e \in LogEntry
  PROVE  /\ RunsOf(e) \in Seq(LogEntry)
         /\ \E start \in [1..Len(RunsOf(e)) -> 0..(Len(e.data) - 1)] :
              /\ \A r \in 1..Len(RunsOf(e)) :
                   Starts(e, start[r]) /\ RunsOf(e)[r] = Run(e, start[r])
              /\ \A r, t \in 1..Len(RunsOf(e)) : start[r] = start[t] => r = t
              /\ \A k \in 0..(Len(e.data) - 1) :
                   Starts(e, k) => \E r \in 1..Len(RunsOf(e)) : start[r] = k
  <1> DEFINE n == Len(e.data)
             part(j) == IF Starts(e, j - 1) THEN <<Run(e, j - 1)>> ELSE <<>>
             parts == [j \in 1..n |-> part(j)]
             flat == RunsOf(e)
  <1>1. n \in Nat /\ \A j \in 1..n : j - 1 \in 0..(n - 1)
    BY EntryType
  <1>2. \A j \in 1..n : part(j) \in Seq(LogEntry)
    BY <1>1, RunIs
  <1>3. parts \in Seq(Seq(LogEntry)) /\ Len(parts) = n
    <2> HIDE DEF part, n
    <2> QED
      BY <1>1, <1>2
  <1>4. flat = FlattenSeq(parts)
    BY DEF RunsOf
  <1>5. \A j \in 1..n : parts[j] = part(j)
    OBVIOUS
  <1> HIDE DEF parts, flat
  <1>6. flat \in Seq(LogEntry) /\ \E at, pos : Gathers(parts, n, flat, at, pos)
    BY <1>3, <1>4, Flattened
  <1>7. PICK at, pos : Gathers(parts, n, flat, at, pos)
    BY <1>6
  <1>8. ASSUME NEW r \in 1..Len(flat)
        PROVE  /\ at[r] \in 1..n /\ Starts(e, at[r] - 1) /\ pos[r] = 1
               /\ flat[r] = Run(e, at[r] - 1)
    <2>1. at[r] \in 1..n /\ pos[r] \in 1..Len(parts[at[r]]) /\ flat[r] = parts[at[r]][pos[r]]
      BY <1>7 DEF Gathers
    <2> DEFINE j == at[r]
               i == pos[r]
    <2> HIDE DEF j, i
    <2>2. j \in 1..n /\ i \in 1..Len(part(j)) /\ flat[r] = part(j)[i]
      BY <1>5, <2>1 DEF i, j
    <2>3. Starts(e, j - 1) /\ i = 1 /\ flat[r] = Run(e, j - 1)
      <3>1. CASE Starts(e, j - 1)
        BY <2>2, <3>1
      <3>2. CASE ~Starts(e, j - 1)
        <4>1. part(j) = <<>>
          BY <3>2
        <4>2. 1..Len(<<>>) = {}
          OBVIOUS
        <4> QED
          BY <2>2, <4>1, <4>2
      <3> QED
        BY <3>1, <3>2
    <2> QED
      BY <2>2, <2>3 DEF i, j
  <1> DEFINE start == [r \in 1..Len(flat) |-> at[r] - 1]
  <1>9. start \in [1..Len(flat) -> 0..(n - 1)]
    BY <1>1, <1>8
  <1>10. \A r \in 1..Len(flat) : start[r] = at[r] - 1
    OBVIOUS
  <1> HIDE DEF start, part
  <1>11. \A r \in 1..Len(flat) : Starts(e, start[r]) /\ flat[r] = Run(e, start[r])
    BY <1>8, <1>10
  <1>12. ASSUME NEW r \in 1..Len(flat), NEW t \in 1..Len(flat), start[r] = start[t] PROVE r = t
    <2>1. at[r] = at[t]
      <3>1. at[r] - 1 = at[t] - 1 /\ at[r] \in 1..n /\ at[t] \in 1..n
        BY <1>8, <1>10, <1>12
      <3> QED
        BY <1>1, <3>1
    <2>2. pos[r] = pos[t]
      BY <1>8
    <2> QED
      BY <1>7, <2>1, <2>2 DEF Gathers
  <1>13. ASSUME NEW k \in 0..(n - 1), Starts(e, k) PROVE \E r \in 1..Len(flat) : start[r] = k
    <2>1. k + 1 \in 1..n /\ (k + 1) - 1 = k
      BY <1>1
    <2>2. parts[k + 1] = <<Run(e, k)>>
      BY <1>5, <1>13, <2>1 DEF part
    <2>3. 1 \in 1..Len(parts[k + 1])
      BY <2>2
    <2>4. PICK r \in 1..Len(flat) : at[r] = k + 1
      BY <1>7, <2>1, <2>3 DEF Gathers
    <2> QED
      BY <1>10, <2>1, <2>4
  <1>14. /\ flat \in Seq(LogEntry)
         /\ \E s \in [1..Len(flat) -> 0..(n - 1)] :
              /\ \A r \in 1..Len(flat) : Starts(e, s[r]) /\ flat[r] = Run(e, s[r])
              /\ \A r, t \in 1..Len(flat) : s[r] = s[t] => r = t
              /\ \A k \in 0..(n - 1) : Starts(e, k) => \E r \in 1..Len(flat) : s[r] = k
    BY <1>6, <1>9, <1>11, <1>12, <1>13
  <1> QED
    BY <1>14 DEF flat
(* Every valid page of an entry is in one of its runs, at its place in the *)
(* file.                                                                   *)
LEMMA RunsCover ==
  ASSUME NEW e \in LogEntry, NEW k \in 1..Len(e.data), Valid(e, k - 1)
  PROVE  \E r \in 1..Len(RunsOf(e)) : Names(RunsOf(e)[r], e.first + k - 1, e.data[k])
  <1> DEFINE n == Len(e.data)
             T == {j \in 0..(k - 1) : \A m \in j..(k - 1) : Valid(e, m)}
  <1>1. n \in Nat /\ k \in Nat /\ k - 1 \in Nat /\ k - 1 <= n - 1 /\ e.first \in Nat
    BY EntryType
  <1>2. k - 1 \in T /\ T \in SUBSET Nat
    <2>1. \A m \in (k - 1)..(k - 1) : m = k - 1
      BY <1>1
    <2> QED
      BY <1>1, <2>1
  <1>3. PICK j \in T : \A y \in T : j <= y
    <2> HIDE DEF T
    <2> QED
      BY <1>2, SmallestIn
  <1>4. j \in 0..(k - 1) /\ j \in 0..(n - 1) /\ \A m \in j..(k - 1) : Valid(e, m)
    BY <1>1
  <1>5. Starts(e, j)
    <2>1. Valid(e, j)
      BY <1>1, <1>4
    <2>2. ASSUME j # 0, Valid(e, j - 1) PROVE FALSE
      <3>1. j - 1 \in 0..(k - 1)
        BY <1>1, <1>4, <2>2
      <3>2. ASSUME NEW m \in (j - 1)..(k - 1) PROVE Valid(e, m)
        <4>1. m = j - 1 \/ m \in j..(k - 1)
          BY <1>1, <1>4
        <4> QED
          BY <1>4, <2>2, <4>1
      <3>3. j - 1 \in T
        BY <3>1, <3>2
      <3>4. j <= j - 1
        BY <1>3, <3>3
      <3> QED
        BY <1>1, <1>4, <3>4
    <2> QED
      BY <2>1, <2>2 DEF Starts
  <1> DEFINE x == RunEnd(e, j)
  <1>6. x \in k..n
    <2>1. x \in (j + 1)..n /\ (x = n \/ ~Valid(e, x))
      BY <1>4, RunEnds
    <2> HIDE DEF x, T
    <2>2. CASE x < k
      <3>1. x \in j..(k - 1) /\ x # n
        BY <1>1, <1>4, <2>1, <2>2
      <3> QED
        BY <1>4, <2>1, <3>1
    <2>3. CASE ~(x < k)
      BY <1>1, <1>4, <2>1, <2>3
    <2> QED
      BY <2>2, <2>3
  <1>7. PICK r \in 1..Len(RunsOf(e)) : RunsOf(e)[r] = Run(e, j)
    BY <1>4, <1>5, RunsOfParts
  <1>8. /\ Run(e, j).first = e.first + j /\ Len(Run(e, j).data) = x - j
        /\ \A i \in 1..(x - j) : Run(e, j).data[i] = e.data[j + i]
    BY <1>4, RunIs
  <1> HIDE DEF x, T
  <1>9. /\ k - j \in 1..(x - j) /\ j + (k - j) = k
        /\ (e.first + j) + (k - j) - 1 = e.first + k - 1
    BY <1>1, <1>4, <1>6
  <1>10. Names(Run(e, j), e.first + k - 1, e.data[k])
    BY <1>8, <1>9 DEF Names
  <1> QED
    BY <1>7, <1>10

(* The runs take distinct valid pages of the entry.                        *)
LEMMA RunsInside ==
  ASSUME NEW e \in LogEntry
  PROVE  \E start \in [1..Len(RunsOf(e)) -> 0..(Len(e.data) - 1)] :
           /\ \A r \in 1..Len(RunsOf(e)) :
                /\ RunsOf(e)[r] \in LogEntry /\ RunsOf(e)[r].data # <<>>
                /\ RunsOf(e)[r].bitmap = {} /\ RunsOf(e)[r].invalid = 0
                /\ \A i \in 1..Len(RunsOf(e)[r].data) :
                     /\ start[r] + i \in 1..Len(e.data)
                     /\ Valid(e, start[r] + i - 1)
                     /\ RunsOf(e)[r].data[i] = e.data[start[r] + i]
           /\ \A r, t \in 1..Len(RunsOf(e)) :
                \A i \in 1..Len(RunsOf(e)[r].data), j \in 1..Len(RunsOf(e)[t].data) :
                  start[r] + i = start[t] + j => r = t
  <1> DEFINE flat == RunsOf(e)
             n == Len(e.data)
  <1>1. PICK start \in [1..Len(flat) -> 0..(n - 1)] :
          /\ \A r \in 1..Len(flat) : Starts(e, start[r]) /\ flat[r] = Run(e, start[r])
          /\ \A r, t \in 1..Len(flat) : start[r] = start[t] => r = t
    BY RunsOfParts
  <1> HIDE DEF flat
  <1>2. n \in Nat /\ \A r \in 1..Len(flat) : start[r] \in 0..(n - 1) /\ start[r] \in Nat
    BY EntryType
  <1>3. ASSUME NEW r \in 1..Len(flat)
        PROVE  /\ flat[r] \in LogEntry /\ flat[r].data # <<>>
               /\ flat[r].bitmap = {} /\ flat[r].invalid = 0
               /\ Len(flat[r].data) = RunEnd(e, start[r]) - start[r]
               /\ \A i \in 1..Len(flat[r].data) : flat[r].data[i] = e.data[start[r] + i]
    BY <1>1, <1>2, RunIs
  <1>4. ASSUME NEW r \in 1..Len(flat), NEW i \in 1..Len(flat[r].data)
        PROVE  /\ start[r] + i \in 1..n /\ start[r] + i <= RunEnd(e, start[r])
               /\ Valid(e, start[r] + i - 1)
    <2> DEFINE k == start[r]
               x == RunEnd(e, k)
    <2>1. /\ k \in 0..(n - 1) /\ x \in (k + 1)..n /\ \A m \in (k + 1)..(x - 1) : Valid(e, m)
          /\ Valid(e, k)
      BY <1>1, <1>2, RunEnds DEF Starts
    <2>2. i \in 1..(x - k)
      BY <1>3
    <2> HIDE DEF k, x
    <2>3. k + i \in 1..n /\ k + i <= x
      BY <1>2, <2>1, <2>2
    <2>4. k + i - 1 = k \/ k + i - 1 \in (k + 1)..(x - 1)
      BY <1>2, <2>1, <2>2
    <2>5. Valid(e, k + i - 1)
      BY <2>1, <2>4
    <2> QED
      BY <2>3, <2>5 DEF k, x
  <1>5. ASSUME NEW r \in 1..Len(flat), NEW t \in 1..Len(flat), start[r] < start[t],
               NEW i \in 1..Len(flat[r].data), NEW j \in 1..Len(flat[t].data)
        PROVE  start[r] + i # start[t] + j
    <2> DEFINE k == start[r]
               m == start[t]
               x == RunEnd(e, k)
    <2>1. /\ k \in 0..(n - 1) /\ m \in 0..(n - 1)
          /\ x \in (k + 1)..n /\ \A y \in (k + 1)..(x - 1) : Valid(e, y)
          /\ Valid(e, k) /\ (m = 0 \/ ~Valid(e, m - 1))
      BY <1>1, <1>2, RunEnds DEF Starts
    <2>2. k + i <= x /\ k < m
      BY <1>4, <1>5
    <2> HIDE DEF k, m, x
    <2>3. m - 1 # k
      <3>1. k \in Nat /\ m \in Nat /\ m # 0
        BY <1>2, <2>1, <2>2
      <3> QED
        BY <2>1, <3>1, Zenon
    <2>4. m - 1 \notin (k + 1)..(x - 1)
      BY <1>2, <2>1, <2>2
    <2>5. x <= m - 1
      BY <1>2, <2>1, <2>2, <2>3, <2>4
    <2>6. k + i # m + j
      BY <1>2, <2>1, <2>2, <2>5
    <2> QED
      BY <2>6 DEF k, m
  <1>6. ASSUME NEW r \in 1..Len(flat), NEW t \in 1..Len(flat),
               NEW i \in 1..Len(flat[r].data), NEW j \in 1..Len(flat[t].data),
               start[r] + i = start[t] + j
        PROVE  r = t
    <2>1. start[r] < start[t] \/ start[t] < start[r] \/ start[r] = start[t]
      BY <1>2
    <2>2. ~(start[r] < start[t])
      BY <1>5, <1>6
    <2>3. ~(start[t] < start[r])
      BY <1>5, <1>6
    <2> QED
      BY <1>1, <2>1, <2>2, <2>3
  <1>7. \E s \in [1..Len(flat) -> 0..(n - 1)] :
          /\ \A r \in 1..Len(flat) :
               /\ flat[r] \in LogEntry /\ flat[r].data # <<>>
               /\ flat[r].bitmap = {} /\ flat[r].invalid = 0
               /\ \A i \in 1..Len(flat[r].data) :
                    /\ s[r] + i \in 1..n
                    /\ Valid(e, s[r] + i - 1)
                    /\ flat[r].data[i] = e.data[s[r] + i]
          /\ \A r, t \in 1..Len(flat) :
               \A i \in 1..Len(flat[r].data), j \in 1..Len(flat[t].data) :
                 s[r] + i = s[t] + j => r = t
    BY <1>3, <1>4, <1>6
  <1> QED
    BY <1>7 DEF flat

(* Runs of an entry whose pages are distinct.                              *)
LEMMA RunsApart ==
  ASSUME NEW e \in LogEntry, IsInjective(e.data)
  PROVE  /\ \A r \in 1..Len(RunsOf(e)) :
              /\ RunsOf(e)[r] \in LogEntry /\ RunsOf(e)[r].data # <<>>
              /\ RunsOf(e)[r].bitmap = {} /\ RunsOf(e)[r].invalid = 0
              /\ IsInjective(RunsOf(e)[r].data)
              /\ Range(RunsOf(e)[r].data) \subseteq Range(e.data) \ InvalidPages(e)
         /\ \A r, t \in 1..Len(RunsOf(e)) : r # t => Disjoint(RunsOf(e)[r], RunsOf(e)[t])
  <1> DEFINE flat == RunsOf(e)
             n == Len(e.data)
  <1>1. PICK start \in [1..Len(flat) -> 0..(n - 1)] :
          /\ \A r \in 1..Len(flat) :
               /\ flat[r] \in LogEntry /\ flat[r].data # <<>>
               /\ flat[r].bitmap = {} /\ flat[r].invalid = 0
               /\ \A i \in 1..Len(flat[r].data) :
                    /\ start[r] + i \in 1..n
                    /\ Valid(e, start[r] + i - 1)
                    /\ flat[r].data[i] = e.data[start[r] + i]
          /\ \A r, t \in 1..Len(flat) :
               \A i \in 1..Len(flat[r].data), j \in 1..Len(flat[t].data) :
                 start[r] + i = start[t] + j => r = t
    BY RunsInside
  <1> HIDE DEF flat
  <1>2. /\ n \in Nat /\ \A r \in 1..Len(flat) : start[r] \in Nat
        /\ DOMAIN e.data = 1..n /\ \A i, j \in 1..n : e.data[i] = e.data[j] => i = j
    BY EntryType DEF IsInjective
  <1>3. \A r \in 1..Len(flat) : DOMAIN flat[r].data = 1..Len(flat[r].data) /\ Len(flat[r].data) \in Nat
    BY <1>1, EntryType
  <1>4. ASSUME NEW r \in 1..Len(flat) PROVE IsInjective(flat[r].data)
    <2> SUFFICES ASSUME NEW i \in 1..Len(flat[r].data), NEW j \in 1..Len(flat[r].data),
                        flat[r].data[i] = flat[r].data[j]
                 PROVE  i = j
      BY <1>3 DEF IsInjective
    <2> DEFINE k == start[r] + i
               m == start[r] + j
    <2>1. k = m
      <3>1. k \in 1..n /\ m \in 1..n /\ flat[r].data[i] = e.data[k] /\ flat[r].data[j] = e.data[m]
        BY <1>1
      <3> HIDE DEF k, m
      <3> QED
        BY <1>2, <3>1
    <2> QED
      BY <1>2, <1>3, <2>1
  <1>5. ASSUME NEW r \in 1..Len(flat)
        PROVE  Range(flat[r].data) \subseteq Range(e.data) \ InvalidPages(e)
    <2>1. ASSUME NEW i \in 1..Len(flat[r].data)
          PROVE  flat[r].data[i] \in Range(e.data) /\ flat[r].data[i] \notin InvalidPages(e)
      <3> DEFINE k == start[r] + i
      <3>1. k \in 1..n /\ Valid(e, k - 1) /\ flat[r].data[i] = e.data[k]
        BY <1>1
      <3> HIDE DEF k
      <3>2. e.data[k] \in Range(e.data)
        BY <1>2, <3>1 DEF Range
      <3>3. ASSUME e.data[k] \in InvalidPages(e) PROVE FALSE
        <4>1. PICK m \in 0..(n - 1) : ~Valid(e, m) /\ e.data[k] = e.data[m + 1]
          BY <3>3 DEF InvalidPages
        <4>2. m + 1 \in 1..n /\ (m + 1) - 1 = m
          BY <1>2
        <4>3. k = m + 1
          BY <1>2, <3>1, <4>1, <4>2
        <4> QED
          BY <3>1, <4>1, <4>2, <4>3
      <3> QED
        BY <3>1, <3>2, <3>3
    <2> QED
      BY <1>3, <2>1 DEF Range
  <1>6. ASSUME NEW r \in 1..Len(flat), NEW t \in 1..Len(flat), r # t
        PROVE  Disjoint(flat[r], flat[t])
    <2> SUFFICES ASSUME NEW i \in 1..Len(flat[r].data), NEW j \in 1..Len(flat[t].data),
                        flat[r].data[i] = flat[t].data[j]
                 PROVE  FALSE
      BY <1>3 DEF Disjoint, Range
    <2> DEFINE k == start[r] + i
               m == start[t] + j
    <2>1. k = m
      <3>1. k \in 1..n /\ m \in 1..n /\ flat[r].data[i] = e.data[k] /\ flat[t].data[j] = e.data[m]
        BY <1>1
      <3> HIDE DEF k, m
      <3> QED
        BY <1>2, <3>1
    <2> QED
      BY <1>1, <1>6, <2>1
  <1> QED
    BY <1>1, <1>4, <1>5, <1>6 DEF flat
-----------------------------------------------------------------------------
(* The invariant in terms of the chains c of the logs and of L, the        *)
(* addresses of their entries.                                             *)
Places(s, t) ==
  {a \in [page : Range(s), slot : 0..(Slots - 1)] :
     a.slot < IF a.page = t.page THEN t.slot ELSE Slots}

Lines(c) ==
  /\ c \in [File -> Seq(Page)]
  /\ \A f \in File : Chained(head[f], tail[f].page, next, c[f])
  /\ \A f, g \in File : f # g => Range(c[f]) \cap Range(c[g]) = {}

Clear(c) == \A f \in File : Range(c[f]) \cap (free \cup isData \cup {scan.block}) = {}

Walks(c) == pc \in {"scan", "move"} => Scanning(c[file])

Counted(c) ==
  \A f \in File : \A p \in Range(c[f]) :
    node[p].obj >= IF p = tail[f].page THEN tail[f].slot ELSE Slots

Once(L) ==
  /\ \A f \in File : \A a \in L[f] : InUse(memory[a.page][a.slot])
  /\ \A r \in DOMAIN runs : InUse(runs[r])
  /\ \A f, g \in File : \A a \in L[f], b \in L[g] :
       a # b => Disjoint(memory[a.page][a.slot], memory[b.page][b.slot])
  /\ \A r, t \in DOMAIN runs : r # t => Disjoint(runs[r], runs[t])
  /\ \A f \in File : \A a \in L[f], r \in DOMAIN runs : Disjoint(memory[a.page][a.slot], runs[r])

FreshIn(L) ==
  \A k \in DOMAIN fresh :
    \E a \in L[file] : Names(memory[a.page][a.slot], fresh[k][1], fresh[k][2])

IndexIn(L) ==
  \A f \in File, i \in FilePage :
    index[f][i] # NoPage =>
      \/ \E a \in L[f] : Names(memory[a.page][a.slot], i, index[f][i])
      \/ file = f /\ \E r \in DOMAIN runs : Names(runs[r], i, index[f][i])
      \/ index[f][i] \in scan.dead

Sound(c, L) ==
  /\ Lines(c) /\ L = [f \in File |-> Places(c[f], tail[f])]
  /\ Clear(c) /\ Walks(c) /\ Counted(c)
  /\ CallShape /\ DataApart
  /\ Once(L) /\ FreshIn(L) /\ IndexIn(L)

WellFormed == \E c, L : Sound(c, L)

(* The types, taken apart.                                                 *)
LEMMA TypeFacts ==
  ASSUME TypeOK
  PROVE  /\ free \subseteq Page /\ isData \subseteq Page
         /\ next \in [Page -> Page \cup {NoPage}]
         /\ DOMAIN node = Page
         /\ \A p \in Page : node[p] \in [obj : Nat, invalid : Nat, pages : Nat, invalidPages : Nat]
         /\ DOMAIN memory = Page
         /\ \A p \in Page : memory[p] \in [0..(Slots - 1) -> LogEntry]
         /\ \A p \in Page : \A s \in 0..(Slots - 1) : memory[p][s] \in LogEntry
         /\ \A f \in File : /\ head[f] \in Page \cup {NoPage}
                            /\ tail[f] \in [page : Page \cup {NoPage}, slot : 0..Slots]
                            /\ tail[f].page \in Page \cup {NoPage}
                            /\ tail[f].slot \in 0..Slots
                            /\ index[f] \in [FilePage -> Page \cup {NoPage}]
                            /\ \A i \in FilePage : index[f][i] \in Page \cup {NoPage}
         /\ scan.at \in Page \cup {NoPage} /\ scan.prev \in Page \cup {NoPage}
         /\ scan.stop \in Page \cup {NoPage} /\ scan.block \in Page \cup {NoPage}
         /\ scan.dead \subseteq Page
         /\ scan = [at |-> scan.at, prev |-> scan.prev, stop |-> scan.stop,
                    block |-> scan.block, dead |-> scan.dead]
         /\ file \in File
  <1>1. /\ free \subseteq Page /\ isData \subseteq Page
        /\ next \in [Page -> Page \cup {NoPage}]
        /\ DOMAIN node = Page /\ DOMAIN memory = Page /\ file \in File
    BY DEF TypeOK
  <1>2. \A p \in Page : node[p] \in [obj : Nat, invalid : Nat, pages : Nat, invalidPages : Nat]
    BY DEF TypeOK
  <1>3. \A p \in Page : memory[p] \in [0..(Slots - 1) -> LogEntry]
    BY DEF TypeOK
  <1>4. \A p \in Page : \A s \in 0..(Slots - 1) : memory[p][s] \in LogEntry
    BY <1>3
  <1>5. ASSUME NEW f \in File
        PROVE  /\ head[f] \in Page \cup {NoPage}
               /\ tail[f] \in [page : Page \cup {NoPage}, slot : 0..Slots]
               /\ index[f] \in [FilePage -> Page \cup {NoPage}]
    BY DEF TypeOK
  <1>6. \A f \in File : tail[f].page \in Page \cup {NoPage} /\ tail[f].slot \in 0..Slots
    BY <1>5
  <1>7. \A f \in File : \A i \in FilePage : index[f][i] \in Page \cup {NoPage}
    BY <1>5
  <1>8. scan \in [at : Page \cup {NoPage}, prev : Page \cup {NoPage}, stop : Page \cup {NoPage},
                 block : Page \cup {NoPage}, dead : SUBSET Page]
    BY DEF TypeOK
  <1>9. /\ scan.at \in Page \cup {NoPage} /\ scan.prev \in Page \cup {NoPage}
        /\ scan.stop \in Page \cup {NoPage} /\ scan.block \in Page \cup {NoPage}
        /\ scan.dead \subseteq Page
        /\ scan = [at |-> scan.at, prev |-> scan.prev, stop |-> scan.stop,
                   block |-> scan.block, dead |-> scan.dead]
    BY <1>8
  <1> QED
    BY <1>1, <1>2, <1>3, <1>4, <1>5, <1>6, <1>7, <1>9

LEMMA LogIsChain ==
  ASSUME TypeOK, NEW f \in File, NEW s \in Seq(Page), Chained(head[f], tail[f].page, next, s)
  PROVE  /\ LogPages(f) = Range(s)
         /\ Addresses(f) = Places(s, tail[f])
         /\ s \in LogOf(f)
  <1>1. LogPages(f) = Range(s)
    BY TypeFacts, ReachedChain DEF LogPages
  <1>2. Addresses(f) = Places(s, tail[f])
    BY <1>1 DEF Addresses, NumEntries, Places
  <1>3. s \in [1..Len(s) -> Range(s)] /\ Len(s) = Cardinality(Range(s))
    BY ChainSize, ChainEnds
  <1>4. s \in LogOf(f)
    BY <1>1, <1>3 DEF LogOf
  <1> QED
    BY <1>1, <1>2, <1>4

LEMMA ChainIsLog ==
  ASSUME TypeOK, NEW f \in File, NEW s \in LogOf(f)
  PROVE  s \in Seq(Page) /\ Chained(head[f], tail[f].page, next, s)
  <1>1. LogPages(f) \subseteq Page /\ Cardinality(LogPages(f)) \in Nat
    <2>1. head[f] \in Page \cup {NoPage} /\ next \in [Page -> Page \cup {NoPage}]
      BY TypeFacts
    <2> QED
      BY <2>1, ReachedPages DEF LogPages
  <1>2. s \in [1..Cardinality(LogPages(f)) -> LogPages(f)] /\ Chained(head[f], tail[f].page, next, s)
    BY DEF LogOf
  <1>3. s \in [1..Cardinality(LogPages(f)) -> Page]
    BY <1>1, <1>2
  <1> QED
    BY <1>1, <1>2, <1>3

LEMMA Unfold ==
  ASSUME IInv, fault = "none"
  PROVE  TypeOK /\ \E c, L : Sound(c, L)
  <1> TypeOK
    BY DEF IInv
  <1>1. PICK chain \in [File -> UNION {LogOf(f) : f \in File}] : LogsApart(chain)
    BY DEF IInv
  <1>2. \A f \in File : chain[f] \in LogOf(f)
    BY <1>1 DEF LogsApart
  <1>3. \A f \in File : chain[f] \in Seq(Page) /\ Chained(head[f], tail[f].page, next, chain[f])
    BY <1>2, ChainIsLog
  <1>4. Lines(chain)
    BY <1>1, <1>3 DEF Lines, LogsApart
  <1> DEFINE L == [f \in File |-> Places(chain[f], tail[f])]
  <1>5. \A f \in File : LogPages(f) = Range(chain[f]) /\ Addresses(f) = L[f]
    BY <1>3, LogIsChain
  <1>6. L = [f \in File |-> Places(chain[f], tail[f])]
    OBVIOUS
  <1> HIDE DEF L
  <1>7. Clear(chain) /\ Walks(chain) /\ CallShape /\ DataApart
    BY <1>1 DEF IInv, LogsApart, Clear, Walks
  <1>8. Counted(chain)
    BY <1>5 DEF IInv, ObjCovers, Counted, NumEntries
  <1>9. Once(L)
    <2>1. NamedOnce
      BY DEF IInv
    <2>2. \A f \in File : L[f] \subseteq UNION {Addresses(g) : g \in File}
      BY <1>5
    <2> QED
      BY <2>1, <2>2 DEF NamedOnce, Once, Entry
  <1>10. FreshIn(L)
    <2>1. LogCoversFresh /\ file \in File
      BY TypeFacts DEF IInv
    <2> QED
      BY <1>5, <2>1 DEF LogCoversFresh, FreshIn, Entry
  <1>11. IndexIn(L)
    <2>1. LogCoversIndex
      BY DEF IInv
    <2> QED
      BY <1>5, <2>1 DEF LogCoversIndex, IndexIn, Entry
  <1>12. Sound(chain, L)
    BY <1>4, <1>6, <1>7, <1>8, <1>9, <1>10, <1>11 DEF Sound
  <1> QED
    BY <1>12

LEMMA Fold ==
  TypeOK /\ (fault = "none" => WellFormed) => IInv
  <1> SUFFICES ASSUME TypeOK, fault = "none" => WellFormed PROVE IInv
    OBVIOUS
  <1>1. CASE fault # "none"
    BY <1>1 DEF IInv, LogCoversIndex
  <1>2. CASE fault = "none"
    <2>1. PICK c, L : Sound(c, L)
      BY <1>2 DEF WellFormed
    <2>2. \A f \in File : c[f] \in Seq(Page) /\ Chained(head[f], tail[f].page, next, c[f])
      BY <2>1 DEF Sound, Lines
    <2>3. \A f \in File : /\ LogPages(f) = Range(c[f])
                          /\ Addresses(f) = Places(c[f], tail[f])
                          /\ c[f] \in LogOf(f)
      BY <2>2, LogIsChain
    <2>4. \A f \in File : Addresses(f) = L[f]
      BY <2>1, <2>3 DEF Sound
    <2>5. c \in [File -> UNION {LogOf(f) : f \in File}]
      BY <2>1, <2>3 DEF Sound, Lines
    <2>6. LogsApart(c)
      BY <2>1, <2>3 DEF Sound, LogsApart, Lines, Clear, Walks
    <2>7. CallShape /\ DataApart
      BY <2>1 DEF Sound
    <2>8. ObjCovers
      BY <2>1, <2>3 DEF Sound, ObjCovers, Counted, NumEntries
    <2>9. NamedOnce
      <3>1. Once(L)
        BY <2>1 DEF Sound
      <3> QED
        BY <2>4, <3>1 DEF NamedOnce, Once, Entry
    <2>10. LogCoversFresh
      <3>1. FreshIn(L) /\ file \in File
        BY <2>1, TypeFacts DEF Sound
      <3> QED
        BY <2>4, <3>1 DEF LogCoversFresh, FreshIn, Entry
    <2>11. LogCoversIndex
      <3>1. IndexIn(L)
        BY <2>1 DEF Sound
      <3> QED
        BY <2>4, <3>1 DEF LogCoversIndex, IndexIn, Entry
    <2> QED
      BY <2>5, <2>6, <2>7, <2>8, <2>9, <2>10, <2>11 DEF IInv
  <1> QED
    BY <1>1, <1>2

LEMMA FoldNext ==
  ASSUME TypeOK', fault' = "none" => WellFormed'
  PROVE  IInv'
  <1>1. (TypeOK /\ (fault = "none" => WellFormed) => IInv)'
    BY Fold, PTL
  <1> QED
    BY <1>1
-----------------------------------------------------------------------------
(* The initial states, and the steps that leave pages and logs alone.      *)
LEMMA InitInv ==
  ASSUME Init
  PROVE  IInv
  <1>1. TypeOK
    <2>1. NoEntry \in LogEntry
      <3>1. <<>> \in Seq(Page) /\ Len(<<>>) = 0
        OBVIOUS
      <3>2. /\ {} \in SUBSET (0..63) /\ 0 \in Nat /\ 0 < NumFilePages
            /\ 0 + Len(<<>>) <= NumFilePages /\ Len(<<>>) <= MaxPerEntry
        BY <3>1, PagesCounted
      <3> QED
        BY <3>1, <3>2, EntryMade DEF NoEntry
    <2>2. 0 \in 0..(Slots - 1) /\ 0 \in 0..Slots /\ 0 \in 0..MaxWrites
      BY PagesCounted
    <2>3. /\ node \in [Page -> [obj : Nat, invalid : Nat, pages : Nat, invalidPages : Nat]]
          /\ memory \in [Page -> [0..(Slots - 1) -> LogEntry]]
          /\ origin \in [Page -> Address]
          /\ tail \in [File -> [page : Page \cup {NoPage}, slot : 0..Slots]]
      BY <2>1, <2>2 DEF Init, Counters, Address
    <2>4. scan \in [at : Page \cup {NoPage}, prev : Page \cup {NoPage}, stop : Page \cup {NoPage},
                    block : Page \cup {NoPage}, dead : SUBSET Page]
      BY DEF Init, NoScan
    <2>5. /\ free \subseteq Page /\ isData \subseteq Page
          /\ next \in [Page -> Page \cup {NoPage}]
          /\ head \in [File -> Page \cup {NoPage}]
          /\ index \in [File -> [FilePage -> Page \cup {NoPage}]]
          /\ pc \in {"idle", "write", "scan", "move"} /\ file \in File
          /\ left \in Seq(FilePage) /\ fresh \in Seq(FilePage \X Page) /\ runs \in Seq(LogEntry)
          /\ writes \in 0..MaxWrites
          /\ fault \in {"none", "data_marked", "superblock_marked", "entries_overrun", "nothing_freed",
                        "page_in_use_freed", "exhausted"}
      BY <2>2 DEF Init
    <2> QED
      BY <2>3, <2>4, <2>5 DEF TypeOK
  <1> DEFINE c == [f \in File |-> <<>>]
             L == [f \in File |-> Places(c[f], tail[f])]
  <1>2. <<>> \in Seq(Page) /\ Len(<<>>) = 0 /\ DOMAIN <<>> = {} /\ Range(<<>>) = {}
    BY DEF Range
  <1>3. \A f \in File : c[f] = <<>> /\ head[f] = NoPage /\ tail[f].page = NoPage
    BY DEF Init
  <1>4. Lines(c)
    <2>1. c \in [File -> Seq(Page)]
      BY <1>2
    <2>2. \A f \in File : Chained(head[f], tail[f].page, next, c[f])
      <3>1. Chained(NoPage, NoPage, next, <<>>)
        BY <1>2 DEF Chained, IsInjective
      <3> HIDE DEF c
      <3> QED
        BY <1>3, <3>1
    <2> HIDE DEF c
    <2> QED
      BY <1>2, <1>3, <2>1, <2>2 DEF Lines
  <1>5. \A f \in File : Places(c[f], tail[f]) = {}
    BY <1>2, <1>3 DEF Places
  <1>6. L = [f \in File |-> Places(c[f], tail[f])] /\ \A f \in File : L[f] = {}
    BY <1>5
  <1> HIDE DEF c, L
  <1>7. Clear(c) /\ Counted(c)
    BY <1>2, <1>3 DEF Clear, Counted
  <1>8. Walks(c)
    BY DEF Walks, Init
  <1>9. CallShape
    BY <1>2 DEF CallShape, Init, NoScan
  <1>10. DataApart
    <2>1. Indexed = {}
      BY DEF Indexed, Init
    <2>2. Logged = {}
      BY <1>2 DEF Logged, Init
    <2>3. scan.block \notin free \cup isData
      BY PagesCounted DEF Init, NoScan
    <2> QED
      BY <1>2, <2>1, <2>2, <2>3 DEF DataApart, Init
  <1>11. Once(L)
    BY <1>2, <1>6 DEF Once, Init
  <1>12. FreshIn(L)
    BY <1>2 DEF FreshIn, Init
  <1>13. IndexIn(L)
    BY DEF IndexIn, Init
  <1>14. Sound(c, L)
    BY <1>4, <1>6, <1>7, <1>8, <1>9, <1>10, <1>11, <1>12, <1>13 DEF Sound
  <1> QED
    BY <1>1, <1>14, Fold DEF WellFormed

LEMMA QuietStep ==
  ASSUME NEW c, NEW L, Sound(c, L),
         UNCHANGED <<free, next, node, isData, memory, head, tail, index, fresh, runs>>,
         scan'.dead = scan.dead, scan'.block = scan.block,
         file' = file \/ (fresh = <<>> /\ runs = <<>>),
         CallShape', Walks(c)'
  PROVE  WellFormed'
  <1>1. Lines(c)' /\ (L = [f \in File |-> Places(c[f], tail[f])])'
    BY DEF Sound, Lines
  <1>2. Clear(c)' /\ Counted(c)'
    BY DEF Sound, Clear, Counted
  <1>3. DataApart'
    <2>1. DataApart /\ Indexed' = Indexed
      BY DEF Sound, Indexed
    <2> QED
      BY <2>1 DEF DataApart, Logged
  <1>4. Once(L)'
    BY DEF Sound, Once, InUse
  <1>5. FreshIn(L)'
    <2>1. DOMAIN <<>> = {}
      OBVIOUS
    <2> QED
      BY <2>1 DEF Sound, FreshIn
  <1>6. IndexIn(L)'
    <2>1. DOMAIN <<>> = {}
      OBVIOUS
    <2> QED
      BY <2>1 DEF Sound, IndexIn
  <1>7. Sound(c, L)'
    BY <1>1, <1>2, <1>3, <1>4, <1>5, <1>6 DEF Sound
  <1> QED
    BY <1>7 DEF WellFormed

LEMMA WriteBegins ==
  ASSUME TypeOK, NEW c, NEW L, Sound(c, L), NEW f \in File, BeginWrite(f)
  PROVE  TypeOK' /\ WellFormed'
  <1> USE DEF pool, inodes
  <1>1. PICK i \in FilePage : \E j \in i..(NumFilePages - 1) :
          left' = [k \in 1..(j - i + 1) |-> i + k - 1]
    BY DEF BeginWrite
  <1>2. PICK j \in i..(NumFilePages - 1) : left' = [k \in 1..(j - i + 1) |-> i + k - 1]
    BY <1>1
  <1>3. i \in Nat /\ j \in Nat /\ i <= j /\ j < NumFilePages /\ j - i + 1 \in Nat
    BY <1>2, PagesCounted DEF FilePage
  <1>4. /\ left' \in Seq(FilePage)
        /\ \A k \in 1..Len(left') : left'[k] = left'[1] + k - 1
    <2>1. \A k \in 1..(j - i + 1) : i + k - 1 \in FilePage
      BY <1>3, PagesCounted DEF FilePage
    <2>2. left' \in Seq(FilePage) /\ Len(left') = j - i + 1
      BY <1>2, <1>3, <2>1
    <2>3. \A k \in 1..(j - i + 1) : left'[k] = i + k - 1
      BY <1>2
    <2>4. 1 \in 1..(j - i + 1)
      BY <1>3
    <2>5. left'[1] = i
      BY <1>3, <2>3, <2>4
    <2> QED
      BY <1>3, <2>2, <2>3, <2>5
  <1>5. writes' \in 0..MaxWrites
    BY PagesCounted DEF BeginWrite, TypeOK
  <1>6. TypeOK'
    BY <1>4, <1>5 DEF TypeOK, BeginWrite
  <1>7. CallShape'
    BY <1>4 DEF CallShape, Sound, BeginWrite
  <1>8. Walks(c)'
    BY DEF Walks, BeginWrite
  <1>9. fresh = <<>> /\ runs = <<>>
    BY DEF Sound, CallShape, BeginWrite
  <1> QED
    BY <1>6, <1>7, <1>8, <1>9, QuietStep DEF BeginWrite

LEMMA WriteEnds ==
  ASSUME TypeOK, NEW c, NEW L, Sound(c, L), EndWrite
  PROVE  TypeOK' /\ WellFormed'
  <1> USE DEF pool, inodes
  <1>1. TypeOK'
    BY DEF TypeOK, EndWrite
  <1>2. CallShape'
    BY DEF CallShape, Sound, EndWrite
  <1>3. Walks(c)'
    BY DEF Walks, EndWrite
  <1> QED
    BY <1>1, <1>2, <1>3, QuietStep DEF EndWrite

LEMMA ScanBegins ==
  ASSUME TypeOK, NEW c, NEW L, Sound(c, L), NEW f \in File, BeginScan(f)
  PROVE  TypeOK' /\ WellFormed'
  <1> USE DEF pool, inodes
  <1>1. scan' = [at |-> head[f], prev |-> NoPage, stop |-> tail[f].page,
                 block |-> NoPage, dead |-> {}]
    BY DEF BeginScan, NoScan
  <1>2. scan' \in [at : Page \cup {NoPage}, prev : Page \cup {NoPage}, stop : Page \cup {NoPage},
                   block : Page \cup {NoPage}, dead : SUBSET Page]
    BY <1>1, TypeFacts
  <1>3. TypeOK'
    BY <1>2 DEF TypeOK, BeginScan
  <1>4. /\ fresh = <<>> /\ runs = <<>> /\ left = <<>> /\ scan.block = NoPage /\ scan.dead = {}
        /\ pc' = "scan" /\ file' = f
    BY DEF Sound, CallShape, BeginScan
  <1>5. CallShape'
    <2>1. scan'.block = NoPage /\ scan'.dead = {}
      BY <1>1
    <2>2. UNCHANGED <<left, fresh, runs>> /\ Len(<<>>) = 0
      BY DEF BeginScan
    <2> QED
      BY <1>4, <2>1, <2>2 DEF CallShape
  <1>6. Walks(c)'
    <2> DEFINE s == c[f]
    <2>1. s \in Seq(Page) /\ Chained(head[f], tail[f].page, next, s)
      BY DEF Sound, Lines
    <2>2. head[f] # tail[f].page
      BY DEF BeginScan
    <2> HIDE DEF s
    <2>3. /\ s # <<>> /\ 1 \in 1..Len(s) /\ Len(s) \in 1..Len(s)
          /\ head[f] = s[1] /\ tail[f].page = s[Len(s)]
      BY <2>1, <2>2, ChainEnds
    <2>4. Scanning(s)'
      BY <1>1, <2>3 DEF Scanning
    <2> QED
      BY <1>4, <2>4 DEF Walks, s
  <1>7. scan'.dead = scan.dead /\ scan'.block = scan.block
    BY <1>1, <1>4
  <1>8. UNCHANGED <<free, next, node, isData, memory, head, tail, index, fresh, runs>>
    BY DEF BeginScan
  <1> QED
    BY <1>3, <1>4, <1>5, <1>6, <1>7, <1>8, QuietStep

LEMMA PageSkipped ==
  ASSUME TypeOK, NEW c, NEW L, Sound(c, L), SkipPage
  PROVE  TypeOK' /\ WellFormed'
  <1> USE DEF pool, inodes
  <1>0. PICK s : s = c[file]
    OBVIOUS
  <1>1. /\ s \in Seq(Page) /\ Chained(head[file], tail[file].page, next, s)
        /\ Scanning(s) /\ pc = "scan" /\ pc' = "scan" /\ file' = file /\ scan.at # scan.stop
    BY <1>0, TypeFacts DEF Sound, Lines, Walks, SkipPage
  <1>2. PICK k \in 1..Len(s) : /\ scan.at = s[k]
                               /\ k > 1 => scan.prev = s[k - 1]
                               /\ \E m \in k..Len(s) : scan.stop = s[m]
    BY <1>1 DEF Scanning
  <1>3. PICK m \in k..Len(s) : scan.stop = s[m]
    BY <1>2
  <1>4. k + 1 \in 1..Len(s) /\ m \in (k + 1)..Len(s) /\ (k + 1) - 1 = k
    <2>1. k # m /\ Len(s) \in Nat
      BY <1>1, <1>2, <1>3
    <2> QED
      BY <2>1
  <1>5. next[scan.at] = s[k + 1] /\ s[k + 1] \in Page /\ s[k] \in Page
    <2>1. k \in 1..(Len(s) - 1)
      <3>1. Len(s) \in Nat
        BY <1>1
      <3> QED
        BY <1>4, <3>1
    <2>2. \A i \in 1..(Len(s) - 1) : next[s[i]] = s[i + 1]
      BY <1>1 DEF Chained
    <2>3. \A i \in 1..Len(s) : s[i] \in Page
      BY <1>1
    <2> QED
      BY <1>2, <1>4, <2>1, <2>2, <2>3
  <1>6. /\ scan'.at = s[k + 1] /\ scan'.prev = s[k] /\ scan'.stop = scan.stop
        /\ scan'.block = scan.block /\ scan'.dead = scan.dead
        /\ scan' \in [at : Page \cup {NoPage}, prev : Page \cup {NoPage}, stop : Page \cup {NoPage},
                      block : Page \cup {NoPage}, dead : SUBSET Page]
    <2>1. scan \in [at : Page \cup {NoPage}, prev : Page \cup {NoPage}, stop : Page \cup {NoPage},
                    block : Page \cup {NoPage}, dead : SUBSET Page]
      BY DEF TypeOK
    <2>2. scan' = [scan EXCEPT !.prev = s[k], !.at = s[k + 1]]
      BY <1>2, <1>5 DEF SkipPage
    <2> QED
      BY <1>5, <2>1, <2>2
  <1>7. TypeOK'
    BY <1>6 DEF TypeOK, SkipPage
  <1>8. CallShape'
    BY <1>6 DEF CallShape, Sound, SkipPage
  <1>9. Walks(c)'
    <2>1. /\ scan'.at = s[k + 1]
          /\ k + 1 > 1 => scan'.prev = s[(k + 1) - 1]
          /\ \E j \in (k + 1)..Len(s) : scan'.stop = s[j]
      BY <1>3, <1>4, <1>6
    <2>2. Scanning(s)'
      BY <1>4, <2>1 DEF Scanning
    <2> QED
      BY <1>0, <1>1, <2>2 DEF Walks
  <1>10. UNCHANGED <<free, next, node, isData, memory, head, tail, index, fresh, runs, file>>
    BY DEF SkipPage
  <1> QED
    BY <1>6, <1>7, <1>8, <1>9, <1>10, QuietStep

LEMMA ScanEnds ==
  ASSUME TypeOK, NEW c, NEW L, Sound(c, L), EndScan
  PROVE  TypeOK' /\ WellFormed'
  <1> USE DEF pool, inodes
  <1>1. TypeOK'
    BY DEF TypeOK, EndScan, NoScan
  <1>2. scan.block = NoPage /\ scan.dead = {} /\ scan'.block = NoPage /\ scan'.dead = {}
    BY DEF Sound, CallShape, EndScan, NoScan
  <1>3. CallShape'
    BY <1>2 DEF CallShape, Sound, EndScan
  <1>4. Walks(c)'
    BY DEF Walks, EndScan
  <1> QED
    BY <1>1, <1>2, <1>3, <1>4, QuietStep DEF EndScan

LEMMA PoolRunsDry ==
  ASSUME TypeOK, RunDry
  PROVE  TypeOK' /\ fault' # "none"
  BY DEF RunDry, TypeOK, pool, inodes
-----------------------------------------------------------------------------
(* Steps that leave the entries of the logs as they are.                   *)
LEMMA EntriesKept ==
  ASSUME NEW L, Once(L), FreshIn(L), IndexIn(L), file \in File,
         UNCHANGED <<index, fresh, runs, file>>,
         isData \ (free \cup scan.dead) \subseteq isData' \ (free' \cup scan'.dead),
         \A f \in File : \A i \in FilePage :
           index[f][i] \in scan.dead => index[f][i] \in scan'.dead,
         \A f \in File : \A a \in L[f] : memory'[a.page][a.slot] = memory[a.page][a.slot]
  PROVE  Once(L)' /\ FreshIn(L)' /\ IndexIn(L)'
  <1> DEFINE used == isData \ (free \cup scan.dead)
             now == isData' \ (free' \cup scan'.dead)
             Uses(e, S) == e.data # <<>> /\ IsInjective(e.data) /\ Range(e.data) \subseteq S
  <1>1. /\ \A f \in File : \A a \in L[f] : Uses(memory[a.page][a.slot], used)
        /\ \A r \in DOMAIN runs : Uses(runs[r], used)
    BY DEF Once, InUse
  <1>2. Once(L)'
    <2>1. used \subseteq now
      OBVIOUS
    <2> HIDE DEF used, now
    <2>2. \A f \in File : \A a \in L[f] : Uses(memory'[a.page][a.slot], now)
      BY <1>1, <2>1
    <2>3. \A r \in DOMAIN runs' : Uses(runs'[r], now)
      BY <1>1, <2>1
    <2> HIDE DEF Uses
    <2>4. /\ \A f, g \in File : \A a \in L[f], b \in L[g] :
               a # b => Disjoint(memory'[a.page][a.slot], memory'[b.page][b.slot])
          /\ \A r, t \in DOMAIN runs' : r # t => Disjoint(runs'[r], runs'[t])
          /\ \A f \in File : \A a \in L[f], r \in DOMAIN runs' :
               Disjoint(memory'[a.page][a.slot], runs'[r])
      BY DEF Once
    <2> QED
      BY <2>2, <2>3, <2>4 DEF Once, InUse, Uses, now
  <1>3. FreshIn(L)'
    BY DEF FreshIn
  <1>4. IndexIn(L)'
    <2> SUFFICES ASSUME NEW f \in File, NEW i \in FilePage, index[f][i] # NoPage
                 PROVE  \/ \E a \in L[f] : Names(memory'[a.page][a.slot], i, index[f][i])
                        \/ file = f /\ \E r \in DOMAIN runs : Names(runs[r], i, index[f][i])
                        \/ index[f][i] \in scan'.dead
      BY DEF IndexIn
    <2> QED
      BY DEF IndexIn
  <1> QED
    BY <1>2, <1>3, <1>4

LEMMA LogPageMade ==
  ASSUME TypeOK, NEW p \in Page
  PROVE  /\ AsLogPage(p) \in [Page -> [0..(Slots - 1) -> LogEntry]]
         /\ \A q \in Page : q # p => AsLogPage(p)[q] = memory[q]
  <1>1. NoEntry \in LogEntry
    <2>1. <<>> \in Seq(Page) /\ Len(<<>>) = 0
      OBVIOUS
    <2>2. /\ {} \in SUBSET (0..63) /\ 0 \in Nat /\ 0 < NumFilePages
          /\ 0 + Len(<<>>) <= NumFilePages /\ Len(<<>>) <= MaxPerEntry
      BY <2>1, PagesCounted
    <2> QED
      BY <2>1, <2>2, EntryMade DEF NoEntry
  <1>2. memory \in [Page -> [0..(Slots - 1) -> LogEntry]]
    BY DEF TypeOK
  <1> QED
    BY <1>1, <1>2 DEF AsLogPage

(* The page of every place is a page of the chain.                         *)
LEMMA PlacesIn ==
  ASSUME NEW c, NEW L, Sound(c, L), NEW f \in File, NEW a \in L[f]
  PROVE  /\ a.page \in Range(c[f]) /\ a.page \in Page /\ a.slot \in 0..(Slots - 1)
         /\ a.slot < IF a.page = tail[f].page THEN tail[f].slot ELSE Slots
         /\ a = [page |-> a.page, slot |-> a.slot]
  <1>1. a \in Places(c[f], tail[f]) /\ c[f] \in Seq(Page)
    BY DEF Sound, Lines
  <1>2. a \in [page : Range(c[f]), slot : 0..(Slots - 1)]
    BY <1>1 DEF Places
  <1>3. Range(c[f]) \subseteq Page
    BY <1>1 DEF Range
  <1> QED
    BY <1>1, <1>2, <1>3 DEF Places

LEMMA LogCreated ==
  ASSUME TypeOK, NEW c, NEW L, Sound(c, L), NEW f \in File, Create(f)
  PROVE  TypeOK' /\ WellFormed'
  <1>1. PICK p \in free :
          /\ free' = free \ {p}
          /\ next' = [next EXCEPT ![p] = NoPage]
          /\ isData' = isData \ {p}
          /\ memory' = AsLogPage(p)
          /\ head' = [head EXCEPT ![f] = p]
          /\ tail' = [tail EXCEPT ![f] = [page |-> p, slot |-> 0]]
    BY DEF Create
  <1>2. /\ pc = "idle" /\ head[f] = NoPage
        /\ UNCHANGED <<node, origin, index, pc, file, left, fresh, scan, runs, writes, fault>>
    BY DEF Create
  <1>3. p \in Page /\ p # NoPage
    BY <1>1, TypeFacts, PagesCounted
  <1>4. /\ memory' \in [Page -> [0..(Slots - 1) -> LogEntry]]
        /\ \A q \in Page : q # p => memory'[q] = memory[q]
    BY <1>1, <1>3, LogPageMade
  <1>5. /\ head \in [File -> Page \cup {NoPage}]
        /\ tail \in [File -> [page : Page \cup {NoPage}, slot : 0..Slots]]
        /\ next \in [Page -> Page \cup {NoPage}]
    BY DEF TypeOK
  <1>6. TypeOK'
    <2>1. 0 \in 0..Slots
      BY PagesCounted
    <2>2. free' \subseteq Page /\ isData' \subseteq Page
      BY <1>1, TypeFacts
    <2>3. /\ next' \in [Page -> Page \cup {NoPage}]
          /\ head' \in [File -> Page \cup {NoPage}]
      BY <1>1, <1>3, <1>5
    <2>4. tail' \in [File -> [page : Page \cup {NoPage}, slot : 0..Slots]]
      BY <1>1, <1>3, <1>5, <2>1
    <2> QED
      BY <1>2, <1>4, <2>2, <2>3, <2>4 DEF TypeOK
  <1>7. /\ head'[f] = p /\ tail'[f] = [page |-> p, slot |-> 0]
        /\ \A g \in File : g # f => head'[g] = head[g] /\ tail'[g] = tail[g]
    BY <1>1, <1>5
  <1>8. \A g \in File : c[g] \in Seq(Page) /\ Chained(head[g], tail[g].page, next, c[g])
                        /\ p \notin Range(c[g])
    BY <1>1 DEF Sound, Lines, Clear
  <1>9. c[f] = <<>>
    BY <1>2, <1>8, ChainEnds
  <1> DEFINE d == [c EXCEPT ![f] = <<p>>]
  <1>10. /\ d \in [File -> Seq(Page)] /\ d[f] = <<p>> /\ Range(d[f]) = {p}
         /\ \A g \in File : g # f => d[g] = c[g]
    <2>1. c \in [File -> Seq(Page)]
      BY DEF Sound, Lines
    <2>2. Range(<<p>>) = {p} /\ <<p>> \in Seq(Page)
      BY <1>3 DEF Range
    <2> QED
      BY <2>1, <2>2
  <1> HIDE DEF d
  <1>11. \A g \in File : g # f => Chained(head'[g], tail'[g].page, next', d[g])
    <2> SUFFICES ASSUME NEW g \in File, g # f
                 PROVE  Chained(head[g], tail[g].page, next', c[g])
      BY <1>7, <1>10
    <2>1. \A q \in Range(c[g]) : next'[q] = next[q]
      <3>1. Range(c[g]) \subseteq Page
        BY <1>8 DEF Range
      <3> QED
        BY <1>1, <1>5, <1>8, <3>1
    <2> QED
      BY <1>8, <2>1, SameChain
  <1>12. Chained(head'[f], tail'[f].page, next', d[f])
    <2>1. Len(<<p>>) = 1 /\ <<p>>[1] = p /\ <<p>> # <<>> /\ DOMAIN <<p>> = {1} /\ 1..(1 - 1) = {}
      OBVIOUS
    <2>2. Chained(p, p, next', <<p>>)
      BY <2>1 DEF Chained, IsInjective
    <2> QED
      BY <1>7, <1>10, <2>2
  <1>13. ASSUME NEW g \in File, NEW h \in File, g # h PROVE Range(d[g]) \cap Range(d[h]) = {}
    <2>1. g # f /\ h # f => Range(c[g]) \cap Range(c[h]) = {}
      BY <1>13 DEF Sound, Lines
    <2> QED
      BY <1>8, <1>10, <1>13, <2>1
  <1>14. Lines(d)'
    BY <1>10, <1>11, <1>12, <1>13 DEF Lines
  <1>15. scan.block = NoPage
    BY <1>2 DEF Sound, CallShape
  <1>16. Clear(d)'
    <2> SUFFICES ASSUME NEW g \in File
                 PROVE  Range(d[g]) \cap (free' \cup isData' \cup {scan.block}) = {}
      BY <1>2 DEF Clear
    <2>1. CASE g = f
      BY <1>1, <1>3, <1>10, <1>15, <2>1
    <2>2. CASE g # f
      <3>1. Range(c[g]) \cap (free \cup isData \cup {scan.block}) = {}
        BY DEF Sound, Clear
      <3> QED
        BY <1>1, <1>10, <2>2, <3>1
    <2> QED
      BY <2>1, <2>2
  <1>17. (L = [g \in File |-> Places(d[g], tail[g])])'
    <2>1. L = [g \in File |-> Places(c[g], tail[g])]
      BY DEF Sound
    <2>2. Places(c[f], tail[f]) = {}
      <3>1. Range(<<>>) = {}
        BY DEF Range
      <3> QED
        BY <1>9, <3>1 DEF Places
    <2>3. Places(d[f], tail'[f]) = {}
      <3> SUFFICES ASSUME NEW a \in [page : {p}, slot : 0..(Slots - 1)], a.slot < 0 PROVE FALSE
        BY <1>7, <1>10 DEF Places
      <3> QED
        BY PagesCounted
    <2>4. \A g \in File : Places(d[g], tail'[g]) = Places(c[g], tail[g])
      BY <1>7, <1>10, <2>2, <2>3
    <2> QED
      BY <2>1, <2>4
  <1>18. Walks(d)'
    BY <1>2 DEF Walks
  <1>19. Counted(d)'
    <2>1. node[p].obj >= 0
      BY <1>3, TypeFacts
    <2>2. Counted(c)
      BY DEF Sound
    <2> QED
      BY <1>2, <1>7, <1>10, <2>1, <2>2 DEF Counted
  <1>20. CallShape'
    BY <1>2 DEF CallShape, Sound
  <1>21. DataApart'
    <2>1. DataApart
      BY DEF Sound
    <2>2. Indexed' = Indexed /\ Logged' = Logged
      BY <1>2 DEF Indexed, Logged
    <2> QED
      BY <1>1, <1>2, <2>1, <2>2 DEF DataApart
  <1>22. Once(L)' /\ FreshIn(L)' /\ IndexIn(L)'
    <2>1. \A g \in File : \A a \in L[g] : memory'[a.page][a.slot] = memory[a.page][a.slot]
      BY <1>4, <1>8, PlacesIn
    <2>2. isData \ (free \cup scan.dead) \subseteq isData' \ (free' \cup scan'.dead)
      BY <1>1, <1>2
    <2>3. Once(L) /\ FreshIn(L) /\ IndexIn(L)
      BY DEF Sound
    <2>4. file \in File
      BY TypeFacts
    <2> QED
      BY <1>2, <2>1, <2>2, <2>3, <2>4, EntriesKept
  <1> QED
    BY <1>6, <1>14, <1>16, <1>17, <1>18, <1>19, <1>20, <1>21, <1>22 DEF WellFormed, Sound
-----------------------------------------------------------------------------
(* One more entry in the log, on the last page or on a new one.            *)
LEMMA PlacesGrow ==
  ASSUME NEW s \in Seq(Page), NEW t, t \in Range(s), NEW n \in 0..(Slots - 1)
  PROVE  Places(s, [page |-> t, slot |-> n + 1]) =
           Places(s, [page |-> t, slot |-> n]) \cup {[page |-> t, slot |-> n]}
  <1> DEFINE A == [page : Range(s), slot : 0..(Slots - 1)]
  <1>1. n \in Nat /\ Slots \in Nat
    BY PagesCounted
  <1>2. [page |-> t, slot |-> n] \in A
    OBVIOUS
  <1>3. ASSUME NEW a \in A
        PROVE  (a.slot < IF a.page = t THEN n + 1 ELSE Slots) <=>
                 ((a.slot < IF a.page = t THEN n ELSE Slots) \/ a = [page |-> t, slot |-> n])
    <2>1. a.slot \in 0..(Slots - 1) /\ a = [page |-> a.page, slot |-> a.slot]
      BY <1>3
    <2>2. a = [page |-> t, slot |-> n] <=> a.page = t /\ a.slot = n
      BY <2>1
    <2> HIDE DEF A
    <2> QED
      BY <1>1, <2>1, <2>2
  <1>4. ([page |-> t, slot |-> n]).page = t /\ ([page |-> t, slot |-> n]).slot = n
        /\ ([page |-> t, slot |-> n + 1]).page = t /\ ([page |-> t, slot |-> n + 1]).slot = n + 1
    OBVIOUS
  <1>5. /\ Places(s, [page |-> t, slot |-> n + 1]) =
             {a \in A : a.slot < IF a.page = t THEN n + 1 ELSE Slots}
        /\ Places(s, [page |-> t, slot |-> n]) =
             {a \in A : a.slot < IF a.page = t THEN n ELSE Slots}
    BY <1>4 DEF Places
  <1> HIDE DEF A
  <1> QED
    BY <1>2, <1>3, <1>5

LEMMA PlacesExtend ==
  ASSUME NEW s \in Seq(Page), NEW r, NEW t, NEW p,
         Range(r) = Range(s) \cup {p}, p \notin Range(s), t \in Range(s)
  PROVE  Places(r, [page |-> p, slot |-> 1]) =
           Places(s, [page |-> t, slot |-> Slots]) \cup {[page |-> p, slot |-> 0]}
  <1>1. 0 \in 0..(Slots - 1) /\ \A n \in 0..(Slots - 1) : n < Slots /\ (n < 1 <=> n = 0)
    BY PagesCounted
  <1>2. ([page |-> t, slot |-> Slots]).page = t /\ ([page |-> t, slot |-> Slots]).slot = Slots
        /\ ([page |-> p, slot |-> 1]).page = p /\ ([page |-> p, slot |-> 1]).slot = 1
    OBVIOUS
  <1> DEFINE A == [page : Range(s), slot : 0..(Slots - 1)]
             B == [page : Range(r), slot : 0..(Slots - 1)]
  <1>3. Places(s, [page |-> t, slot |-> Slots]) = A
    BY <1>1, <1>2 DEF Places
  <1>4. ASSUME NEW a \in B
        PROVE  (a.slot < IF a.page = p THEN 1 ELSE Slots)
                 <=> (a \in A \/ a = [page |-> p, slot |-> 0])
    <2>1. /\ a.slot \in 0..(Slots - 1) /\ a = [page |-> a.page, slot |-> a.slot]
          /\ a.page \in Range(s) \cup {p}
      BY <1>4
    <2>2. a \in A <=> a.page # p
      BY <2>1
    <2>3. a = [page |-> p, slot |-> 0] <=> a.page = p /\ a.slot = 0
      BY <2>1
    <2> HIDE DEF A, B
    <2> QED
      BY <1>1, <2>1, <2>2, <2>3
  <1>5. A \subseteq B /\ [page |-> p, slot |-> 0] \in B
    BY <1>1
  <1>6. Places(r, [page |-> p, slot |-> 1]) =
          {a \in B : a.slot < IF a.page = p THEN 1 ELSE Slots}
    BY <1>2 DEF Places
  <1> HIDE DEF A, B
  <1> QED
    BY <1>3, <1>4, <1>5, <1>6

(* Where the entry goes.                                                   *)
LEMMA TargetIs ==
  ASSUME TypeOK, NEW c, NEW L, Sound(c, L), head[file] # NoPage,
         NEW lp, lp \in NewLogPage(file, free)
  PROVE  /\ c[file] \in Seq(Page) /\ c[file] # <<>>
         /\ Chained(head[file], tail[file].page, next, c[file])
         /\ tail[file].page \in Range(c[file]) /\ tail[file].page \in Page
         /\ tail[file] = [page |-> tail[file].page, slot |-> tail[file].slot]
         /\ tail[file].slot \in 0..Slots
         /\ Full(file) => /\ lp \in free /\ lp \in Page /\ tail[file].slot = Slots
                          /\ \A f \in File : lp \notin Range(c[f])
                          /\ Target(file, lp) = [page |-> lp, slot |-> 0]
         /\ ~Full(file) => /\ lp = NoPage /\ tail[file].slot \in 0..(Slots - 1)
                           /\ Target(file, lp) = tail[file]
         /\ Target(file, lp).page \in Page /\ Target(file, lp).slot \in 0..(Slots - 1)
         /\ Target(file, lp) = [page |-> Target(file, lp).page, slot |-> Target(file, lp).slot]
  <1>1. file \in File /\ c[file] \in Seq(Page) /\ Chained(head[file], tail[file].page, next, c[file])
    BY TypeFacts DEF Sound, Lines
  <1>2. c[file] # <<>> /\ tail[file].page \in Range(c[file])
    BY <1>1, ChainEnds
  <1>3. tail[file].page \in Page
    BY <1>1, <1>2 DEF Range
  <1>4. /\ tail[file] = [page |-> tail[file].page, slot |-> tail[file].slot]
        /\ tail[file].slot \in 0..Slots
    <2>1. tail[file] \in [page : Page \cup {NoPage}, slot : 0..Slots]
      BY <1>1, TypeFacts
    <2> QED
      BY <2>1
  <1>5. Full(file) => /\ lp \in free /\ lp \in Page /\ tail[file].slot = Slots
                      /\ \A f \in File : lp \notin Range(c[f])
                      /\ Target(file, lp) = [page |-> lp, slot |-> 0]
    BY TypeFacts DEF Full, NewLogPage, Target, Sound, Clear
  <1>6. ~Full(file) => /\ lp = NoPage /\ tail[file].slot \in 0..(Slots - 1)
                       /\ Target(file, lp) = tail[file]
    <2>1. tail[file].slot # Slots => tail[file].slot \in 0..(Slots - 1)
      BY <1>4, PagesCounted
    <2> QED
      BY <2>1 DEF Full, NewLogPage, Target
  <1>7. 0 \in 0..(Slots - 1)
    BY PagesCounted
  <1>8. Target(file, lp).page \in Page /\ Target(file, lp).slot \in 0..(Slots - 1)
        /\ Target(file, lp) = [page |-> Target(file, lp).page, slot |-> Target(file, lp).slot]
    <2>1. CASE Full(file)
      BY <1>5, <1>7, <2>1
    <2>2. CASE ~Full(file)
      BY <1>3, <1>4, <1>6, <2>2
    <2> QED
      BY <2>1, <2>2
  <1> QED
    BY <1>1, <1>2, <1>3, <1>4, <1>5, <1>6, <1>8
Placed(c, L) == L = [f \in File |-> Places(c[f], tail[f])]

Appends(c, L, e, lp, D, d, M) ==
  /\ Sound(c, L) /\ head[file] # NoPage
  /\ lp \in NewLogPage(file, free) /\ e \in LogEntry /\ AppendEntry(file, e, lp)
  /\ UNCHANGED <<head, file, scan>>
  /\ D \in SUBSET free /\ lp \notin D
  /\ free' = free \ (D \cup {lp}) /\ isData' = (isData \cup D) \ {lp}
  /\ d = IF Full(file) THEN [c EXCEPT ![file] = Append(@, lp)] ELSE c
  /\ M = [f \in File |-> IF f = file THEN L[f] \cup {Target(file, lp)} ELSE L[f]]

LEMMA EntryAppended ==
  ASSUME TypeOK, NEW c, NEW L, NEW e, NEW lp, NEW D, NEW d, NEW M,
         Appends(c, L, e, lp, D, d, M), NEW a, a = Target(file, lp)
  PROVE  /\ free' \subseteq Page /\ isData' \subseteq Page
         /\ next' \in [Page -> Page \cup {NoPage}]
         /\ node' \in [Page -> [obj : Nat, invalid : Nat, pages : Nat, invalidPages : Nat]]
         /\ memory' \in [Page -> [0..(Slots - 1) -> LogEntry]]
         /\ tail' \in [File -> [page : Page \cup {NoPage}, slot : 0..Slots]]
         /\ Lines(d)' /\ Placed(d, M)'
         /\ Clear(d)' /\ Counted(d)'
         /\ \A k \in 1..Len(c[file]) : k \in 1..Len(d[file]) /\ d[file][k] = c[file][k]
         /\ memory'[a.page][a.slot] = e
         /\ \A f \in File : a \notin L[f]
         /\ \A f \in File : \A b \in L[f] : memory'[b.page][b.slot] = memory[b.page][b.slot]
  <1>0. /\ Sound(c, L) /\ head[file] # NoPage
        /\ lp \in NewLogPage(file, free) /\ e \in LogEntry /\ AppendEntry(file, e, lp)
        /\ UNCHANGED <<head, file, scan>>
        /\ D \in SUBSET free /\ lp \notin D
        /\ free' = free \ (D \cup {lp}) /\ isData' = (isData \cup D) \ {lp}
        /\ d = IF Full(file) THEN [c EXCEPT ![file] = Append(@, lp)] ELSE c
        /\ M = [f \in File |-> IF f = file THEN L[f] \cup {a} ELSE L[f]]
    BY DEF Appends
  <1> USE <1>0
  <1>1. PICK s, t, n : s = c[file] /\ t = tail[file].page /\ n = tail[file].slot
    OBVIOUS
  <1>2. file \in File /\ t \in Page /\ t # NoPage /\ t \in Range(s) /\ s \in Seq(Page) /\ s # <<>>
        /\ Chained(head[file], t, next, s) /\ tail[file] = [page |-> t, slot |-> n]
        /\ n \in 0..Slots /\ n \in Nat
    <2>1. /\ c[file] \in Seq(Page) /\ c[file] # <<>>
          /\ Chained(head[file], tail[file].page, next, c[file])
          /\ tail[file].page \in Range(c[file]) /\ tail[file].page \in Page
          /\ tail[file] = [page |-> tail[file].page, slot |-> tail[file].slot]
          /\ tail[file].slot \in 0..Slots
      BY TargetIs
    <2>2. /\ s \in Seq(Page) /\ s # <<>> /\ Chained(head[file], t, next, s)
          /\ t \in Range(s) /\ t \in Page /\ n \in 0..Slots
      BY <1>1, <2>1
    <2>3. tail[file] = [page |-> t, slot |-> n]
      BY <1>1, <2>1
    <2>4. file \in File /\ t # NoPage /\ n \in Nat
      BY <2>2, TypeFacts, PagesCounted
    <2> QED
      BY <2>2, <2>3, <2>4
  <1>3. /\ Full(file) => /\ lp \in free /\ lp \in Page /\ n = Slots
                         /\ \A f \in File : lp \notin Range(c[f])
                         /\ a = [page |-> lp, slot |-> 0]
        /\ ~Full(file) => /\ lp = NoPage /\ n \in 0..(Slots - 1)
                          /\ a = [page |-> t, slot |-> n]
        /\ a.page \in Page /\ a.slot \in 0..(Slots - 1)
        /\ a = [page |-> a.page, slot |-> a.slot]
    BY <1>1, <1>2, TargetIs
  <1>4. /\ c \in [File -> Seq(Page)]
        /\ \A f \in File : /\ c[f] \in Seq(Page) /\ Chained(head[f], tail[f].page, next, c[f])
                           /\ Range(c[f]) \subseteq Page
                           /\ Range(c[f]) \cap (free \cup isData \cup {scan.block}) = {}
        /\ \A f, g \in File : f # g => Range(c[f]) \cap Range(c[g]) = {}
    <2>1. \A f \in File : c[f] \in Seq(Page)
      BY DEF Sound, Lines
    <2>2. \A f \in File : Range(c[f]) \subseteq Page
      BY <2>1 DEF Range
    <2> QED
      BY <2>2 DEF Sound, Lines, Clear
  <1>5. /\ next' = IF Full(file) THEN [next EXCEPT ![t] = lp, ![lp] = NoPage] ELSE next
        /\ node' = [node EXCEPT ![a.page] =
                      [(IF Full(file) THEN Counters ELSE node[a.page])
                          EXCEPT !.obj = @ + 1, !.pages = @ + Len(e.data)]]
        /\ memory' = [AsLogPage(a.page) EXCEPT ![a.page][a.slot] = e]
        /\ tail' = [tail EXCEPT ![file] = [page |-> a.page, slot |-> a.slot + 1]]
    BY <1>1 DEF AppendEntry
  <1>6. /\ next \in [Page -> Page \cup {NoPage}]
        /\ node \in [Page -> [obj : Nat, invalid : Nat, pages : Nat, invalidPages : Nat]]
        /\ tail \in [File -> [page : Page \cup {NoPage}, slot : 0..Slots]]
        /\ memory \in [Page -> [0..(Slots - 1) -> LogEntry]]
    BY DEF TypeOK
  <1>7. a.slot + 1 \in 0..Slots
    BY <1>3, PagesCounted
  <1>8. /\ tail'[file] = [page |-> a.page, slot |-> a.slot + 1]
        /\ \A f \in File : f # file => tail'[f] = tail[f]
        /\ tail' \in [File -> [page : Page \cup {NoPage}, slot : 0..Slots]]
    BY <1>2, <1>3, <1>5, <1>6, <1>7
  <1>9. /\ node' \in [Page -> [obj : Nat, invalid : Nat, pages : Nat, invalidPages : Nat]]
        /\ \A p \in Page : p # a.page => node'[p] = node[p]
        /\ node'[a.page].obj = (IF Full(file) THEN 0 ELSE node[a.page].obj) + 1
    <2>1. PICK old : old = IF Full(file) THEN Counters ELSE node[a.page]
      OBVIOUS
    <2>2. old \in [obj : Nat, invalid : Nat, pages : Nat, invalidPages : Nat]
      BY <1>3, <1>6, <2>1 DEF Counters
    <2>3. Len(e.data) \in Nat
      BY EntryType
    <2>4. PICK new : new = [old EXCEPT !.obj = @ + 1, !.pages = @ + Len(e.data)]
      OBVIOUS
    <2>5. new \in [obj : Nat, invalid : Nat, pages : Nat, invalidPages : Nat]
          /\ new.obj = old.obj + 1
      <3>1. new = [obj |-> old.obj + 1, invalid |-> old.invalid,
                   pages |-> old.pages + Len(e.data), invalidPages |-> old.invalidPages]
        BY <2>2, <2>4
      <3>2. old.obj \in Nat /\ old.invalid \in Nat /\ old.pages \in Nat /\ old.invalidPages \in Nat
        BY <2>2
      <3> QED
        BY <2>3, <3>1, <3>2
    <2>6. node' = [node EXCEPT ![a.page] = new]
      BY <1>5, <2>1, <2>4
    <2>7. old.obj = IF Full(file) THEN 0 ELSE node[a.page].obj
      BY <2>1 DEF Counters
    <2> QED
      BY <1>3, <1>6, <2>5, <2>6, <2>7
  <1>10. /\ AsLogPage(a.page) \in [Page -> [0..(Slots - 1) -> LogEntry]]
         /\ \A q \in Page : q # a.page => AsLogPage(a.page)[q] = memory[q]
         /\ ~Full(file) => AsLogPage(a.page) = memory
    <2>1. ~Full(file) => a.page \notin isData
      BY <1>1, <1>2, <1>3, <1>4
    <2> QED
      BY <1>3, <2>1, LogPageMade DEF AsLogPage
  <1>11. /\ memory' \in [Page -> [0..(Slots - 1) -> LogEntry]]
         /\ memory'[a.page][a.slot] = e
         /\ \A q \in Page : q # a.page => memory'[q] = memory[q]
         /\ ~Full(file) => \A k \in 0..(Slots - 1) :
                             k # a.slot => memory'[a.page][k] = memory[a.page][k]
    <2>1. PICK old : old = AsLogPage(a.page)
      OBVIOUS
    <2>2. /\ memory' = [old EXCEPT ![a.page][a.slot] = e]
          /\ old \in [Page -> [0..(Slots - 1) -> LogEntry]]
          /\ \A q \in Page : q # a.page => old[q] = memory[q]
          /\ ~Full(file) => old = memory
      BY <1>5, <1>10, <2>1
    <2> QED
      BY <1>3, <2>2
  <1>12. next' \in [Page -> Page \cup {NoPage}] /\ free' \subseteq Page /\ isData' \subseteq Page
    <2>1. next' \in [Page -> Page \cup {NoPage}]
      BY <1>2, <1>3, <1>5, <1>6
    <2> QED
      BY <2>1, TypeFacts
  <1>13. \A f \in File : a \notin L[f]
    <2> SUFFICES ASSUME NEW f \in File, a \in L[f] PROVE FALSE
      OBVIOUS
    <2>1. /\ a.page \in Range(c[f])
          /\ a.slot < IF a.page = tail[f].page THEN tail[f].slot ELSE Slots
      BY PlacesIn
    <2>2. ~Full(file) /\ a.page = t /\ a.slot = n
      BY <1>3, <2>1
    <2>3. f = file
      BY <1>1, <1>2, <1>4, <2>1, <2>2
    <2>4. n < n
      BY <1>1, <2>1, <2>2, <2>3
    <2> QED
      BY <1>2, <2>4
  <1>14. ASSUME NEW f \in File, NEW b \in L[f] PROVE memory'[b.page][b.slot] = memory[b.page][b.slot]
    <2>1. /\ b.page \in Range(c[f]) /\ b.page \in Page /\ b.slot \in 0..(Slots - 1)
          /\ b = [page |-> b.page, slot |-> b.slot]
      BY PlacesIn
    <2>2. b # a
      BY <1>13
    <2>3. CASE b.page # a.page
      BY <1>11, <2>1, <2>3
    <2>4. CASE b.page = a.page
      <3>1. ~Full(file)
        BY <1>3, <2>1, <2>4
      <3>2. b.slot # a.slot
        BY <1>3, <2>1, <2>2, <2>4
      <3> QED
        BY <1>11, <2>1, <2>4, <3>1, <3>2
    <2> QED
      BY <2>3, <2>4
  <1>15. /\ Full(file) => /\ d[file] = Append(s, lp) /\ d[file] \in Seq(Page)
                          /\ Chained(head[file], lp, next', d[file])
                          /\ Range(d[file]) = Range(s) \cup {lp}
         /\ ~Full(file) => d = c
         /\ d \in [File -> Seq(Page)]
         /\ \A f \in File : f # file => d[f] = c[f]
         /\ \A k \in 1..Len(s) : k \in 1..Len(d[file]) /\ d[file][k] = s[k]
    <2>1. CASE Full(file)
      <3>1. d = [c EXCEPT ![file] = Append(s, lp)]
        BY <1>1, <2>1
      <3>2. next'[t] = lp /\ \A q \in Range(s) : q # t => next'[q] = next[q]
        <4>1. t # lp /\ \A q \in Range(s) : q \in Page /\ q # lp
          BY <1>1, <1>2, <1>3, <1>4, <2>1
        <4> QED
          BY <1>2, <1>3, <1>5, <1>6, <2>1, <4>1
      <3>3. /\ Append(s, lp) \in Seq(Page)
            /\ Chained(head[file], lp, next', Append(s, lp))
            /\ Range(Append(s, lp)) = Range(s) \cup {lp}
            /\ Len(Append(s, lp)) = Len(s) + 1
            /\ \A i \in 1..Len(s) : Append(s, lp)[i] = s[i]
        <4>1. lp \notin Range(s) /\ lp \in Page
          BY <1>1, <1>2, <1>3, <2>1
        <4> QED
          BY <1>2, <3>2, <4>1, AppendChain
      <3>4. d[file] = Append(s, lp) /\ \A f \in File : f # file => d[f] = c[f]
        BY <1>2, <1>4, <3>1
      <3>5. d \in [File -> Seq(Page)]
        BY <1>4, <3>1, <3>3
      <3>6. \A k \in 1..Len(s) : k \in 1..(Len(s) + 1)
        <4>1. Len(s) \in Nat
          BY <1>2
        <4> QED
          BY <4>1
      <3> QED
        BY <2>1, <3>3, <3>4, <3>5, <3>6
    <2>2. CASE ~Full(file)
      BY <1>1, <1>4, <2>2
    <2> QED
      BY <2>1, <2>2
  <1>16. Lines(d)'
    <2>1. ASSUME NEW f \in File PROVE Chained(head'[f], tail'[f].page, next', d[f])
      <3>1. CASE f # file
        <4>1. \A q \in Range(c[f]) : next'[q] = next[q]
          <5>1. \A q \in Range(c[f]) : q # t /\ (Full(file) => q # lp)
            BY <1>1, <1>2, <1>3, <1>4, <3>1
          <5> QED
            BY <1>2, <1>3, <1>4, <1>5, <1>6, <5>1
        <4>2. Chained(head[f], tail[f].page, next', c[f])
          BY <1>4, <4>1, SameChain
        <4> QED
          BY <1>8, <1>15, <3>1, <4>2
      <3>2. CASE f = file /\ Full(file)
        BY <1>3, <1>8, <1>15, <3>2
      <3>3. CASE f = file /\ ~Full(file)
        BY <1>1, <1>2, <1>3, <1>5, <1>8, <1>15, <3>3
      <3> QED
        BY <3>1, <3>2, <3>3
    <2>2. ASSUME NEW f \in File, NEW g \in File, f # g
          PROVE  Range(d[f]) \cap Range(d[g]) = {}
      <3>1. Range(c[f]) \cap Range(c[g]) = {}
        BY <1>4, <2>2
      <3>2. CASE Full(file)
        BY <1>1, <1>3, <1>15, <2>2, <3>1, <3>2
      <3>3. CASE ~Full(file)
        BY <1>15, <3>1, <3>3
      <3> QED
        BY <3>2, <3>3
    <2> QED
      BY <1>15, <2>1, <2>2 DEF Lines
  <1>17. Placed(d, M)'
    <2>1. L = [f \in File |-> Places(c[f], tail[f])]
      BY DEF Sound
    <2>2. Places(d[file], tail'[file]) = Places(s, tail[file]) \cup {a}
      <3>1. CASE Full(file)
        <4>1. tail'[file] = [page |-> lp, slot |-> 1]
          BY <1>3, <1>8, <3>1
        <4>2. tail[file] = [page |-> t, slot |-> Slots]
          BY <1>2, <1>3, <3>1
        <4>3. lp \notin Range(s)
          BY <1>1, <1>2, <1>3, <3>1
        <4>4. Range(d[file]) = Range(s) \cup {lp} /\ t \in Range(s) /\ s \in Seq(Page)
          BY <1>2, <1>15, <3>1
        <4>5. Places(d[file], [page |-> lp, slot |-> 1]) =
                Places(s, [page |-> t, slot |-> Slots]) \cup {[page |-> lp, slot |-> 0]}
          BY <4>3, <4>4, PlacesExtend
        <4>6. a = [page |-> lp, slot |-> 0]
          BY <1>3, <3>1
        <4> QED
          BY <4>1, <4>2, <4>5, <4>6
      <3>2. CASE ~Full(file)
        <4>1. tail'[file] = [page |-> t, slot |-> n + 1]
          BY <1>3, <1>8, <3>2
        <4> QED
          BY <1>1, <1>2, <1>3, <1>15, <3>2, <4>1, PlacesGrow
      <3> QED
        BY <3>1, <3>2
    <2>3. \A f \in File : Places(d[f], tail'[f]) = IF f = file THEN L[f] \cup {a} ELSE L[f]
      BY <1>1, <1>8, <1>15, <2>1, <2>2
    <2> QED
      BY <2>3 DEF Placed
  <1>18. Clear(d)'
    <2> SUFFICES ASSUME NEW f \in File
                 PROVE  Range(d[f]) \cap (free' \cup isData' \cup {scan.block}) = {}
      BY DEF Clear
    <2>1. Range(c[f]) \cap (free' \cup isData' \cup {scan.block}) = {}
      BY <1>4
    <2>2. CASE Full(file)
      <3>1. lp # scan.block
        BY <1>3, <2>2 DEF Sound, DataApart
      <3> QED
        BY <1>1, <1>15, <2>1, <2>2, <3>1
    <2>3. CASE ~Full(file)
      BY <1>15, <2>1, <2>3
    <2> QED
      BY <2>2, <2>3
  <1>19. Counted(d)'
    <2> SUFFICES ASSUME NEW f \in File, NEW p \in Range(d[f])
                 PROVE  node'[p].obj >= IF p = tail'[f].page THEN tail'[f].slot ELSE Slots
      BY DEF Counted
    <2>0. Counted(c)
      BY DEF Sound
    <2>1. CASE f # file
      <3>1. p \in Range(c[f]) /\ p # a.page /\ p \in Page
        BY <1>1, <1>2, <1>3, <1>4, <1>15, <2>1
      <3>2. node[p].obj >= IF p = tail[f].page THEN tail[f].slot ELSE Slots
        BY <2>0, <3>1 DEF Counted
      <3> QED
        BY <1>8, <1>9, <2>1, <3>1, <3>2
    <2>2. CASE f = file /\ p = a.page /\ Full(file)
      BY <1>3, <1>8, <1>9, <2>2
    <2>3. CASE f = file /\ p = a.page /\ ~Full(file)
      <3>1. node[t].obj >= n
        BY <1>1, <1>2, <2>0 DEF Counted
      <3>2. node'[p].obj = node[t].obj + 1 /\ tail'[f].page = p /\ tail'[f].slot = n + 1
        BY <1>3, <1>8, <1>9, <2>3
      <3>3. node[t].obj \in Nat
        BY <1>2, TypeFacts
      <3> QED
        BY <1>2, <3>1, <3>2, <3>3
    <2>4. CASE f = file /\ p # a.page
      <3>1. p \in Range(s) /\ p \in Page
        BY <1>1, <1>2, <1>3, <1>4, <1>15, <2>4
      <3>2. node[p].obj >= IF p = t THEN n ELSE Slots
        BY <1>1, <1>2, <2>0, <3>1 DEF Counted
      <3>3. p = t => n = Slots
        BY <1>3, <2>4
      <3> QED
        BY <1>8, <1>9, <2>4, <3>1, <3>2, <3>3
    <2> QED
      BY <2>1, <2>2, <2>3, <2>4
  <1> QED
    BY <1>1, <1>8, <1>9, <1>11, <1>12, <1>13, <1>14, <1>15, <1>16, <1>17, <1>18, <1>19
Joins(L, a, e, k, M) ==
  /\ Once(L) /\ file \in File /\ k \in Nat
  /\ M = [f \in File |-> IF f = file THEN L[f] \cup {a} ELSE L[f]]
  /\ \A f \in File : a \notin L[f]
  /\ memory'[a.page][a.slot] = e
  /\ \A f \in File : \A b \in L[f] : memory'[b.page][b.slot] = memory[b.page][b.slot]
  /\ isData \ (free \cup scan.dead) \subseteq isData' \ (free' \cup scan'.dead)
  /\ e.data # <<>> /\ IsInjective(e.data)
  /\ Range(e.data) \subseteq isData' \ (free' \cup scan'.dead)
  /\ \A f \in File : \A b \in L[f] : Disjoint(memory[b.page][b.slot], e)
  /\ \A r \in DOMAIN runs' : /\ r \in Nat /\ r + k \in DOMAIN runs /\ runs'[r] = runs[r + k]
                             /\ Disjoint(e, runs'[r])

LEMMA OnceGrown ==
  ASSUME NEW L, NEW a, NEW e, NEW k, NEW M, Joins(L, a, e, k, M)
  PROVE  Once(M)'
  <1>0. /\ Once(L) /\ file \in File /\ k \in Nat
        /\ M = [f \in File |-> IF f = file THEN L[f] \cup {a} ELSE L[f]]
        /\ \A f \in File : a \notin L[f]
        /\ memory'[a.page][a.slot] = e
        /\ \A f \in File : \A b \in L[f] : memory'[b.page][b.slot] = memory[b.page][b.slot]
        /\ isData \ (free \cup scan.dead) \subseteq isData' \ (free' \cup scan'.dead)
        /\ e.data # <<>> /\ IsInjective(e.data)
        /\ Range(e.data) \subseteq isData' \ (free' \cup scan'.dead)
        /\ \A f \in File : \A b \in L[f] : Disjoint(memory[b.page][b.slot], e)
        /\ \A r \in DOMAIN runs' : /\ r \in Nat /\ r + k \in DOMAIN runs /\ runs'[r] = runs[r + k]
                                   /\ Disjoint(e, runs'[r])
    BY DEF Joins
  <1> USE <1>0
  <1> DEFINE used == isData \ (free \cup scan.dead)
             now == isData' \ (free' \cup scan'.dead)
             Uses(x, S) == x.data # <<>> /\ IsInjective(x.data) /\ Range(x.data) \subseteq S
  <1>1. /\ \A f \in File : \A b \in L[f] : Uses(memory[b.page][b.slot], used)
        /\ \A r \in DOMAIN runs : Uses(runs[r], used)
    BY DEF Once, InUse
  <1>2. used \subseteq now /\ Uses(e, now)
    OBVIOUS
  <1> HIDE DEF used, now
  <1>3. \A f \in File : \A b \in M[f] : (b \in L[f] \/ (f = file /\ b = a))
    OBVIOUS
  <1>4. \A f \in File : \A b \in M[f] : Uses(memory'[b.page][b.slot], now)
    BY <1>1, <1>2, <1>3
  <1>5. \A r \in DOMAIN runs' : Uses(runs'[r], now)
    BY <1>1, <1>2
  <1> HIDE DEF Uses
  <1>6. \A x, y : Disjoint(x, y) <=> Disjoint(y, x)
    BY DEF Disjoint
  <1>7. ASSUME NEW f \in File, NEW g \in File, NEW b \in M[f], NEW d \in M[g], b # d
        PROVE  Disjoint(memory'[b.page][b.slot], memory'[d.page][d.slot])
    <2>1. CASE b \in L[f] /\ d \in L[g]
      BY <1>7, <2>1 DEF Once
    <2>2. CASE b \in L[f] /\ d = a
      BY <1>3, <2>2
    <2>3. CASE b = a /\ d \in L[g]
      BY <1>3, <1>6, <2>3
    <2> QED
      BY <1>3, <1>7, <2>1, <2>2, <2>3
  <1>8. ASSUME NEW r \in DOMAIN runs', NEW t \in DOMAIN runs', r # t
        PROVE  Disjoint(runs'[r], runs'[t])
    <2>1. r \in Nat /\ t \in Nat /\ r + k # t + k
      BY <1>8
    <2>2. r + k \in DOMAIN runs /\ t + k \in DOMAIN runs
          /\ runs'[r] = runs[r + k] /\ runs'[t] = runs[t + k]
      OBVIOUS
    <2>3. \A i, j \in DOMAIN runs : i # j => Disjoint(runs[i], runs[j])
      BY DEF Once
    <2> QED
      BY <2>1, <2>2, <2>3
  <1>9. ASSUME NEW f \in File, NEW b \in M[f], NEW r \in DOMAIN runs'
        PROVE  Disjoint(memory'[b.page][b.slot], runs'[r])
    <2>1. CASE b \in L[f]
      <3>1. r + k \in DOMAIN runs /\ runs'[r] = runs[r + k]
        OBVIOUS
      <3>2. Disjoint(memory[b.page][b.slot], runs[r + k])
        BY <2>1, <3>1 DEF Once
      <3> QED
        BY <2>1, <3>1, <3>2
    <2>2. CASE b = a
      BY <2>2
    <2> QED
      BY <1>3, <2>1, <2>2
  <1> QED
    BY <1>4, <1>5, <1>7, <1>8, <1>9 DEF Once, InUse, Uses, now

LEMMA NewEntry ==
  ASSUME NEW x, NEW y
  PROVE  [NoEntry EXCEPT !.data = x, !.first = y] =
           [data |-> x, first |-> y, bitmap |-> {}, invalid |-> 0]
  <1>1. PICK r : r = [NoEntry EXCEPT !.data = x, !.first = y]
    OBVIOUS
  <1>2. r = [data |-> x, first |-> y, bitmap |-> {}, invalid |-> 0]
    BY <1>1 DEF NoEntry
  <1> QED
    BY <1>1, <1>2

LEMMA Concatenated ==
  ASSUME NEW S, NEW s \in Seq(S), NEW t \in Seq(S), NEW n, Len(t) = n
  PROVE  /\ s \o t \in Seq(S) /\ Len(s \o t) = Len(s) + n /\ Len(s) \in Nat
         /\ DOMAIN (s \o t) = 1..(Len(s) + n) /\ DOMAIN s = 1..Len(s)
         /\ \A k \in 1..Len(s) : (s \o t)[k] = s[k]
         /\ \A k \in 1..n : (s \o t)[Len(s) + k] = t[k]
  <1>1. Len(s) \in Nat /\ Len(t) \in Nat
    OBVIOUS
  <1>2. ASSUME NEW k \in 1..n PROVE (s \o t)[Len(s) + k] = t[k]
    <2>1. Len(s) + k \in 1..(Len(s) + Len(t)) /\ ~(Len(s) + k <= Len(s)) /\ (Len(s) + k) - Len(s) = k
      BY <1>1
    <2> QED
      BY <1>1, <2>1
  <1> QED
    BY <1>1, <1>2

LEMMA EntryWritten ==
  ASSUME TypeOK, NEW c, NEW L, Sound(c, L), WriteEntry
  PROVE  TypeOK' /\ WellFormed'
  <1>1. /\ pc = "write" /\ left # <<>>
        /\ UNCHANGED <<head, index, pc, file, scan, runs, writes, fault>>
    BY DEF WriteEntry
  <1>2. PICK n : n = IF Len(left) > MaxPerEntry THEN MaxPerEntry ELSE Len(left)
    OBVIOUS
  <1>3. PICK data \in [1..n -> free], lp \in NewLogPage(file, free) :
          /\ IsInjective(data) /\ lp \notin Range(data)
          /\ AppendEntry(file, [NoEntry EXCEPT !.data = data, !.first = Head(left)], lp)
          /\ free' = free \ (Range(data) \cup {lp})
          /\ isData' = (isData \cup Range(data)) \ {lp}
          /\ \/ origin' = [p \in Page |-> IF p \in Range(data) THEN Target(file, lp)
                                          ELSE origin[p]]
             \/ NoBytes /\ UNCHANGED origin
          /\ fresh' = fresh \o [k \in 1..n |-> <<left[k], data[k]>>]
          /\ left' = SubSeq(left, n + 1, Len(left))
    BY <1>2 DEF WriteEntry
  <1>4. /\ left \in Seq(FilePage) /\ Len(left) \in Nat /\ Len(left) # 0
        /\ \A k \in 1..Len(left) : left[k] = left[1] + k - 1 /\ left[k] \in FilePage
    <2>1. left \in Seq(FilePage) /\ \A k \in 1..Len(left) : left[k] = left[1] + k - 1
      BY Zenon DEF TypeOK, Sound, CallShape
    <2> QED
      BY <1>1, <2>1
  <1>5. n \in Nat /\ n > 0 /\ n <= Len(left) /\ n <= MaxPerEntry
    BY <1>2, <1>4, PagesCounted
  <1>6. /\ data \in Seq(Page) /\ Len(data) = n /\ DOMAIN data = 1..n
        /\ Range(data) \subseteq free /\ free \subseteq Page
        /\ data # <<>> /\ \A k \in 1..n : data[k] \in Range(data)
    <2>1. free \subseteq Page
      BY TypeFacts
    <2>2. data \in Seq(Page) /\ Len(data) = n /\ DOMAIN data = 1..n
      <3>1. data \in [1..n -> Page]
        BY <2>1
      <3> QED
        BY <1>5, <3>1
    <2>3. data # <<>>
      BY <1>5, <2>2
    <2> QED
      BY <1>3, <2>1, <2>2, <2>3 DEF Range
  <1>7. PICK e : e = [data |-> data, first |-> left[1], bitmap |-> {}, invalid |-> 0]
    OBVIOUS
  <1>8. e = [NoEntry EXCEPT !.data = data, !.first = Head(left)]
    <2>1. Head(left) = left[1]
      BY <1>1, <1>4
    <2> QED
      BY <1>7, <2>1, NewEntry
  <1>9. e \in LogEntry
    <2>1. left[n] = left[1] + n - 1 /\ left[n] \in FilePage /\ left[1] \in FilePage
      <3>1. n \in 1..Len(left) /\ 1 \in 1..Len(left)
        BY <1>4, <1>5
      <3> QED
        BY <1>4, <3>1
    <2>2. /\ left[1] \in Nat /\ left[1] < NumFilePages /\ left[1] + n <= NumFilePages
      BY <1>5, <2>1, PagesCounted DEF FilePage
    <2> QED
      BY <1>5, <1>6, <1>7, <2>2, EntryMade
  <1>10. file \in File /\ head[file] # NoPage /\ runs = <<>> /\ scan.dead = {} /\ scan.block = NoPage
    BY <1>1, TypeFacts DEF Sound, CallShape
  <1>11. PICK d, a, M : /\ d = IF Full(file) THEN [c EXCEPT ![file] = Append(@, lp)] ELSE c
                        /\ a = Target(file, lp)
                        /\ M = [f \in File |-> IF f = file THEN L[f] \cup {a} ELSE L[f]]
    OBVIOUS
  <1>12. /\ free' \subseteq Page /\ isData' \subseteq Page
         /\ next' \in [Page -> Page \cup {NoPage}]
         /\ node' \in [Page -> [obj : Nat, invalid : Nat, pages : Nat, invalidPages : Nat]]
         /\ memory' \in [Page -> [0..(Slots - 1) -> LogEntry]]
         /\ tail' \in [File -> [page : Page \cup {NoPage}, slot : 0..Slots]]
         /\ Lines(d)' /\ Placed(d, M)'
         /\ Clear(d)' /\ Counted(d)'
         /\ memory'[a.page][a.slot] = e
         /\ \A f \in File : a \notin L[f]
         /\ \A f \in File : \A b \in L[f] : memory'[b.page][b.slot] = memory[b.page][b.slot]
    <2>1. AppendEntry(file, e, lp)
      BY <1>3, <1>8
    <2>2. PICK D : D = Range(data)
      OBVIOUS
    <2>3. /\ D \in SUBSET free /\ lp \notin D
          /\ free' = free \ (D \cup {lp}) /\ isData' = (isData \cup D) \ {lp}
      BY <1>3, <1>6, <2>2
    <2>4. UNCHANGED <<head, file, scan>> /\ head[file] # NoPage
      BY <1>1, <1>10
    <2>5. Appends(c, L, e, lp, D, d, M)
      BY <1>3, <1>9, <1>11, <2>1, <2>3, <2>4 DEF Appends
    <2> QED
      BY <1>11, <2>5, EntryAppended
  <1>13. PICK more : more = [k \in 1..n |-> <<left[k], data[k]>>]
    OBVIOUS
  <1>14. /\ more \in Seq(FilePage \X Page) /\ Len(more) = n
         /\ \A k \in 1..n : more[k] = <<left[k], data[k]>>
    <2>1. \A k \in 1..n : left[k] \in FilePage /\ data[k] \in Page
      <3>1. \A k \in 1..n : k \in 1..Len(left)
        BY <1>4, <1>5
      <3> QED
        BY <1>4, <1>6, <3>1
    <2> QED
      BY <1>5, <1>13, <2>1
  <1>15. /\ fresh \in Seq(FilePage \X Page) /\ fresh' \in Seq(FilePage \X Page)
         /\ Len(fresh) \in Nat /\ Len(fresh') = Len(fresh) + n
         /\ \A k \in 1..Len(fresh) : fresh'[k] = fresh[k]
         /\ \A k \in 1..n : fresh'[Len(fresh) + k] = <<left[k], data[k]>>
    <2>1. fresh \in Seq(FilePage \X Page) /\ fresh' = fresh \o more
      BY <1>3, <1>13 DEF TypeOK
    <2>2. /\ fresh' \in Seq(FilePage \X Page) /\ Len(fresh) \in Nat /\ Len(fresh') = Len(fresh) + n
          /\ \A k \in 1..Len(fresh) : fresh'[k] = fresh[k]
          /\ \A k \in 1..n : fresh'[Len(fresh) + k] = more[k]
      BY <1>14, <2>1, Concatenated
    <2> QED
      BY <1>14, <2>1, <2>2
  <1>16. /\ left' \in Seq(FilePage)
         /\ \A k \in 1..Len(left') : left'[k] = left'[1] + k - 1
    <2>1. /\ left' \in Seq(FilePage) /\ Len(left') = Len(left) - n
          /\ \A k \in 1..(Len(left) - n) : left'[k] = left[n + k]
      <3>1. left' = SubSeq(left, n + 1, Len(left))
        BY <1>3
      <3> QED
        BY <1>4, <1>5, <3>1
    <2>2. ASSUME NEW k \in 1..Len(left') PROVE left'[k] = left'[1] + k - 1
      <3>1. k \in 1..(Len(left) - n) /\ 1 \in 1..(Len(left) - n) /\ k \in Nat
        BY <1>4, <1>5, <2>1
      <3>2. n + k \in 1..Len(left) /\ n + 1 \in 1..Len(left) /\ 1 \in 1..Len(left)
        BY <1>4, <1>5, <3>1
      <3>3. left[n + k] = left[1] + (n + k) - 1 /\ left[n + 1] = left[1] + (n + 1) - 1
            /\ left[1] \in Nat
        <4>1. left[1] \in FilePage
          BY <1>4, <3>2
        <4>2. left[1] \in Nat
          BY <4>1, PagesCounted DEF FilePage
        <4>3. left[n + k] = left[1] + (n + k) - 1
          BY <1>4, <3>2
        <4>4. left[n + 1] = left[1] + (n + 1) - 1
          BY <1>4, <3>2
        <4> QED
          BY <4>2, <4>3, <4>4
      <3>4. left'[k] = left[n + k] /\ left'[1] = left[n + 1]
        BY <2>1, <3>1
      <3> QED
        BY <1>5, <3>1, <3>3, <3>4
    <2> QED
      BY <2>1, <2>2
  <1>17. TypeOK'
    <2>1. a \in Address
      <3>1. a.page \in Page /\ a.slot \in 0..(Slots - 1) /\ a = [page |-> a.page, slot |-> a.slot]
        BY <1>3, <1>10, <1>11, TargetIs
      <3>2. [page |-> a.page, slot |-> a.slot] \in Address
        BY <3>1 DEF Address
      <3> QED
        BY <3>1, <3>2
    <2>2. origin \in [Page -> Address]
      BY DEF TypeOK
    <2>3. origin' \in [Page -> Address]
      BY <1>3, <1>11, <2>1, <2>2
    <2> QED
      BY <1>1, <1>12, <1>15, <1>16, <2>3 DEF TypeOK
  <1>18. CallShape'
    <2>1. CallShape
      BY DEF Sound
    <2> QED
      BY <1>1, <1>10, <1>16, <2>1 DEF CallShape
  <1>19. Walks(d)'
    BY <1>1 DEF Walks
  <1>20. /\ \A k \in DOMAIN fresh' :
              \/ k \in DOMAIN fresh /\ fresh'[k] = fresh[k]
              \/ \E j \in 1..n : k = Len(fresh) + j /\ fresh'[k] = <<left[j], data[j]>>
    <2> SUFFICES ASSUME NEW k \in DOMAIN fresh'
                 PROVE  \/ k \in DOMAIN fresh /\ fresh'[k] = fresh[k]
                        \/ \E j \in 1..n : k = Len(fresh) + j /\ fresh'[k] = <<left[j], data[j]>>
      OBVIOUS
    <2>1. k \in 1..(Len(fresh) + n) /\ DOMAIN fresh = 1..Len(fresh)
      BY <1>15
    <2>2. CASE k <= Len(fresh)
      BY <1>15, <2>1, <2>2
    <2>3. CASE ~(k <= Len(fresh))
      <3>1. PICK j : j = k - Len(fresh)
        OBVIOUS
      <3>2. j \in 1..n /\ k = Len(fresh) + j
        BY <1>5, <1>15, <2>1, <2>3, <3>1
      <3> QED
        BY <1>15, <3>2
    <2> QED
      BY <2>2, <2>3
  <1>21. DataApart
    BY DEF Sound
  <1>22. \A k \in DOMAIN fresh : fresh[k][2] \in Logged /\ fresh[k][2] \in isData \ free
    BY <1>21 DEF DataApart, Logged
  <1>23. Indexed' = Indexed /\ Logged' \subseteq Logged \cup Range(data)
    <2>1. ASSUME NEW k \in DOMAIN fresh' PROVE fresh'[k][2] \in Logged \cup Range(data)
      BY <1>6, <1>20, <1>22
    <2> QED
      BY <1>1, <2>1 DEF Indexed, Logged
  <1>24. DataApart'
    <2>1. Indexed' \cup Logged' \subseteq isData' \ free'
      <3>1. lp \notin isData \ free
        <4>1. CASE Full(file)
          BY <1>3, <4>1 DEF NewLogPage
        <4>2. CASE ~Full(file)
          BY <1>3, <4>2, TypeFacts, PagesCounted DEF NewLogPage
        <4> QED
          BY <4>1, <4>2
      <3> QED
        BY <1>3, <1>6, <1>21, <1>23, <3>1 DEF DataApart
    <2>2. scan'.block \notin free' \cup isData'
      BY <1>1, <1>10, <1>12, PagesCounted
    <2>3. Indexed' \cap Logged' = {}
      BY <1>6, <1>21, <1>23 DEF DataApart
    <2>4. ASSUME NEW k \in DOMAIN fresh', NEW m \in DOMAIN fresh', fresh'[k][2] = fresh'[m][2]
          PROVE  k = m
      <3>1. CASE k \in DOMAIN fresh /\ fresh'[k] = fresh[k] /\ m \in DOMAIN fresh /\ fresh'[m] = fresh[m]
        BY <1>21, <2>4, <3>1 DEF DataApart
      <3>2. ASSUME NEW j \in 1..n, fresh'[k] = <<left[j], data[j]>>,
                   m \in DOMAIN fresh, fresh'[m] = fresh[m]
            PROVE  FALSE
        BY <1>6, <1>22, <2>4, <3>2
      <3>3. ASSUME NEW j \in 1..n, fresh'[m] = <<left[j], data[j]>>,
                   k \in DOMAIN fresh, fresh'[k] = fresh[k]
            PROVE  FALSE
        BY <1>6, <1>22, <2>4, <3>3
      <3>4. ASSUME NEW i \in 1..n, k = Len(fresh) + i, fresh'[k] = <<left[i], data[i]>>,
                   NEW j \in 1..n, m = Len(fresh) + j, fresh'[m] = <<left[j], data[j]>>
            PROVE  k = m
        <4>1. data[i] = data[j]
          BY <2>4, <3>4
        <4>2. i = j
          BY <1>3, <1>6, <4>1 DEF IsInjective
        <4> QED
          BY <3>4, <4>2
      <3> QED
        BY <1>20, <3>1, <3>2, <3>3, <3>4
    <2> QED
      BY <2>1, <2>2, <2>3, <2>4 DEF DataApart
  <1>25. isData \ (free \cup scan.dead) \subseteq isData' \ (free' \cup scan'.dead)
    <2>1. lp \notin isData \ free
      <3>1. CASE Full(file)
        BY <1>3, <3>1 DEF NewLogPage
      <3>2. CASE ~Full(file)
        BY <1>3, <3>2, TypeFacts, PagesCounted DEF NewLogPage
      <3> QED
        BY <3>1, <3>2
    <2> QED
      BY <1>1, <1>3, <1>6, <2>1
  <1>26. e.data = data /\ e.first = left[1]
    BY <1>7
  <1>27. Once(M)'
    <2>1. \A f \in File : \A b \in L[f] : Disjoint(memory[b.page][b.slot], e)
      <3> SUFFICES ASSUME NEW f \in File, NEW b \in L[f]
                   PROVE  Range(memory[b.page][b.slot].data) \cap Range(data) = {}
        BY <1>26 DEF Disjoint
      <3>1. Range(memory[b.page][b.slot].data) \subseteq isData \ (free \cup scan.dead)
        BY DEF Sound, Once, InUse
      <3> QED
        BY <1>6, <3>1
    <2>2. DOMAIN runs' = {}
      BY <1>1, <1>10
    <2>3. Range(data) \subseteq isData' \ (free' \cup scan'.dead)
      BY <1>1, <1>3, <1>6, <1>10
    <2>4. Once(L) /\ 0 \in Nat
      BY DEF Sound
    <2>5. \A r \in DOMAIN runs' : /\ r \in Nat /\ r + 0 \in DOMAIN runs /\ runs'[r] = runs[r + 0]
                                  /\ Disjoint(e, runs'[r])
      BY <2>2
    <2>6. /\ e.data # <<>> /\ IsInjective(e.data)
          /\ Range(e.data) \subseteq isData' \ (free' \cup scan'.dead)
      BY <1>3, <1>6, <1>26, <2>3
    <2>7. /\ \A f \in File : a \notin L[f]
          /\ memory'[a.page][a.slot] = e
          /\ \A f \in File : \A b \in L[f] : memory'[b.page][b.slot] = memory[b.page][b.slot]
      BY <1>12
    <2>8. Joins(L, a, e, 0, M)
      BY <1>10, <1>11, <1>25, <2>1, <2>4, <2>5, <2>6, <2>7 DEF Joins
    <2> QED
      BY <2>8, OnceGrown
  <1>28. FreshIn(M)'
    <2> SUFFICES ASSUME NEW k \in DOMAIN fresh'
                 PROVE  \E b \in M[file] :
                          Names(memory'[b.page][b.slot], fresh'[k][1], fresh'[k][2])
      BY <1>1 DEF FreshIn
    <2>1. M[file] = L[file] \cup {a}
      BY <1>10, <1>11
    <2>2. CASE k \in DOMAIN fresh /\ fresh'[k] = fresh[k]
      <3>1. PICK b \in L[file] : Names(memory[b.page][b.slot], fresh[k][1], fresh[k][2])
        BY <2>2 DEF Sound, FreshIn
      <3>2. memory'[b.page][b.slot] = memory[b.page][b.slot] /\ b \in M[file]
        BY <1>10, <1>12, <2>1, <3>1
      <3> QED
        BY <2>2, <3>1, <3>2
    <2>3. ASSUME NEW j \in 1..n, fresh'[k] = <<left[j], data[j]>>
          PROVE  \E b \in M[file] : Names(memory'[b.page][b.slot], fresh'[k][1], fresh'[k][2])
      <3>1. j \in 1..Len(left)
        BY <1>4, <1>5
      <3>2. Names(e, left[j], data[j])
        BY <1>4, <1>6, <1>26, <3>1 DEF Names
      <3>3. a \in M[file] /\ memory'[a.page][a.slot] = e
        BY <1>12, <2>1
      <3>4. fresh'[k][1] = left[j] /\ fresh'[k][2] = data[j]
        BY <2>3
      <3> QED
        BY <3>2, <3>3, <3>4
    <2> QED
      BY <1>20, <2>2, <2>3
  <1>29. IndexIn(M)'
    <2> SUFFICES ASSUME NEW f \in File, NEW i \in FilePage, index[f][i] # NoPage
                 PROVE  \/ \E b \in M[f] : Names(memory'[b.page][b.slot], i, index[f][i])
                        \/ file = f /\ \E r \in DOMAIN runs : Names(runs[r], i, index[f][i])
                        \/ index[f][i] \in scan.dead
      BY <1>1 DEF IndexIn
    <2>1. L[f] \subseteq M[f]
      BY <1>11
    <2> QED
      BY <1>12, <2>1 DEF Sound, IndexIn
  <1> QED
    BY <1>12, <1>17, <1>18, <1>19, <1>24, <1>27, <1>28, <1>29 DEF WellFormed, Sound, Placed
LEMMA RunMoved ==
  ASSUME TypeOK, NEW c, NEW L, Sound(c, L), MoveRun
  PROVE  TypeOK' /\ WellFormed'
  <1>1. /\ pc = "move" /\ runs # <<>> /\ runs' = Tail(runs)
        /\ UNCHANGED <<origin, head, index, pc, file, left, fresh, scan, writes, fault>>
    BY DEF MoveRun
  <1>2. PICK lp \in NewLogPage(file, free) :
          /\ AppendEntry(file, Head(runs), lp)
          /\ free' = free \ {lp}
          /\ isData' = isData \ {lp}
    BY DEF MoveRun
  <1>3. PICK e, d, a, M : /\ e = Head(runs)
                          /\ d = IF Full(file) THEN [c EXCEPT ![file] = Append(@, lp)] ELSE c
                          /\ a = Target(file, lp)
                          /\ M = [f \in File |-> IF f = file THEN L[f] \cup {a} ELSE L[f]]
    OBVIOUS
  <1>4. /\ runs \in Seq(LogEntry) /\ DOMAIN runs = 1..Len(runs) /\ 1 \in DOMAIN runs
        /\ e = runs[1] /\ e \in LogEntry
        /\ runs' \in Seq(LogEntry) /\ DOMAIN runs' = 1..(Len(runs) - 1)
        /\ \A r \in DOMAIN runs' : r \in Nat /\ r + 1 \in DOMAIN runs /\ runs'[r] = runs[r + 1]
        /\ \A r \in DOMAIN runs : r # 1 => r - 1 \in DOMAIN runs' /\ runs'[r - 1] = runs[r]
    <2>1. runs \in Seq(LogEntry)
      BY DEF TypeOK
    <2>2. Len(runs) \in Nat /\ Len(runs) # 0 /\ DOMAIN runs = 1..Len(runs)
      BY <1>1, <2>1
    <2>3. 1 \in DOMAIN runs /\ e = runs[1] /\ e \in LogEntry
      BY <1>1, <1>3, <2>1, <2>2
    <2>4. /\ runs' \in Seq(LogEntry) /\ DOMAIN runs' = 1..(Len(runs) - 1)
          /\ \A r \in 1..(Len(runs) - 1) : runs'[r] = runs[r + 1]
      BY <1>1, <2>1, <2>2
    <2>5. \A r \in DOMAIN runs' : r \in Nat /\ r + 1 \in DOMAIN runs /\ runs'[r] = runs[r + 1]
      <3>1. \A r \in 1..(Len(runs) - 1) : r \in Nat /\ r + 1 \in 1..Len(runs)
        BY <2>2
      <3> QED
        BY <2>2, <2>4, <3>1
    <2>6. \A r \in DOMAIN runs : r # 1 => r - 1 \in DOMAIN runs' /\ runs'[r - 1] = runs[r]
      <3>1. \A r \in 1..Len(runs) : r # 1 => r - 1 \in 1..(Len(runs) - 1) /\ (r - 1) + 1 = r
        BY <2>2
      <3> QED
        BY <2>2, <2>4, <3>1
    <2> QED
      BY <2>1, <2>2, <2>3, <2>4, <2>5, <2>6
  <1>5. /\ file \in File /\ c[file] \in Seq(Page)
        /\ Chained(head[file], tail[file].page, next, c[file])
        /\ Scanning(c[file]) /\ CallShape /\ DataApart /\ Once(L)
    BY <1>1, TypeFacts DEF Sound, Lines, Walks
  <1>6. head[file] # NoPage
    <2>1. PICK k \in 1..Len(c[file]) : scan.at = c[file][k]
      BY <1>5 DEF Scanning
    <2>2. c[file] # <<>>
      <3>1. Len(<<>>) = 0 /\ 1..0 = {}
        OBVIOUS
      <3> QED
        BY <2>1, <3>1
    <2> QED
      BY <1>5, <2>2, ChainEnds
  <1>7. lp \notin isData \ free
    <2>1. CASE Full(file)
      BY <1>2, <2>1 DEF NewLogPage
    <2>2. CASE ~Full(file)
      BY <1>2, <2>2, TypeFacts, PagesCounted DEF NewLogPage
    <2> QED
      BY <2>1, <2>2
  <1>8. Appends(c, L, e, lp, {}, d, M)
    <2>1. /\ {} \in SUBSET free /\ lp \notin {} /\ free' = free \ ({} \cup {lp})
          /\ isData' = (isData \cup {}) \ {lp} /\ AppendEntry(file, e, lp)
      BY <1>2, <1>3
    <2> QED
      BY <1>1, <1>2, <1>3, <1>4, <1>6, <2>1 DEF Appends
  <1>9. /\ free' \subseteq Page /\ isData' \subseteq Page
        /\ next' \in [Page -> Page \cup {NoPage}]
        /\ node' \in [Page -> [obj : Nat, invalid : Nat, pages : Nat, invalidPages : Nat]]
        /\ memory' \in [Page -> [0..(Slots - 1) -> LogEntry]]
        /\ tail' \in [File -> [page : Page \cup {NoPage}, slot : 0..Slots]]
        /\ Lines(d)' /\ Placed(d, M)'
        /\ Clear(d)' /\ Counted(d)'
        /\ \A k \in 1..Len(c[file]) : k \in 1..Len(d[file]) /\ d[file][k] = c[file][k]
        /\ memory'[a.page][a.slot] = e
        /\ \A f \in File : a \notin L[f]
        /\ \A f \in File : \A b \in L[f] : memory'[b.page][b.slot] = memory[b.page][b.slot]
    BY <1>3, <1>8, EntryAppended
  <1>10. TypeOK'
    BY <1>1, <1>4, <1>9 DEF TypeOK
  <1>11. CallShape'
    <2>1. \A r \in DOMAIN runs' : runs'[r].bitmap = {} /\ runs'[r].invalid = 0
      BY <1>4, <1>5 DEF CallShape
    <2> QED
      BY <1>1, <1>5, <2>1 DEF CallShape
  <1>12. Walks(d)'
    <2>1. PICK s : s = d[file]
      OBVIOUS
    <2>2. PICK k \in 1..Len(c[file]) : /\ scan.at = c[file][k]
                                       /\ k > 1 => scan.prev = c[file][k - 1]
                                       /\ \E m \in k..Len(c[file]) : scan.stop = c[file][m]
      BY <1>5 DEF Scanning
    <2>3. PICK m \in k..Len(c[file]) : scan.stop = c[file][m]
      BY <2>2
    <2>4. /\ k > 1 => k - 1 \in 1..Len(c[file])
          /\ m \in 1..Len(c[file])
      <3>1. Len(c[file]) \in Nat
        BY <1>5
      <3> QED
        BY <3>1
    <2>5. /\ k \in 1..Len(s) /\ scan.at = s[k]
          /\ k > 1 => scan.prev = s[k - 1]
          /\ m \in 1..Len(s) /\ scan.stop = s[m]
      BY <1>9, <2>1, <2>2, <2>3, <2>4
    <2>6. m \in k..Len(s)
      <3>1. k <= m /\ m \in Int
        BY <2>3
      <3> QED
        BY <2>5, <3>1
    <2>7. Scanning(s)'
      BY <1>1, <2>5, <2>6 DEF Scanning
    <2> QED
      BY <1>1, <2>1, <2>7 DEF Walks
  <1>13. DataApart'
    <2>1. Indexed' = Indexed /\ Logged' = Logged
      BY <1>1 DEF Indexed, Logged
    <2> QED
      BY <1>1, <1>2, <1>5, <1>7, <2>1 DEF DataApart
  <1>14. isData \ (free \cup scan.dead) \subseteq isData' \ (free' \cup scan'.dead)
    BY <1>1, <1>2, <1>7
  <1>15. Once(M)'
    <2>1. InUse(e)
      BY <1>4, <1>5 DEF Once
    <2>2. /\ e.data # <<>> /\ IsInjective(e.data)
          /\ Range(e.data) \subseteq isData' \ (free' \cup scan'.dead)
      BY <1>14, <2>1 DEF InUse
    <2>3. \A f \in File : \A b \in L[f] : Disjoint(memory[b.page][b.slot], e)
      BY <1>4, <1>5 DEF Once
    <2>4. ASSUME NEW r \in DOMAIN runs' PROVE Disjoint(e, runs'[r])
      <3>1. r + 1 \in DOMAIN runs /\ r + 1 # 1 /\ runs'[r] = runs[r + 1]
        BY <1>4
      <3> QED
        BY <1>4, <1>5, <3>1 DEF Once
    <2>5. \A r \in DOMAIN runs' : /\ r \in Nat /\ r + 1 \in DOMAIN runs /\ runs'[r] = runs[r + 1]
                                  /\ Disjoint(e, runs'[r])
      BY <1>4, <2>4
    <2>6. /\ \A f \in File : a \notin L[f]
          /\ memory'[a.page][a.slot] = e
          /\ \A f \in File : \A b \in L[f] : memory'[b.page][b.slot] = memory[b.page][b.slot]
      BY <1>9
    <2>7. 1 \in Nat
      OBVIOUS
    <2>8. Joins(L, a, e, 1, M)
      BY <1>3, <1>5, <1>14, <2>2, <2>3, <2>5, <2>6, <2>7 DEF Joins
    <2> QED
      BY <2>8, OnceGrown
  <1>16. FreshIn(M)'
    <2>1. fresh' = <<>> /\ DOMAIN <<>> = {}
      BY <1>1, <1>5 DEF CallShape
    <2> QED
      BY <2>1 DEF FreshIn
  <1>17. IndexIn(M)'
    <2> SUFFICES ASSUME NEW f \in File, NEW i \in FilePage, index[f][i] # NoPage
                 PROVE  \/ \E b \in M[f] : Names(memory'[b.page][b.slot], i, index[f][i])
                        \/ file = f /\ \E r \in DOMAIN runs' : Names(runs'[r], i, index[f][i])
                        \/ index[f][i] \in scan.dead
      BY <1>1 DEF IndexIn
    <2>1. L[f] \subseteq M[f] /\ a \in M[file]
      BY <1>3, <1>5
    <2>2. CASE \E b \in L[f] : Names(memory[b.page][b.slot], i, index[f][i])
      BY <1>9, <2>1, <2>2
    <2>3. ASSUME file = f, NEW r \in DOMAIN runs, Names(runs[r], i, index[f][i])
          PROVE  \/ \E b \in M[f] : Names(memory'[b.page][b.slot], i, index[f][i])
                 \/ \E t \in DOMAIN runs' : Names(runs'[t], i, index[f][i])
      <3>1. CASE r = 1
        <4>1. memory'[a.page][a.slot] = runs[r]
          BY <1>4, <1>9, <3>1
        <4> QED
          BY <2>1, <2>3, <4>1
      <3>2. CASE r # 1
        <4>1. r - 1 \in DOMAIN runs' /\ runs'[r - 1] = runs[r]
          BY <1>4, <3>2
        <4> QED
          BY <2>3, <4>1
      <3> QED
        BY <3>1, <3>2
    <2>4. IndexIn(L)
      BY DEF Sound
    <2> QED
      BY <2>2, <2>3, <2>4 DEF IndexIn
  <1> QED
    BY <1>9, <1>10, <1>11, <1>12, <1>13, <1>15, <1>16, <1>17 DEF WellFormed, Sound, Placed
-----------------------------------------------------------------------------
(* Marking an entry changes neither the pages that it names nor the number *)
(* of entries of its log page.                                             *)
Marked ==
  /\ memory' \in [Page -> [0..(Slots - 1) -> LogEntry]]
  /\ node' \in [Page -> [obj : Nat, invalid : Nat, pages : Nat, invalidPages : Nat]]
  /\ \A p \in Page : node'[p].obj = node[p].obj
  /\ \A p \in Page : \A s \in 0..(Slots - 1) :
       memory'[p][s].data = memory[p][s].data /\ memory'[p][s].first = memory[p][s].first

LEMMA EntryMarked ==
  ASSUME TypeOK, NEW a \in Address, NEW i \in FilePage, Invalidate(a, i)
  PROVE  Marked
  <1>1. /\ memory \in [Page -> [0..(Slots - 1) -> LogEntry]]
        /\ node \in [Page -> [obj : Nat, invalid : Nat, pages : Nat, invalidPages : Nat]]
        /\ a.page \in Page \cup {NoPage} /\ a.slot \in 0..(Slots - 1)
    BY DEF TypeOK, Address
  <1>2. PICK e : e = memory[a.page][a.slot]
    OBVIOUS
  <1>3. PICK new : new = [e EXCEPT !.bitmap = @ \cup {(i - e.first) % 64}, !.invalid = e.invalid + 1]
    OBVIOUS
  <1>4. PICK b : b = (Len(e.data) = e.invalid + 1)
    OBVIOUS
  <1>5. /\ memory' = [memory EXCEPT ![a.page][a.slot] = new]
        /\ node' = [node EXCEPT ![a.page].invalidPages = @ + 1,
                                ![a.page].invalid = IF b THEN @ + 1 ELSE @]
    BY <1>2, <1>3, <1>4 DEF Invalidate, Entry
  <1>6. CASE a.page \notin Page
    <2>1. memory' = memory
      BY <1>1, <1>5, <1>6
    <2>2. node' = node
      BY <1>1, <1>5, <1>6
    <2> QED
      BY <1>1, <2>1, <2>2 DEF Marked
  <1>7. CASE a.page \in Page
    <2>1. e \in LogEntry
      BY <1>1, <1>2, <1>7
    <2>2. /\ e \in [data : Seq(Page), first : FilePage, bitmap : SUBSET (0..63), invalid : Nat]
          /\ e.first + Len(e.data) <= NumFilePages /\ Len(e.data) <= MaxPerEntry
      BY <2>1 DEF LogEntry
    <2>3. (i - e.first) % 64 \in 0..63
      <3>1. e.first \in FilePage
        BY <2>2
      <3>2. i - e.first \in Int
        BY <3>1, PagesCounted DEF FilePage
      <3> QED
        BY <3>2
    <2>4. new \in LogEntry /\ new.data = e.data /\ new.first = e.first
      <3>1. PICK x : x = (i - e.first) % 64
        OBVIOUS
      <3>2. new = [e EXCEPT !.bitmap = @ \cup {x}, !.invalid = e.invalid + 1] /\ x \in 0..63
        BY <1>3, <2>3, <3>1
      <3>3. /\ new \in [data : Seq(Page), first : FilePage, bitmap : SUBSET (0..63), invalid : Nat]
            /\ new.data = e.data /\ new.first = e.first
        <4>1. new = [data |-> e.data, first |-> e.first, bitmap |-> e.bitmap \cup {x},
                     invalid |-> e.invalid + 1]
          BY <2>2, <3>2
        <4>2. /\ e.data \in Seq(Page) /\ e.first \in FilePage /\ e.bitmap \in SUBSET (0..63)
              /\ e.invalid \in Nat
          BY <2>2
        <4>3. PICK marks, m : marks = e.bitmap \cup {x} /\ m = e.invalid + 1
          OBVIOUS
        <4>4. marks \in SUBSET (0..63) /\ m \in Nat
          <5>1. x \in 0..63 /\ e.bitmap \subseteq 0..63 /\ e.invalid \in Nat
            BY <3>2, <4>2
          <5>2. m \in Nat
            BY <4>3, <5>1
          <5>3. marks \subseteq 0..63
            BY <4>3, <5>1, Zenon
          <5> QED
            BY <5>2, <5>3
        <4>5. new = [data |-> e.data, first |-> e.first, bitmap |-> marks, invalid |-> m]
          BY <4>1, <4>3
        <4> QED
          BY <4>2, <4>4, <4>5
      <3> QED
        BY <2>2, <3>3 DEF LogEntry
    <2>5. memory' \in [Page -> [0..(Slots - 1) -> LogEntry]]
      BY <1>1, <1>5, <1>7, <2>4
    <2>6. \A p \in Page : \A s \in 0..(Slots - 1) :
            memory'[p][s].data = memory[p][s].data /\ memory'[p][s].first = memory[p][s].first
      BY <1>1, <1>2, <1>5, <1>7, <2>4
    <2>7. PICK m : m = node[a.page]
      OBVIOUS
    <2>8. PICK w : w = [m EXCEPT !.invalidPages = @ + 1, !.invalid = IF b THEN @ + 1 ELSE @]
      OBVIOUS
    <2>9. node' = [node EXCEPT ![a.page] = w]
      BY <1>1, <1>5, <1>7, <2>7, <2>8
    <2>10. w \in [obj : Nat, invalid : Nat, pages : Nat, invalidPages : Nat] /\ w.obj = m.obj
      <3>1. m \in [obj : Nat, invalid : Nat, pages : Nat, invalidPages : Nat]
        BY <1>1, <1>7, <2>7
      <3>2. w = [obj |-> m.obj, invalid |-> IF b THEN m.invalid + 1 ELSE m.invalid,
                 pages |-> m.pages, invalidPages |-> m.invalidPages + 1]
        BY <2>8, <3>1
      <3>3. m.obj \in Nat /\ m.invalid \in Nat /\ m.pages \in Nat /\ m.invalidPages \in Nat
        BY <3>1
      <3> QED
        BY <3>2, <3>3
    <2>11. node' \in [Page -> [obj : Nat, invalid : Nat, pages : Nat, invalidPages : Nat]]
      BY <1>1, <2>9, <2>10
    <2>12. \A p \in Page : node'[p].obj = node[p].obj
      BY <1>1, <2>7, <2>9, <2>10
    <2> QED
      BY <2>5, <2>6, <2>11, <2>12 DEF Marked
  <1> QED
    BY <1>6, <1>7

LEMMA DataMarked ==
  ASSUME TypeOK, NEW a, a.page \in isData, MarkData(a)
  PROVE  Marked
  <1>1. PICK full \in 0..1 :
          node' = [node EXCEPT ![a.page].invalidPages = @ + 1, ![a.page].invalid = @ + full]
    BY DEF MarkData
  <1>2. /\ node \in [Page -> [obj : Nat, invalid : Nat, pages : Nat, invalidPages : Nat]]
        /\ memory \in [Page -> [0..(Slots - 1) -> LogEntry]]
        /\ a.page \in Page /\ memory' = memory
    BY DEF TypeOK, MarkData
  <1>3. PICK m, w : /\ m = node[a.page]
                    /\ w = [m EXCEPT !.invalidPages = @ + 1, !.invalid = @ + full]
    OBVIOUS
  <1>4. node' = [node EXCEPT ![a.page] = w]
    BY <1>1, <1>2, <1>3
  <1>5. w \in [obj : Nat, invalid : Nat, pages : Nat, invalidPages : Nat] /\ w.obj = m.obj
    <2>1. m \in [obj : Nat, invalid : Nat, pages : Nat, invalidPages : Nat]
      BY <1>2, <1>3
    <2>2. w = [obj |-> m.obj, invalid |-> m.invalid + full,
               pages |-> m.pages, invalidPages |-> m.invalidPages + 1]
      BY <1>3, <2>1
    <2>3. m.obj \in Nat /\ m.invalid \in Nat /\ m.pages \in Nat /\ m.invalidPages \in Nat
      BY <2>1
    <2>4. m.invalid + full \in Nat /\ m.invalidPages + 1 \in Nat
      BY <1>1, <2>3
    <2> QED
      BY <2>2, <2>3, <2>4
  <1>6. node' \in [Page -> [obj : Nat, invalid : Nat, pages : Nat, invalidPages : Nat]]
    BY <1>2, <1>4, <1>5
  <1>7. \A p \in Page : node'[p].obj = node[p].obj
    BY <1>2, <1>3, <1>4, <1>5
  <1> QED
    BY <1>2, <1>6, <1>7 DEF Marked

LEMMA PageIndexed ==
  ASSUME TypeOK, NEW c, NEW L, Sound(c, L), IndexPage
  PROVE  TypeOK' /\ WellFormed'
  <1>1. /\ pc = "write" /\ left = <<>> /\ fresh # <<>> /\ fresh' = Tail(fresh)
        /\ UNCHANGED <<free, next, origin, isData, head, tail, pc, file, left, scan, runs, writes>>
    BY DEF IndexPage
  <1>2. /\ fresh \in Seq(FilePage \X Page) /\ DOMAIN fresh = 1..Len(fresh) /\ 1 \in DOMAIN fresh
        /\ Head(fresh) = fresh[1] /\ fresh[1] \in FilePage \X Page
        /\ fresh' \in Seq(FilePage \X Page)
        /\ \A k \in DOMAIN fresh' : k \in Nat /\ k + 1 \in DOMAIN fresh /\ fresh'[k] = fresh[k + 1]
    <2>1. fresh \in Seq(FilePage \X Page)
      BY DEF TypeOK
    <2>2. Len(fresh) \in Nat /\ Len(fresh) # 0 /\ DOMAIN fresh = 1..Len(fresh)
      BY <1>1, <2>1
    <2>3. 1 \in DOMAIN fresh /\ Head(fresh) = fresh[1] /\ fresh[1] \in FilePage \X Page
      BY <1>1, <2>1, <2>2
    <2>4. /\ fresh' \in Seq(FilePage \X Page) /\ DOMAIN fresh' = 1..(Len(fresh) - 1)
          /\ \A k \in 1..(Len(fresh) - 1) : fresh'[k] = fresh[k + 1]
      BY <1>1, <2>1, <2>2
    <2>5. \A k \in 1..(Len(fresh) - 1) : k \in Nat /\ k + 1 \in 1..Len(fresh)
      BY <2>2
    <2> QED
      BY <2>1, <2>2, <2>3, <2>4, <2>5
  <1>3. PICK i, q : i = fresh[1][1] /\ q = fresh[1][2]
    OBVIOUS
  <1>4. i \in FilePage /\ q \in Page /\ i = Head(fresh)[1] /\ q = Head(fresh)[2]
    BY <1>2, <1>3
  <1>5. index' = [index EXCEPT ![file][i] = q]
    BY <1>4 DEF IndexPage
  <1>6. file \in File
    BY TypeFacts
  <1>7. /\ Marked
        /\ fault' \in {"none", "data_marked", "superblock_marked", "entries_overrun", "nothing_freed",
                       "page_in_use_freed", "exhausted"}
    <2>1. PICK old : old = index[file][i]
      OBVIOUS
    <2>2. old \in Page \cup {NoPage}
      BY <1>4, <1>6, <2>1, TypeFacts
    <2>3. fault \in {"none", "data_marked", "superblock_marked", "entries_overrun", "nothing_freed",
                     "page_in_use_freed", "exhausted"}
      BY DEF TypeOK
    <2>4. UNCHANGED <<node, memory>> => Marked
      BY DEF Marked, TypeOK
    <2>5. CASE old = NoPage
      BY <1>4, <2>1, <2>3, <2>4, <2>5 DEF IndexPage
    <2>6. CASE old # NoPage
      <3>1. PICK a : a = origin[old]
        OBVIOUS
      <3>2. MarkOld(a, i) /\ a \in Address
        BY <1>4, <2>1, <2>2, <2>6, <3>1 DEF IndexPage, TypeOK
      <3>3. CASE MarkSuperblock
        BY <2>4, <3>3 DEF MarkSuperblock
      <3>4. CASE a.page \in isData /\ MarkData(a)
        <4>1. fault' = IF a.page \in free THEN fault ELSE "data_marked"
          BY <3>4 DEF MarkData
        <4>2. Marked
          BY <3>4, DataMarked
        <4> QED
          BY <2>3, <4>1, <4>2
      <3>5. CASE Invalidate(a, i) /\ a.page # NoPage /\ UNCHANGED fault
        BY <1>4, <2>3, <3>2, <3>5, EntryMarked
      <3> QED
        BY <3>2, <3>3, <3>4, <3>5 DEF MarkOld
    <2> QED
      BY <2>5, <2>6
  <1>8. /\ index \in [File -> [FilePage -> Page \cup {NoPage}]]
        /\ index' \in [File -> [FilePage -> Page \cup {NoPage}]]
        /\ index'[file][i] = q
        /\ \A f \in File : \A j \in FilePage :
             f # file \/ j # i => index'[f][j] = index[f][j]
    <2>1. index \in [File -> [FilePage -> Page \cup {NoPage}]]
      BY DEF TypeOK
    <2> QED
      BY <1>4, <1>5, <1>6, <2>1
  <1>9. TypeOK'
    BY <1>1, <1>2, <1>7, <1>8 DEF TypeOK, Marked
  <1>10. Lines(c)' /\ (L = [f \in File |-> Places(c[f], tail[f])])' /\ Clear(c)' /\ Walks(c)'
    BY <1>1 DEF Sound, Lines, Clear, Walks
  <1>11. \A f \in File : Range(c[f]) \subseteq Page
    <2>1. \A f \in File : c[f] \in Seq(Page)
      BY DEF Sound, Lines
    <2> QED
      BY <2>1 DEF Range
  <1>12. Counted(c)'
    BY <1>1, <1>7, <1>11 DEF Sound, Counted, Marked
  <1>13. CallShape'
    <2>1. Len(<<>>) = 0 /\ 1..0 = {}
      OBVIOUS
    <2> QED
      BY <1>1, <2>1 DEF Sound, CallShape
  <1>14. DataApart /\ q \in Logged /\ \A k \in DOMAIN fresh : fresh[k][2] \in Logged
    BY <1>2, <1>3 DEF Sound, Logged
  <1>15. \A k \in DOMAIN fresh' : fresh'[k][2] \in Logged /\ fresh'[k][2] # q
    <2> SUFFICES ASSUME NEW k \in DOMAIN fresh'
                 PROVE  fresh'[k][2] \in Logged /\ fresh'[k][2] # q
      OBVIOUS
    <2>1. k \in Nat /\ k + 1 \in DOMAIN fresh /\ fresh'[k] = fresh[k + 1] /\ k + 1 # 1
      BY <1>2
    <2>2. fresh[k + 1][2] # fresh[1][2]
      BY <1>2, <1>14, <2>1 DEF DataApart
    <2> QED
      BY <1>3, <1>14, <2>1, <2>2
  <1>16. Logged' \subseteq Logged \ {q}
    BY <1>15 DEF Logged
  <1>17. Indexed' \subseteq Indexed \cup {q}
    <2> SUFFICES ASSUME NEW f \in File, NEW j \in FilePage, index'[f][j] # NoPage
                 PROVE  index'[f][j] \in Indexed \cup {q}
      BY DEF Indexed
    <2>1. CASE f = file /\ j = i
      BY <1>8, <2>1
    <2>2. CASE f # file \/ j # i
      BY <1>8, <2>2 DEF Indexed
    <2> QED
      BY <2>1, <2>2
  <1>18. DataApart'
    <2>1. /\ Indexed' \cup Logged' \subseteq isData' \ free'
          /\ scan'.block \notin free' \cup isData'
          /\ Indexed' \cap Logged' = {}
      BY <1>1, <1>14, <1>16, <1>17 DEF DataApart
    <2>2. ASSUME NEW k \in DOMAIN fresh', NEW m \in DOMAIN fresh', fresh'[k][2] = fresh'[m][2]
          PROVE  k = m
      <3>1. /\ k \in Nat /\ k + 1 \in DOMAIN fresh /\ fresh'[k] = fresh[k + 1]
            /\ m \in Nat /\ m + 1 \in DOMAIN fresh /\ fresh'[m] = fresh[m + 1]
        BY <1>2
      <3>2. k + 1 = m + 1
        BY <1>14, <2>2, <3>1 DEF DataApart
      <3> QED
        BY <3>1, <3>2
    <2> QED
      BY <2>1, <2>2 DEF DataApart
  <1>19. \A f \in File : \A b \in L[f] :
           /\ memory'[b.page][b.slot].data = memory[b.page][b.slot].data
           /\ memory'[b.page][b.slot].first = memory[b.page][b.slot].first
    BY <1>7, PlacesIn DEF Marked
  <1>20. Once(L)'
    <2>1. Once(L)
      BY DEF Sound
    <2>2. \A x, y, u, v : x.data = u.data /\ y.data = v.data => (Disjoint(x, y) <=> Disjoint(u, v))
      BY DEF Disjoint
    <2>3. \A f \in File : \A b \in L[f] :
            /\ memory'[b.page][b.slot].data # <<>>
            /\ IsInjective(memory'[b.page][b.slot].data)
            /\ Range(memory'[b.page][b.slot].data) \subseteq isData \ (free \cup scan.dead)
      BY <1>19, <2>1 DEF Once, InUse
    <2>4. \A r \in DOMAIN runs :
            /\ runs[r].data # <<>> /\ IsInjective(runs[r].data)
            /\ Range(runs[r].data) \subseteq isData \ (free \cup scan.dead)
      BY <2>1 DEF Once, InUse
    <2>5. \A f, g \in File : \A a \in L[f], b \in L[g] :
            a # b => Disjoint(memory'[a.page][a.slot], memory'[b.page][b.slot])
      BY <1>19, <2>1, <2>2 DEF Once
    <2>6. /\ \A r, t \in DOMAIN runs : r # t => Disjoint(runs[r], runs[t])
          /\ \A f \in File : \A a \in L[f], r \in DOMAIN runs :
               Disjoint(memory'[a.page][a.slot], runs[r])
      BY <1>19, <2>1, <2>2 DEF Once
    <2> QED
      BY <1>1, <2>3, <2>4, <2>5, <2>6 DEF Once, InUse
  <1>21. \A f \in File : \A b \in L[f] : \A j, p :
           Names(memory[b.page][b.slot], j, p) => Names(memory'[b.page][b.slot], j, p)
    BY <1>19 DEF Names
  <1>22. FreshIn(L)'
    <2> SUFFICES ASSUME NEW k \in DOMAIN fresh'
                 PROVE  \E b \in L[file] :
                          Names(memory'[b.page][b.slot], fresh'[k][1], fresh'[k][2])
      BY <1>1 DEF FreshIn
    <2>1. k + 1 \in DOMAIN fresh /\ fresh'[k] = fresh[k + 1]
      BY <1>2
    <2>2. PICK b \in L[file] : Names(memory[b.page][b.slot], fresh[k + 1][1], fresh[k + 1][2])
      BY <2>1 DEF Sound, FreshIn
    <2> QED
      BY <1>6, <1>21, <2>1, <2>2
  <1>23. IndexIn(L)'
    <2> SUFFICES ASSUME NEW f \in File, NEW j \in FilePage, index'[f][j] # NoPage
                 PROVE  \/ \E b \in L[f] : Names(memory'[b.page][b.slot], j, index'[f][j])
                        \/ file = f /\ \E r \in DOMAIN runs : Names(runs[r], j, index'[f][j])
                        \/ index'[f][j] \in scan.dead
      BY <1>1 DEF IndexIn
    <2>1. CASE f = file /\ j = i
      <3>1. PICK b \in L[file] : Names(memory[b.page][b.slot], fresh[1][1], fresh[1][2])
        BY <1>2 DEF Sound, FreshIn
      <3>2. Names(memory'[b.page][b.slot], i, q)
        BY <1>3, <1>6, <1>21, <3>1
      <3> QED
        BY <1>8, <2>1, <3>1, <3>2
    <2>2. CASE f # file \/ j # i
      <3>1. index'[f][j] = index[f][j]
        BY <1>8, <2>2
      <3>2. IndexIn(L)
        BY DEF Sound
      <3>3. \/ \E b \in L[f] : Names(memory[b.page][b.slot], j, index[f][j])
            \/ file = f /\ \E r \in DOMAIN runs : Names(runs[r], j, index[f][j])
            \/ index[f][j] \in scan.dead
        BY <3>1, <3>2 DEF IndexIn
      <3> QED
        BY <1>21, <3>1, <3>3
    <2> QED
      BY <2>1, <2>2
  <1> QED
    BY <1>9, <1>10, <1>12, <1>13, <1>18, <1>20, <1>22, <1>23 DEF WellFormed, Sound
-----------------------------------------------------------------------------
(* The page at hand is freed, with the pages that its entries marked.      *)
LEMMA BlockFreed ==
  ASSUME TypeOK, NEW c, NEW L, Sound(c, L), FreeBlock
  PROVE  TypeOK' /\ (fault' = "none" => WellFormed')
  <1> USE DEF inodes
  <1>1. /\ pc = "move" /\ runs = <<>> /\ pc' = "scan"
        /\ free' = free \cup scan.dead \cup {scan.block}
        /\ scan' = [scan EXCEPT !.block = NoPage, !.dead = {}]
        /\ UNCHANGED <<next, node, origin, isData, memory, head, tail, index, file, left, fresh,
                       runs, writes>>
    BY DEF FreeBlock
  <1>2. /\ CallShape /\ DataApart /\ fresh = <<>> /\ left = <<>>
        /\ scan.block # NoPage /\ scan.block \in Page /\ scan.dead \subseteq Page
        /\ file \in File
    BY <1>1, TypeFacts DEF Sound, CallShape
  <1>3. /\ scan'.at = scan.at /\ scan'.prev = scan.prev /\ scan'.stop = scan.stop
        /\ scan'.block = NoPage /\ scan'.dead = {}
        /\ scan' \in [at : Page \cup {NoPage}, prev : Page \cup {NoPage}, stop : Page \cup {NoPage},
                      block : Page \cup {NoPage}, dead : SUBSET Page]
    <2>1. scan \in [at : Page \cup {NoPage}, prev : Page \cup {NoPage}, stop : Page \cup {NoPage},
                    block : Page \cup {NoPage}, dead : SUBSET Page]
      BY DEF TypeOK
    <2> QED
      BY <1>1, <2>1
  <1>4. free' \subseteq Page
    BY <1>1, <1>2, TypeFacts
  <1>5. TypeOK'
    <2>1. fault' \in {"none", "data_marked", "superblock_marked", "entries_overrun", "nothing_freed",
                      "page_in_use_freed", "exhausted"}
      BY DEF FreeBlock, TypeOK
    <2> QED
      BY <1>1, <1>3, <1>4, <2>1 DEF TypeOK
  <1>6. ASSUME fault' = "none" PROVE WellFormed'
    <2>1. scan.dead \cap (free \cup InLogs \cup Indexed) = {}
      BY <1>6 DEF FreeBlock
    <2>2. \A f \in File : Range(c[f]) \subseteq InLogs
      <3>1. \A f \in File : c[f] \in Seq(Page) /\ Chained(head[f], tail[f].page, next, c[f])
        BY DEF Sound, Lines
      <3>2. \A f \in File : LogPages(f) = Range(c[f])
        BY <3>1, LogIsChain
      <3> QED
        BY <3>2 DEF InLogs
    <2>3. Lines(c)' /\ (L = [f \in File |-> Places(c[f], tail[f])])' /\ Counted(c)'
      BY <1>1 DEF Sound, Lines, Counted
    <2>4. Clear(c)'
      <3> SUFFICES ASSUME NEW f \in File
                   PROVE  Range(c[f]) \cap (free' \cup isData \cup {NoPage}) = {}
        BY <1>1, <1>3 DEF Clear
      <3>1. Range(c[f]) \cap (free \cup isData \cup {scan.block}) = {}
        BY DEF Sound, Clear
      <3>2. NoPage \notin Range(c[f])
        <4>1. c[f] \in Seq(Page)
          BY DEF Sound, Lines
        <4>2. Range(c[f]) \subseteq Page
          BY <4>1 DEF Range
        <4> QED
          BY <4>2, PagesCounted
      <3> QED
        BY <1>1, <2>1, <2>2, <3>1, <3>2
    <2>5. Walks(c)'
      <3>1. PICK s : s = c[file]
        OBVIOUS
      <3>2. Scanning(s)
        BY <1>1, <3>1 DEF Sound, Walks
      <3>3. Scanning(s)'
        BY <1>3, <3>2 DEF Scanning
      <3> QED
        BY <1>1, <3>1, <3>3 DEF Walks
    <2>6. CallShape'
      BY <1>1, <1>2, <1>3 DEF CallShape
    <2>7. DataApart'
      <3>1. Logged = {} /\ Logged' = {} /\ Indexed' = Indexed /\ DOMAIN fresh' = {}
        <4>1. DOMAIN <<>> = {}
          OBVIOUS
        <4> QED
          BY <1>1, <1>2, <4>1 DEF Logged, Indexed
      <3>2. scan'.block \notin free' \cup isData'
        BY <1>1, <1>3, <1>4, TypeFacts, PagesCounted
      <3>3. Indexed \subseteq isData' \ free'
        BY <1>1, <1>2, <2>1 DEF DataApart
      <3> QED
        BY <3>1, <3>2, <3>3 DEF DataApart
    <2>8. Once(L)' /\ FreshIn(L)' /\ IndexIn(L)'
      <3>1. isData \ (free \cup scan.dead) \subseteq isData' \ (free' \cup scan'.dead)
        BY <1>1, <1>2, <1>3 DEF DataApart
      <3>2. \A f \in File : \A i \in FilePage :
              index[f][i] \in scan.dead => index[f][i] \in scan'.dead
        <4> SUFFICES ASSUME NEW f \in File, NEW i \in FilePage, index[f][i] \in scan.dead
                     PROVE  FALSE
          OBVIOUS
        <4>1. index[f][i] \in Indexed
          BY <1>2, PagesCounted DEF Indexed
        <4> QED
          BY <2>1, <4>1
      <3>3. \A f \in File : \A a \in L[f] : memory'[a.page][a.slot] = memory[a.page][a.slot]
        BY <1>1
      <3>4. Once(L) /\ FreshIn(L) /\ IndexIn(L)
        BY DEF Sound
      <3> QED
        BY <1>1, <1>2, <3>1, <3>2, <3>3, <3>4, EntriesKept
    <2> QED
      BY <2>3, <2>4, <2>5, <2>6, <2>7, <2>8 DEF WellFormed, Sound
  <1> QED
    BY <1>5, <1>6
-----------------------------------------------------------------------------
(* The runs of all the entries of a page.                                  *)
AllRuns(e) == FlattenSeq([s \in DOMAIN e |-> RunsOf(e[s])])

AllInvalid(e) == UNION {InvalidPages(e[s]) : s \in DOMAIN e}

GathersRuns(e, n, flat, at, pos) ==
  /\ \A r \in 1..Len(flat) : /\ at[r] \in 1..n /\ pos[r] \in 1..Len(RunsOf(e[at[r]]))
                             /\ flat[r] = RunsOf(e[at[r]])[pos[r]]
  /\ \A r, t \in 1..Len(flat) : at[r] = at[t] /\ pos[r] = pos[t] => r = t
  /\ \A s \in 1..n : \A j \in 1..Len(RunsOf(e[s])) :
       \E r \in 1..Len(flat) : at[r] = s /\ pos[r] = j

LEMMA RunsGathered ==
  ASSUME NEW n \in Nat, NEW e \in [1..n -> LogEntry]
  PROVE  /\ AllRuns(e) \in Seq(LogEntry) /\ DOMAIN AllRuns(e) = 1..Len(AllRuns(e))
         /\ \E at, pos : GathersRuns(e, n, AllRuns(e), at, pos)
  <1>1. PICK seqs : seqs = [s \in 1..n |-> RunsOf(e[s])]
    OBVIOUS
  <1>2. DOMAIN e = 1..n /\ \A s \in 1..n : e[s] \in LogEntry
    OBVIOUS
  <1>3. \A s \in 1..n : RunsOf(e[s]) \in Seq(LogEntry)
    BY <1>2, RunsOfParts
  <1>4. seqs \in Seq(Seq(LogEntry)) /\ Len(seqs) = n /\ \A s \in 1..n : seqs[s] = RunsOf(e[s])
    BY <1>1, <1>3
  <1>5. AllRuns(e) = FlattenSeq(seqs)
    BY <1>1, <1>2 DEF AllRuns
  <1>6. PICK flat : flat = AllRuns(e)
    OBVIOUS
  <1>7. flat \in Seq(LogEntry) /\ \E at, pos : Gathers(seqs, n, flat, at, pos)
    BY <1>4, <1>5, <1>6, Flattened
  <1>8. PICK at, pos : Gathers(seqs, n, flat, at, pos)
    BY <1>7
  <1>9. ASSUME NEW r \in 1..Len(flat)
        PROVE  /\ at[r] \in 1..n /\ pos[r] \in 1..Len(RunsOf(e[at[r]]))
               /\ flat[r] = RunsOf(e[at[r]])[pos[r]]
    <2>1. at[r] \in 1..n /\ pos[r] \in 1..Len(seqs[at[r]]) /\ flat[r] = seqs[at[r]][pos[r]]
      BY <1>8 DEF Gathers
    <2> QED
      BY <1>4, <2>1
  <1>10. DOMAIN flat = 1..Len(flat)
    BY <1>7
  <1>11. \A s \in 1..n : \A j \in 1..Len(RunsOf(e[s])) :
           \E r \in 1..Len(flat) : at[r] = s /\ pos[r] = j
    BY <1>4, <1>8 DEF Gathers
  <1>12. \A r, t \in 1..Len(flat) : at[r] = at[t] /\ pos[r] = pos[t] => r = t
    BY <1>8 DEF Gathers
  <1>13. GathersRuns(e, n, flat, at, pos)
    BY <1>9, <1>11, <1>12 DEF GathersRuns
  <1> QED
    BY <1>6, <1>7, <1>10, <1>13

LEMMA InvalidInside ==
  ASSUME NEW e \in LogEntry
  PROVE  /\ InvalidPages(e) \subseteq Range(e.data)
         /\ InvalidPages(e) \subseteq Page
         /\ \A k \in 1..Len(e.data) : ~Valid(e, k - 1) => e.data[k] \in InvalidPages(e)
  <1> DEFINE n == Len(e.data)
  <1>1. n \in Nat /\ DOMAIN e.data = 1..n /\ e.data \in Seq(Page)
    BY EntryType
  <1>2. \A j \in 0..(n - 1) : j + 1 \in 1..n
    BY <1>1
  <1>3. \A k \in 1..n : k - 1 \in 0..(n - 1) /\ (k - 1) + 1 = k
    BY <1>1
  <1>4. Range(e.data) \subseteq Page
    BY <1>1 DEF Range
  <1>5. InvalidPages(e) \subseteq Range(e.data)
    BY <1>1, <1>2 DEF InvalidPages, Range
  <1>6. ASSUME NEW k \in 1..n, ~Valid(e, k - 1) PROVE e.data[k] \in InvalidPages(e)
    <2>1. \E j \in {m \in 0..(n - 1) : ~Valid(e, m)} : e.data[k] = e.data[j + 1]
      <3>1. k - 1 \in {m \in 0..(n - 1) : ~Valid(e, m)}
        BY <1>3, <1>6
      <3> QED
        BY <1>3, <3>1
    <2> QED
      BY <2>1 DEF InvalidPages
  <1> QED
    BY <1>4, <1>5, <1>6

(* The runs rs take the valid pages of the n entries e apart, each into one *)
(* unmarked run.                                                           *)
Splits(e, n, rs) ==
  /\ \A r \in DOMAIN rs :
       /\ rs[r].data # <<>> /\ IsInjective(rs[r].data)
       /\ rs[r].bitmap = {} /\ rs[r].invalid = 0
       /\ \E s \in 1..n : Range(rs[r].data) \subseteq Range(e[s].data) \ AllInvalid(e)
  /\ \A r, t \in DOMAIN rs : r # t => Disjoint(rs[r], rs[t])
  /\ \A s \in 1..n : \A k \in 1..Len(e[s].data) :
       \/ e[s].data[k] \in AllInvalid(e)
       \/ \E r \in DOMAIN rs : Names(rs[r], e[s].first + k - 1, e[s].data[k])

LEMMA RunsTogether ==
  ASSUME NEW n \in Nat, NEW e \in [1..n -> LogEntry],
         \A s \in 1..n : IsInjective(e[s].data),
         \A s, t \in 1..n : s # t => Disjoint(e[s], e[t])
  PROVE  Splits(e, n, AllRuns(e))
  <1>1. PICK flat : flat = AllRuns(e)
    OBVIOUS
  <1>2. /\ DOMAIN flat = 1..Len(flat) /\ DOMAIN e = 1..n
        /\ \A s \in 1..n : e[s] \in LogEntry
    BY <1>1, RunsGathered
  <1>0. PICK at, pos : GathersRuns(e, n, flat, at, pos)
    BY <1>1, RunsGathered
  <1>3. /\ \A r \in 1..Len(flat) : /\ at[r] \in 1..n /\ pos[r] \in 1..Len(RunsOf(e[at[r]]))
                                   /\ flat[r] = RunsOf(e[at[r]])[pos[r]]
        /\ \A r, t \in 1..Len(flat) : at[r] = at[t] /\ pos[r] = pos[t] => r = t
        /\ \A s \in 1..n : \A j \in 1..Len(RunsOf(e[s])) :
             \E r \in 1..Len(flat) : at[r] = s /\ pos[r] = j
    BY <1>0 DEF GathersRuns
  <1>4. ASSUME NEW s \in 1..n
        PROVE  /\ \A j \in 1..Len(RunsOf(e[s])) :
                    /\ RunsOf(e[s])[j].data # <<>> /\ IsInjective(RunsOf(e[s])[j].data)
                    /\ RunsOf(e[s])[j].bitmap = {} /\ RunsOf(e[s])[j].invalid = 0
                    /\ Range(RunsOf(e[s])[j].data) \subseteq Range(e[s].data) \ InvalidPages(e[s])
               /\ \A i, j \in 1..Len(RunsOf(e[s])) :
                    i # j => Disjoint(RunsOf(e[s])[i], RunsOf(e[s])[j])
               /\ InvalidPages(e[s]) \subseteq Range(e[s].data)
               /\ InvalidPages(e[s]) \subseteq AllInvalid(e)
    <2>1. e[s] \in LogEntry /\ IsInjective(e[s].data)
      BY <1>2
    <2>2. InvalidPages(e[s]) \subseteq AllInvalid(e)
      BY <1>2 DEF AllInvalid
    <2>3. InvalidPages(e[s]) \subseteq Range(e[s].data)
      BY <2>1, InvalidInside
    <2> QED
      BY <2>1, <2>2, <2>3, RunsApart
  <1>5. ASSUME NEW s \in 1..n PROVE Range(e[s].data) \cap AllInvalid(e) \subseteq InvalidPages(e[s])
    <2> SUFFICES ASSUME NEW t \in 1..n, NEW p \in InvalidPages(e[t]), p \in Range(e[s].data)
                 PROVE  p \in InvalidPages(e[s])
      BY <1>2 DEF AllInvalid
    <2>1. p \in Range(e[t].data)
      BY <1>4
    <2>2. s # t => Range(e[s].data) \cap Range(e[t].data) = {}
      BY DEF Disjoint
    <2> QED
      BY <2>1, <2>2
  <1>6. ASSUME NEW r \in 1..Len(flat)
        PROVE  /\ flat[r].data # <<>> /\ IsInjective(flat[r].data)
               /\ flat[r].bitmap = {} /\ flat[r].invalid = 0
               /\ Range(flat[r].data) \subseteq Range(e[at[r]].data) \ AllInvalid(e)
    <2>0. PICK s, j : s = at[r] /\ j = pos[r]
      OBVIOUS
    <2>1. s = at[r] /\ s \in 1..n /\ j \in 1..Len(RunsOf(e[s])) /\ flat[r] = RunsOf(e[s])[j]
      BY <1>3, <2>0
    <2>2. /\ flat[r].data # <<>> /\ IsInjective(flat[r].data)
          /\ flat[r].bitmap = {} /\ flat[r].invalid = 0
          /\ Range(flat[r].data) \subseteq Range(e[s].data) \ InvalidPages(e[s])
      BY <1>4, <2>1
    <2> QED
      BY <1>5, <2>1, <2>2
  <1>7. ASSUME NEW r \in 1..Len(flat), NEW t \in 1..Len(flat), r # t
        PROVE  Disjoint(flat[r], flat[t])
    <2>1. /\ at[r] \in 1..n /\ at[t] \in 1..n
          /\ pos[r] \in 1..Len(RunsOf(e[at[r]])) /\ flat[r] = RunsOf(e[at[r]])[pos[r]]
          /\ pos[t] \in 1..Len(RunsOf(e[at[t]])) /\ flat[t] = RunsOf(e[at[t]])[pos[t]]
      BY <1>3
    <2>2. CASE at[r] = at[t]
      <3>1. pos[r] # pos[t]
        BY <1>3, <1>7, <2>2
      <3> QED
        BY <1>4, <2>1, <2>2, <3>1
    <2>3. CASE at[r] # at[t]
      <3>1. Range(e[at[r]].data) \cap Range(e[at[t]].data) = {}
        BY <2>1, <2>3 DEF Disjoint
      <3>2. /\ Range(flat[r].data) \subseteq Range(e[at[r]].data)
            /\ Range(flat[t].data) \subseteq Range(e[at[t]].data)
        BY <1>6
      <3> QED
        BY <3>1, <3>2 DEF Disjoint
    <2> QED
      BY <2>2, <2>3
  <1>8. ASSUME NEW s \in 1..n, NEW k \in 1..Len(e[s].data), e[s].data[k] \notin AllInvalid(e)
        PROVE  \E r \in 1..Len(flat) : Names(flat[r], e[s].first + k - 1, e[s].data[k])
    <2>1. PICK x : x = e[s]
      OBVIOUS
    <2>2. x \in LogEntry /\ k \in 1..Len(x.data)
      BY <1>2, <2>1
    <2>3. Valid(x, k - 1)
      BY <1>4, <1>8, <2>1, <2>2, InvalidInside
    <2>4. PICK j \in 1..Len(RunsOf(x)) : Names(RunsOf(x)[j], x.first + k - 1, x.data[k])
      BY <2>2, <2>3, RunsCover
    <2>5. PICK r \in 1..Len(flat) : at[r] = s /\ pos[r] = j
      BY <1>3, <2>1, <2>4
    <2>6. flat[r] = RunsOf(x)[j]
      BY <1>3, <2>1, <2>5
    <2> QED
      BY <2>1, <2>4, <2>6
  <1>9. \A r \in 1..Len(flat) :
          \E s \in 1..n : Range(flat[r].data) \subseteq Range(e[s].data) \ AllInvalid(e)
    BY <1>3, <1>6
  <1>10. \A r \in DOMAIN flat :
           /\ flat[r].data # <<>> /\ IsInjective(flat[r].data)
           /\ flat[r].bitmap = {} /\ flat[r].invalid = 0
           /\ \E s \in 1..n : Range(flat[r].data) \subseteq Range(e[s].data) \ AllInvalid(e)
    BY <1>2, <1>6, <1>9
  <1>11. \A r, t \in DOMAIN flat : r # t => Disjoint(flat[r], flat[t])
    BY <1>2, <1>7
  <1>12. \A s \in 1..n : \A k \in 1..Len(e[s].data) :
           \/ e[s].data[k] \in AllInvalid(e)
           \/ \E r \in DOMAIN flat : Names(flat[r], e[s].first + k - 1, e[s].data[k])
    BY <1>2, <1>8
  <1>13. Splits(e, n, flat)
    BY <1>10, <1>11, <1>12 DEF Splits
  <1> QED
    BY <1>1, <1>13, Zenon

(* The page scan.at, the k-th of its log, is unlinked.                     *)
Unlinked(c, k, d) ==
  /\ d \in [File -> Seq(Page)]
  /\ \A f \in File : Chained(head'[f], tail[f].page, next', d[f])
  /\ \A f \in File : Range(d[f]) = Range(c[f]) \ {scan.at}
  /\ Len(d[file]) = Len(c[file]) - 1
  /\ \A i \in 1..Len(d[file]) : d[file][i] = IF i < k THEN c[file][i] ELSE c[file][i + 1]

LEMMA PageUnlinked ==
  ASSUME TypeOK, NEW c, NEW L, Sound(c, L), Unlink,
         NEW k \in Nat, k >= 1, k < Len(c[file]), scan.at = c[file][k],
         k > 1 => scan.prev = c[file][k - 1]
  PROVE  /\ head' \in [File -> Page \cup {NoPage}] /\ next' \in [Page -> Page \cup {NoPage}]
         /\ \E d : Unlinked(c, k, d)
  <1>1. Unlink
    OBVIOUS
  <1>2. PICK s, t, p : s = c[file] /\ t = tail[file].page /\ p = s[k]
    OBVIOUS
  <1>3. /\ file \in File /\ s \in Seq(Page) /\ Chained(head[file], t, next, s)
        /\ Len(s) \in Nat /\ k \in 1..Len(s) /\ k < Len(s)
    <2>1. /\ file \in File /\ c[file] \in Seq(Page)
          /\ Chained(head[file], tail[file].page, next, c[file])
      BY TypeFacts DEF Sound, Lines
    <2>2. s \in Seq(Page) /\ Chained(head[file], t, next, s)
      BY <1>2, <2>1
    <2>3. Len(s) \in Nat /\ k < Len(s)
      BY <1>2, <2>2
    <2> QED
      BY <2>1, <2>2, <2>3
  <1>4. scan.at = p /\ (k > 1 => scan.prev = s[k - 1])
    BY <1>2
  <1>5. s # <<>>
    <2>1. Len(<<>>) = 0
      OBVIOUS
    <2> QED
      BY <1>3, <2>1
  <1>6. /\ p \in Page /\ p \in Range(s) /\ p # NoPage
        /\ \A i, j \in 1..Len(s) : s[i] = s[j] => i = j
        /\ \A i \in 1..Len(s) : s[i] \in Page /\ s[i] \in Range(s)
        /\ t = s[Len(s)] /\ head[file] = s[1] /\ 1 \in 1..Len(s) /\ Len(s) \in 1..Len(s)
    BY <1>2, <1>3, <1>5, ChainEnds, ChainSize
  <1>7. k - 1 \in Nat /\ (k # 1 => k > 1)
    BY <1>3
  <1>8. p # t
    BY <1>2, <1>3, <1>6
  <1>9. next[p] = s[k + 1] /\ s[k + 1] \in Page
    <2>1. k + 1 \in 1..Len(s) /\ next[s[k]] = s[k + 1]
      BY <1>2, <1>3, <1>8, ChainEnds
    <2> QED
      BY <1>2, <1>6, <2>1
  <1>10. p = head[file] <=> k = 1
    BY <1>2, <1>3, <1>6
  <1>11. /\ head' = IF k = 1 THEN [head EXCEPT ![file] = next[p]] ELSE head
         /\ next' = IF k = 1 THEN [next EXCEPT ![p] = NoPage]
                    ELSE [next EXCEPT ![s[k - 1]] = next[p], ![p] = NoPage]
         /\ k # 1 => k - 1 \in 1..Len(s) /\ s[k - 1] \in Page /\ s[k - 1] # p
    <2>1. k # 1 => k > 1 /\ k - 1 \in 1..Len(s) /\ k - 1 # k
      BY <1>3, <1>7
    <2>2. k # 1 => scan.prev = s[k - 1] /\ s[k - 1] \in Page /\ s[k - 1] # p
      BY <1>2, <1>3, <1>4, <1>6, <2>1
    <2>3. CASE k = 1
      BY <1>1, <1>4, <1>6, <1>10, <2>3 DEF Unlink
    <2>4. CASE k # 1
      BY <1>1, <1>4, <1>6, <1>10, <2>1, <2>2, <2>4 DEF Unlink
    <2> QED
      BY <2>3, <2>4
  <1>12. /\ head \in [File -> Page \cup {NoPage}] /\ next \in [Page -> Page \cup {NoPage}]
         /\ head' \in [File -> Page \cup {NoPage}] /\ next' \in [Page -> Page \cup {NoPage}]
         /\ head'[file] = IF k = 1 THEN next[p] ELSE head[file]
         /\ \A f \in File : f # file => head'[f] = head[f]
    <2>1. head \in [File -> Page \cup {NoPage}] /\ next \in [Page -> Page \cup {NoPage}]
      BY DEF TypeOK
    <2> QED
      BY <1>3, <1>6, <1>9, <1>11, <2>1
  <1>13. PICK r \in Seq(Page) : /\ Chained(head'[file], t, next', r)
                                /\ Range(r) = Range(s) \ {p}
                                /\ Len(r) = Len(s) - 1
                                /\ \A i \in 1..Len(r) : r[i] = IF i < k THEN s[i] ELSE s[i + 1]
    <2>1. k # 1 => next'[s[k - 1]] = next[p]
      BY <1>6, <1>9, <1>11, <1>12
    <2>2. \A q \in Range(s) : q # p /\ (k # 1 => q # s[k - 1]) => next'[q] = next[q]
      <3>1. Range(s) \subseteq Page
        BY <1>3 DEF Range
      <3> QED
        BY <1>6, <1>11, <1>12, <3>1
    <2>3. PICK first : first = head'[file]
      OBVIOUS
    <2>4. first = IF k = 1 THEN next[s[k]] ELSE head[file]
      BY <1>2, <1>12, <2>3
    <2>5. s[k] # t
      BY <1>2, <1>8
    <2>6. PICK new : new = next'
      OBVIOUS
    <2>7. /\ k # 1 => new[s[k - 1]] = next[s[k]]
          /\ \A q \in Range(s) : q # s[k] /\ (k # 1 => q # s[k - 1]) => new[q] = next[q]
      BY <1>2, <2>1, <2>2, <2>6
    <2>8. PICK from : from = head[file]
      OBVIOUS
    <2>9. Drops(s, k, from, t, next, first, new)
      BY <1>3, <2>4, <2>5, <2>7, <2>8 DEF Drops
    <2>10. \E r \in Seq(Page) : Chained(first, t, new, r) /\ Without(s, k, r)
      BY <2>9, DropFromChain
    <2> QED
      BY <1>2, <2>3, <2>6, <2>10 DEF Without
  <1>14. PICK d : d = [c EXCEPT ![file] = r]
    OBVIOUS
  <1>15. /\ d \in [File -> Seq(Page)] /\ d[file] = r
         /\ \A f \in File : f # file => d[f] = c[f]
         /\ \A f \in File : Range(c[f]) \subseteq Page
         /\ \A f, g \in File : f # g => Range(c[f]) \cap Range(c[g]) = {}
         /\ \A f \in File : Range(d[f]) = Range(c[f]) \ {p}
    <2>1. c \in [File -> Seq(Page)] /\ \A f, g \in File : f # g => Range(c[f]) \cap Range(c[g]) = {}
      BY DEF Sound, Lines
    <2>2. d \in [File -> Seq(Page)] /\ d[file] = r /\ \A f \in File : f # file => d[f] = c[f]
      BY <1>3, <1>14, <2>1
    <2>3. \A f \in File : Range(c[f]) \subseteq Page
      <3>1. \A f \in File : c[f] \in Seq(Page)
        BY <2>1
      <3> QED
        BY <3>1 DEF Range
    <2>4. ASSUME NEW f \in File PROVE Range(d[f]) = Range(c[f]) \ {p}
      <3>1. CASE f = file
        BY <1>2, <1>13, <2>2, <3>1
      <3>2. CASE f # file
        <4>1. p \notin Range(c[f])
          BY <1>2, <1>3, <1>6, <2>1, <3>2
        <4> QED
          BY <2>2, <3>2, <4>1
      <3> QED
        BY <3>1, <3>2
    <2> QED
      BY <2>1, <2>2, <2>3, <2>4
  <1>16. ASSUME NEW f \in File PROVE Chained(head'[f], tail[f].page, next', d[f])
    <2>1. CASE f = file
      BY <1>1, <1>2, <1>13, <1>15, <2>1
    <2>2. CASE f # file
      <3>1. c[f] \in Seq(Page) /\ Chained(head[f], tail[f].page, next, c[f])
        BY DEF Sound, Lines
      <3>2. \A q \in Range(c[f]) : next'[q] = next[q]
        <4>1. Range(c[f]) \cap Range(s) = {} /\ Range(c[f]) \subseteq Page
          BY <1>2, <1>3, <1>15, <2>2
        <4>2. \A q \in Range(c[f]) : q # p /\ (k # 1 => q # s[k - 1])
          BY <1>6, <1>11, <4>1
        <4> QED
          BY <1>6, <1>11, <1>12, <4>1, <4>2
      <3>3. Chained(head[f], tail[f].page, next', c[f])
        BY <3>1, <3>2, SameChain
      <3> QED
        BY <1>1, <1>12, <1>15, <2>2, <3>3
    <2> QED
      BY <2>1, <2>2
  <1>17. Unlinked(c, k, d)
    BY <1>2, <1>4, <1>13, <1>15, <1>16 DEF Unlinked
  <1> QED
    BY <1>12, <1>17

(* The page at hand leaves the log and its entries become runs.            *)
LEMMA PageTaken ==
  ASSUME TypeOK, NEW c, NEW L, Sound(c, L), TakePage
  PROVE  TypeOK' /\ (fault' = "none" => WellFormed')
  <1>1. /\ pc = "scan" /\ scan.at # scan.stop /\ pc' = "move" /\ Unlink
        /\ UNCHANGED <<free, node, origin, isData, memory, tail, index, file, left, fresh, writes>>
    BY DEF TakePage
  <1>2. PICK s, t : s = c[file] /\ t = tail[file].page
    OBVIOUS
  <1>3. /\ file \in File /\ s \in Seq(Page) /\ Chained(head[file], t, next, s)
        /\ Scanning(s) /\ CallShape /\ DataApart /\ Once(L) /\ IndexIn(L) /\ Counted(c)
        /\ Len(s) \in Nat
    <2>1. file \in File
      BY TypeFacts, Zenon
    <2>2. /\ Lines(c) /\ Walks(c) /\ CallShape /\ DataApart /\ Once(L) /\ IndexIn(L) /\ Counted(c)
      BY Zenon DEF Sound
    <2>3. Scanning(s)
      BY <1>1, <1>2, <2>2 DEF Walks
    <2>4. s \in Seq(Page) /\ Chained(head[file], t, next, s)
      BY <1>2, <2>1, <2>2 DEF Lines
    <2> QED
      BY <2>1, <2>2, <2>3, <2>4
  <1>4. PICK k \in 1..Len(s) : /\ scan.at = s[k]
                               /\ k > 1 => scan.prev = s[k - 1]
                               /\ \E m \in k..Len(s) : scan.stop = s[m]
    BY <1>3 DEF Scanning
  <1>5. PICK m \in k..Len(s) : scan.stop = s[m]
    BY <1>4
  <1>6. PICK p : p = s[k]
    OBVIOUS
  <1>7. /\ p \in Page /\ p \in Range(s) /\ scan.at = p /\ p # NoPage
        /\ \A i, j \in 1..Len(s) : s[i] = s[j] => i = j
        /\ \A i \in 1..Len(s) : s[i] \in Page /\ s[i] \in Range(s)
        /\ s # <<>> /\ t = s[Len(s)] /\ head[file] = s[1] /\ 1 \in 1..Len(s) /\ Len(s) \in 1..Len(s)
    <2>1. s # <<>>
      <3>1. Len(<<>>) = 0 /\ 1..0 = {}
        OBVIOUS
      <3> QED
        BY <1>4, <3>1
    <2> QED
      BY <1>3, <1>4, <1>6, <2>1, ChainEnds, ChainSize
  <1>8. k < m /\ m <= Len(s) /\ k < Len(s) /\ m \in Nat /\ k \in Nat /\ k >= 1
    <2>1. k # m
      BY <1>1, <1>4, <1>5
    <2> QED
      BY <1>3, <2>1
  <1>9. p # t
    <2>1. k # Len(s)
      BY <1>3, <1>8
    <2> QED
      BY <1>6, <1>7, <2>1
  <1>10. next[p] = s[k + 1] /\ s[k + 1] \in Page
    <2>1. k + 1 \in 1..Len(s) /\ next[s[k]] = s[k + 1]
      BY <1>3, <1>6, <1>9, ChainEnds
    <2> QED
      BY <1>6, <1>7, <2>1
  <1>11. fresh = <<>> /\ left = <<>> /\ runs = <<>> /\ scan.dead = {} /\ scan.block = NoPage
    BY <1>1, <1>3 DEF CallShape
  <1>12. PICK n : n = IF node[p].obj > Slots THEN Slots ELSE node[p].obj
    OBVIOUS
  <1>13. node[p].obj \in Nat /\ n \in 0..Slots /\ n \in Nat
    <2>1. node[p].obj \in Nat
      BY <1>7, TypeFacts
    <2> QED
      BY <1>12, <2>1, PagesCounted
  <1>14. PICK e : e = [j \in 1..n |-> memory[p][j - 1]]
    OBVIOUS
  <1>15. /\ e \in [1..n -> LogEntry] /\ DOMAIN e = 1..n
         /\ \A j \in 1..n : e[j] = memory[p][j - 1] /\ j - 1 \in 0..(Slots - 1)
    <2>1. \A j \in 1..n : j - 1 \in 0..(Slots - 1)
      BY <1>13, PagesCounted
    <2>2. \A j \in 1..n : memory[p][j - 1] \in LogEntry
      BY <1>7, <2>1, TypeFacts
    <2> QED
      BY <1>14, <2>1, <2>2
  <1>16. /\ scan' = [scan EXCEPT !.at = next[p], !.block = p, !.dead = AllInvalid(e)]
         /\ runs' = AllRuns(e)
         /\ fault' = IF node[p].obj > Slots THEN "entries_overrun" ELSE fault
    BY <1>7, <1>12, <1>14 DEF TakePage, AllInvalid, AllRuns
  <1>17. runs' \in Seq(LogEntry) /\ AllInvalid(e) \subseteq Page
    <2>1. \A j \in 1..n : InvalidPages(e[j]) \subseteq Page
      BY <1>15, InvalidInside
    <2>2. AllInvalid(e) \subseteq Page
      BY <1>15, <2>1 DEF AllInvalid
    <2> QED
      BY <1>13, <1>15, <1>16, <2>2, RunsGathered
  <1>18. /\ scan'.at = s[k + 1] /\ scan'.prev = scan.prev /\ scan'.stop = scan.stop
         /\ scan'.block = p /\ scan'.dead = AllInvalid(e)
         /\ scan' \in [at : Page \cup {NoPage}, prev : Page \cup {NoPage}, stop : Page \cup {NoPage},
                       block : Page \cup {NoPage}, dead : SUBSET Page]
    <2>1. scan \in [at : Page \cup {NoPage}, prev : Page \cup {NoPage}, stop : Page \cup {NoPage},
                    block : Page \cup {NoPage}, dead : SUBSET Page]
      BY DEF TypeOK
    <2> QED
      BY <1>7, <1>10, <1>16, <1>17, <2>1
  <1>19. PICK d : Unlinked(c, k, d)
    BY <1>1, <1>2, <1>3, <1>4, <1>8, PageUnlinked
  <1>20. head' \in [File -> Page \cup {NoPage}] /\ next' \in [Page -> Page \cup {NoPage}]
    BY <1>1, <1>2, <1>3, <1>4, <1>8, PageUnlinked
  <1>21. TypeOK'
    <2>1. fault' \in {"none", "data_marked", "superblock_marked", "entries_overrun", "nothing_freed",
                      "page_in_use_freed", "exhausted"}
      BY <1>16 DEF TypeOK
    <2> QED
      BY <1>1, <1>17, <1>18, <1>20, <2>1 DEF TypeOK
  <1>22. PICK r : /\ r = d[file] /\ Len(r) = Len(s) - 1
                  /\ \A i \in 1..Len(r) : r[i] = IF i < k THEN s[i] ELSE s[i + 1]
    BY <1>2, <1>19 DEF Unlinked
  <1>23. SUFFICES ASSUME fault' = "none" PROVE WellFormed'
    BY <1>21
  <1>24. node[p].obj <= Slots /\ n = Slots
    <2>1. node[p].obj <= Slots
      <3>1. ~(node[p].obj > Slots)
        BY <1>16, <1>23
      <3> QED
        BY <1>13, <3>1, PagesCounted
    <2>2. node[p].obj >= Slots
      BY <1>2, <1>3, <1>7, <1>9 DEF Counted
    <2> QED
      BY <1>12, <1>13, <2>1, <2>2, PagesCounted
  <1>25. PICK M : M = [f \in File |-> Places(d[f], tail[f])]
    OBVIOUS
  <1>26. /\ d \in [File -> Seq(Page)] /\ d[file] = r
         /\ \A f \in File : Range(c[f]) \subseteq Page
         /\ \A f, g \in File : f # g => Range(c[f]) \cap Range(c[g]) = {}
         /\ \A f \in File : Range(d[f]) = Range(c[f]) \ {p}
    <2>1. c \in [File -> Seq(Page)] /\ \A f, g \in File : f # g => Range(c[f]) \cap Range(c[g]) = {}
      BY DEF Sound, Lines
    <2>2. \A f \in File : Range(c[f]) \subseteq Page
      <3>1. \A f \in File : c[f] \in Seq(Page)
        BY <2>1
      <3> QED
        BY <3>1 DEF Range
    <2> QED
      BY <1>7, <1>19, <1>22, <2>1, <2>2 DEF Unlinked
  <1>27. Lines(d)'
    <2>1. \A f \in File : Chained(head'[f], tail'[f].page, next', d[f])
      BY <1>1, <1>19 DEF Unlinked
    <2>2. \A f, g \in File : f # g => Range(d[f]) \cap Range(d[g]) = {}
      BY <1>26
    <2> QED
      BY <1>26, <2>1, <2>2 DEF Lines
  <1>28. Placed(d, M)'
    BY <1>1, <1>25 DEF Placed
  <1>29. \A f \in File : \A a : a \in M[f] <=> (a \in L[f] /\ a.page # p)
    <2> SUFFICES ASSUME NEW f \in File
                 PROVE  \A a : a \in Places(d[f], tail[f]) <=>
                                 (a \in Places(c[f], tail[f]) /\ a.page # p)
      BY <1>25 DEF Sound
    <2>1. \A a : a \in [page : Range(d[f]), slot : 0..(Slots - 1)] <=>
                   (a \in [page : Range(c[f]), slot : 0..(Slots - 1)] /\ a.page # p)
      BY <1>26
    <2> QED
      BY <2>1 DEF Places
  <1>30. Clear(d)'
    <2> SUFFICES ASSUME NEW f \in File
                 PROVE  Range(d[f]) \cap (free \cup isData \cup {p}) = {}
      BY <1>1, <1>18 DEF Clear
    <2>1. Range(c[f]) \cap (free \cup isData \cup {scan.block}) = {}
      BY DEF Sound, Clear
    <2> QED
      BY <1>26, <2>1
  <1>31. Walks(d)'
    <2>1. k \in 1..Len(r) /\ scan'.at = r[k]
      <3>1. k \in 1..Len(r) /\ ~(k < k)
        BY <1>3, <1>8, <1>22
      <3> QED
        BY <1>18, <1>22, <3>1
    <2>2. k > 1 => scan'.prev = r[k - 1]
      <3> SUFFICES ASSUME k > 1 PROVE scan.prev = r[k - 1]
        BY <1>18
      <3>1. k - 1 \in 1..Len(r) /\ k - 1 < k
        BY <1>3, <1>8, <1>22
      <3> QED
        BY <1>4, <1>22, <3>1
    <2>3. m - 1 \in k..Len(r) /\ scan'.stop = r[m - 1]
      <3>1. m - 1 \in k..Len(r) /\ m - 1 \in 1..Len(r) /\ ~(m - 1 < k) /\ (m - 1) + 1 = m
        BY <1>3, <1>8, <1>22
      <3> QED
        BY <1>5, <1>18, <1>22, <3>1
    <2>4. Scanning(r)'
      BY <2>1, <2>2, <2>3 DEF Scanning
    <2> QED
      BY <1>1, <1>26, <2>4 DEF Walks
  <1>32. Counted(d)'
    <2> SUFFICES ASSUME NEW f \in File, NEW q \in Range(d[f])
                 PROVE  node[q].obj >= IF q = tail[f].page THEN tail[f].slot ELSE Slots
      BY <1>1 DEF Counted
    <2> QED
      BY <1>3, <1>26 DEF Counted
  <1>33. DataApart'
    <2>1. Logged = {} /\ Logged' = {} /\ Indexed' = Indexed /\ DOMAIN fresh' = {}
      <3>1. DOMAIN <<>> = {}
        OBVIOUS
      <3> QED
        BY <1>1, <1>11, <3>1 DEF Logged, Indexed
    <2>2. p \notin free \cup isData
      BY <1>2, <1>3, <1>7 DEF Sound, Clear
    <2>3. Indexed \subseteq isData \ free
      BY <1>3 DEF DataApart
    <2> QED
      BY <1>1, <1>18, <2>1, <2>2, <2>3 DEF DataApart
  <1>34. ASSUME NEW j \in 1..Slots
         PROVE  /\ [page |-> p, slot |-> j - 1] \in L[file]
                /\ e[j] = memory[p][j - 1]
    <2>1. j - 1 \in 0..(Slots - 1) /\ j - 1 < Slots
      BY PagesCounted
    <2>2. [page |-> p, slot |-> j - 1] \in Places(s, tail[file])
      <3>1. [page |-> p, slot |-> j - 1] \in [page : Range(s), slot : 0..(Slots - 1)]
        BY <1>7, <2>1
      <3>2. ([page |-> p, slot |-> j - 1]).page = p /\ ([page |-> p, slot |-> j - 1]).slot = j - 1
        OBVIOUS
      <3> QED
        BY <1>2, <1>9, <2>1, <3>1, <3>2 DEF Places
    <2> QED
      BY <1>2, <1>3, <1>15, <1>24, <2>2 DEF Sound
  <1>35. /\ \A j \in 1..n : /\ IsInjective(e[j].data)
                            /\ Range(e[j].data) \subseteq isData \ (free \cup scan.dead)
         /\ \A j, i \in 1..n : j # i => Disjoint(e[j], e[i])
         /\ \A f \in File : \A a \in M[f], j \in 1..n : Disjoint(memory[a.page][a.slot], e[j])
    <2>1. ASSUME NEW j \in 1..n
          PROVE  IsInjective(e[j].data) /\ Range(e[j].data) \subseteq isData \ (free \cup scan.dead)
      <3>1. PICK a : a = [page |-> p, slot |-> j - 1]
        OBVIOUS
      <3>2. a \in L[file] /\ e[j] = memory[a.page][a.slot]
        BY <1>24, <1>34, <3>1
      <3> QED
        BY <1>3, <3>2 DEF Once, InUse
    <2>2. ASSUME NEW j \in 1..n, NEW i \in 1..n, j # i PROVE Disjoint(e[j], e[i])
      <3>1. PICK a, b : a = [page |-> p, slot |-> j - 1] /\ b = [page |-> p, slot |-> i - 1]
        OBVIOUS
      <3>2. /\ a \in L[file] /\ e[j] = memory[a.page][a.slot]
            /\ b \in L[file] /\ e[i] = memory[b.page][b.slot]
        BY <1>24, <1>34, <3>1
      <3>3. a # b
        <4>1. a.slot = j - 1 /\ b.slot = i - 1 /\ j - 1 # i - 1
          BY <2>2, <3>1
        <4> QED
          BY <4>1
      <3> QED
        BY <1>3, <3>2, <3>3 DEF Once
    <2>3. ASSUME NEW f \in File, NEW a \in M[f], NEW j \in 1..n
          PROVE  Disjoint(memory[a.page][a.slot], e[j])
      <3>1. PICK b : b = [page |-> p, slot |-> j - 1]
        OBVIOUS
      <3>2. b \in L[file] /\ b.page = p /\ e[j] = memory[b.page][b.slot]
        BY <1>24, <1>34, <3>1
      <3>3. a \in L[f] /\ a.page # p
        BY <1>29
      <3>4. a # b
        BY <3>2, <3>3
      <3> QED
        BY <1>3, <3>2, <3>3, <3>4 DEF Once
    <2> QED
      BY <2>1, <2>2, <2>3
  <1>36. /\ \A i \in DOMAIN runs' :
              /\ runs'[i].data # <<>> /\ IsInjective(runs'[i].data)
              /\ runs'[i].bitmap = {} /\ runs'[i].invalid = 0
              /\ \E j \in 1..n : Range(runs'[i].data) \subseteq Range(e[j].data) \ AllInvalid(e)
         /\ \A i, j \in DOMAIN runs' : i # j => Disjoint(runs'[i], runs'[j])
         /\ \A j \in 1..n : \A i \in 1..Len(e[j].data) :
              \/ e[j].data[i] \in AllInvalid(e)
              \/ \E x \in DOMAIN runs' : Names(runs'[x], e[j].first + i - 1, e[j].data[i])
    <2>1. /\ \A j \in 1..n : IsInjective(e[j].data)
          /\ \A j, i \in 1..n : j # i => Disjoint(e[j], e[i])
      BY <1>35
    <2>2. Splits(e, n, AllRuns(e))
      BY <1>13, <1>15, <2>1, RunsTogether
    <2>3. runs' = AllRuns(e)
      BY <1>16
    <2>4. Splits(e, n, runs')
      BY <2>2, <2>3, Zenon
    <2> QED
      BY <2>4 DEF Splits
  <1>37. CallShape'
    <2>1. Len(<<>>) = 0 /\ 1..0 = {}
      OBVIOUS
    <2>2. \A i \in DOMAIN runs' : runs'[i].bitmap = {} /\ runs'[i].invalid = 0
      BY <1>36
    <2> QED
      BY <1>1, <1>7, <1>11, <1>18, <2>1, <2>2 DEF CallShape
  <1>38. Once(M)'
    <2>1. ASSUME NEW f \in File, NEW a \in M[f]
          PROVE  /\ memory[a.page][a.slot].data # <<>>
                 /\ IsInjective(memory[a.page][a.slot].data)
                 /\ Range(memory[a.page][a.slot].data) \subseteq isData \ (free \cup AllInvalid(e))
      <3>1. a \in L[f]
        BY <1>29
      <3>2. InUse(memory[a.page][a.slot])
        BY <1>3, <3>1 DEF Once
      <3>3. Range(memory[a.page][a.slot].data) \cap AllInvalid(e) = {}
        <4> SUFFICES ASSUME NEW j \in 1..n, NEW q \in InvalidPages(e[j]),
                            q \in Range(memory[a.page][a.slot].data)
                     PROVE  FALSE
          BY <1>15 DEF AllInvalid
        <4>1. q \in Range(e[j].data)
          BY <1>15, InvalidInside
        <4>2. Range(memory[a.page][a.slot].data) \cap Range(e[j].data) = {}
          BY <1>35 DEF Disjoint
        <4> QED
          BY <4>1, <4>2
      <3> QED
        BY <3>2, <3>3 DEF InUse
    <2>2. ASSUME NEW i \in DOMAIN runs'
          PROVE  /\ runs'[i].data # <<>> /\ IsInjective(runs'[i].data)
                 /\ Range(runs'[i].data) \subseteq isData \ (free \cup AllInvalid(e))
      <3>1. PICK j \in 1..n : Range(runs'[i].data) \subseteq Range(e[j].data) \ AllInvalid(e)
        BY <1>36
      <3>2. Range(e[j].data) \subseteq isData \ (free \cup scan.dead)
        BY <1>35
      <3> QED
        BY <1>36, <3>1, <3>2
    <2>3. ASSUME NEW f \in File, NEW a \in M[f], NEW i \in DOMAIN runs'
          PROVE  Disjoint(memory[a.page][a.slot], runs'[i])
      <3>1. PICK j \in 1..n : Range(runs'[i].data) \subseteq Range(e[j].data) \ AllInvalid(e)
        BY <1>36
      <3>2. Range(memory[a.page][a.slot].data) \cap Range(e[j].data) = {}
        BY <1>35 DEF Disjoint
      <3> QED
        BY <3>1, <3>2 DEF Disjoint
    <2>4. \A f, g \in File : \A a \in M[f], b \in M[g] :
            a # b => Disjoint(memory[a.page][a.slot], memory[b.page][b.slot])
      BY <1>3, <1>29 DEF Once
    <2> QED
      BY <1>1, <1>18, <1>36, <2>1, <2>2, <2>3, <2>4 DEF Once, InUse
  <1>39. FreshIn(M)'
    <2>1. fresh' = <<>> /\ DOMAIN <<>> = {}
      BY <1>1, <1>11
    <2> QED
      BY <2>1 DEF FreshIn
  <1>40. IndexIn(M)'
    <2> SUFFICES ASSUME NEW f \in File, NEW i \in FilePage, index[f][i] # NoPage
                 PROVE  \/ \E a \in M[f] : Names(memory[a.page][a.slot], i, index[f][i])
                        \/ file = f /\ \E x \in DOMAIN runs' : Names(runs'[x], i, index[f][i])
                        \/ index[f][i] \in AllInvalid(e)
      BY <1>1, <1>18 DEF IndexIn
    <2>1. PICK a \in L[f] : Names(memory[a.page][a.slot], i, index[f][i])
      <3>1. DOMAIN <<>> = {}
        OBVIOUS
      <3> QED
        BY <1>3, <1>11, <3>1 DEF IndexIn
    <2>2. CASE a.page # p
      BY <1>29, <2>1, <2>2
    <2>3. CASE a.page = p
      <3>1. a.page \in Range(c[f]) /\ a.slot \in 0..(Slots - 1)
        BY PlacesIn
      <3>2. f = file
        BY <1>2, <1>3, <1>7, <1>26, <2>3, <3>1
      <3>3. a.slot + 1 \in 1..n /\ (a.slot + 1) - 1 = a.slot
        BY <1>24, <3>1, PagesCounted
      <3>4. PICK j : j = a.slot + 1
        OBVIOUS
      <3>5. j \in 1..n /\ e[j] = memory[a.page][a.slot]
        BY <1>15, <2>3, <3>3, <3>4
      <3>6. PICK x \in 1..Len(e[j].data) : e[j].data[x] = index[f][i] /\ e[j].first + x - 1 = i
        BY <2>1, <3>5 DEF Names
      <3>7. \/ e[j].data[x] \in AllInvalid(e)
            \/ \E y \in DOMAIN runs' : Names(runs'[y], e[j].first + x - 1, e[j].data[x])
        BY <1>36, <3>5
      <3> QED
        BY <3>2, <3>6, <3>7
    <2> QED
      BY <2>2, <2>3
  <1> QED
    BY <1>27, <1>28, <1>30, <1>31, <1>32, <1>37, <1>33, <1>38, <1>39, <1>40
       DEF WellFormed, Sound, Placed
-----------------------------------------------------------------------------
(* The invariant is inductive.                                             *)
LEMMA NothingMoves ==
  ASSUME IInv, UNCHANGED vars
  PROVE  IInv'
  <1>1. TypeOK' <=> TypeOK
    BY DEF TypeOK, vars, pool, inodes
  <1>2. ASSUME fault' = "none" PROVE WellFormed'
    <2>1. fault = "none"
      BY <1>2 DEF vars
    <2>2. PICK c, L : Sound(c, L)
      BY <2>1, Unfold
    <2>3. file' = file /\ scan' = scan
          /\ UNCHANGED <<free, next, node, isData, memory, head, tail, index, fresh, runs>>
      BY DEF vars, pool, inodes
    <2>4. CallShape'
      BY <2>2 DEF Sound, CallShape, vars, pool, inodes
    <2>5. Walks(c)'
      <3>1. PICK s : s = c[file]
        OBVIOUS
      <3>2. Scanning(s) => Scanning(s)'
        BY <2>3 DEF Scanning
      <3>3. pc' = pc
        BY DEF vars
      <3> QED
        BY <2>2, <2>3, <3>1, <3>2, <3>3 DEF Sound, Walks
    <2> QED
      BY <2>2, <2>3, <2>4, <2>5, QuietStep
  <1> QED
    BY <1>1, <1>2, FoldNext DEF IInv

LEMMA StepInv ==
  ASSUME IInv, [Next]_vars
  PROVE  IInv'
  <1>1. CASE UNCHANGED vars
    BY <1>1, NothingMoves
  <1>2. ASSUME fault = "none",
               \/ \E f \in File : Create(f) \/ BeginWrite(f) \/ BeginScan(f)
               \/ WriteEntry \/ IndexPage \/ EndWrite
               \/ SkipPage \/ TakePage \/ MoveRun \/ FreeBlock \/ EndScan
               \/ RunDry
        PROVE  IInv'
    <2>1. TypeOK /\ \E c, L : Sound(c, L)
      BY <1>2, Unfold
    <2>2. PICK c, L : Sound(c, L)
      BY <2>1
    <2>3. TypeOK' /\ (fault' = "none" => WellFormed')
      <3>1. CASE \E f \in File : Create(f)
        BY <2>1, <2>2, <3>1, LogCreated
      <3>2. CASE \E f \in File : BeginWrite(f)
        BY <2>1, <2>2, <3>2, WriteBegins
      <3>3. CASE \E f \in File : BeginScan(f)
        BY <2>1, <2>2, <3>3, ScanBegins
      <3>4. CASE WriteEntry
        BY <2>1, <2>2, <3>4, EntryWritten
      <3>5. CASE IndexPage
        BY <2>1, <2>2, <3>5, PageIndexed
      <3>6. CASE EndWrite
        BY <2>1, <2>2, <3>6, WriteEnds
      <3>7. CASE SkipPage
        BY <2>1, <2>2, <3>7, PageSkipped
      <3>8. CASE TakePage
        BY <2>1, <2>2, <3>8, PageTaken
      <3>9. CASE MoveRun
        BY <2>1, <2>2, <3>9, RunMoved
      <3>10. CASE FreeBlock
        BY <2>1, <2>2, <3>10, BlockFreed
      <3>11. CASE EndScan
        BY <2>1, <2>2, <3>11, ScanEnds
      <3>12. CASE RunDry
        BY <2>1, <3>12, PoolRunsDry
      <3> QED
        BY <1>2, <3>1, <3>2, <3>3, <3>4, <3>5, <3>6, <3>7, <3>8, <3>9, <3>10, <3>11, <3>12
    <2> QED
      BY <2>3, FoldNext
  <1> QED
    BY <1>1, <1>2 DEF Next

(* Every reachable state of the logs has the shape that nvmio_write and    *)
(* start_gc_task take for granted, and its parts are those listed at IInv. *)
THEOREM Safety == Spec => []IInv
  <1>1. Init => IInv
    BY InitInv
  <1>2. IInv /\ [Next]_vars => IInv'
    BY StepInv
  <1> QED
    BY <1>1, <1>2, PTL DEF Spec

(* nvmio_write and start_gc_task keep every field, entry and counter of    *)
(* the logs in its range: no entry marks pages past the 64 of its bitmap   *)
(* or past the end of its file, and no slot is past the end of its page.   *)
THEOREM Typed == Spec => []TypeOK
  <1>1. IInv => TypeOK
    BY DEF IInv
  <1> QED
    BY <1>1, Safety, PTL

(* Whatever nvmio_write appends and start_gc_task unlinks, the running log *)
(* of a file holds its B+tree, until gc_log_block is about to free a page  *)
(* that the tree names.  It says nothing of the log after a crash.         *)
THEOREM LogHoldsIndex == Spec => []LogCoversIndex
  <1>1. IInv => LogCoversIndex
    BY DEF IInv
  <1> QED
    BY <1>1, Safety, PTL

(* The collector, which appends to the log that it walks and unlinks pages *)
(* behind and before it, leaves every log a chain from its head to the     *)
(* page of its tail, apart from the others, from the pool and from the     *)
(* data in use.                                                            *)
THEOREM LogsKeepShape == Spec => []LogShape
  <1>1. ASSUME IInv PROVE LogShape
    <2> SUFFICES ASSUME fault = "none"
                 PROVE  /\ \A f \in File : head[f] # NoPage =>
                             /\ tail[f].page \in LogPages(f)
                             /\ \A p \in LogPages(f) \ {tail[f].page} : next[p] # NoPage
                             /\ \A p, q \in LogPages(f) \ {tail[f].page} : next[p] = next[q] => p = q
                             /\ LogPages(f) \cap (free \cup Indexed) = {}
                        /\ \A f, g \in File : f # g => LogPages(f) \cap LogPages(g) = {}
      BY DEF LogShape
    <2>1. TypeOK /\ \E c, L : Sound(c, L)
      BY <1>1, Unfold
    <2>2. PICK c, L : Sound(c, L)
      BY <2>1
    <2>3. \A f \in File : /\ c[f] \in Seq(Page) /\ Chained(head[f], tail[f].page, next, c[f])
                          /\ LogPages(f) = Range(c[f])
      <3>1. \A f \in File : c[f] \in Seq(Page) /\ Chained(head[f], tail[f].page, next, c[f])
        BY <2>2 DEF Sound, Lines
      <3> QED
        BY <2>1, <3>1, LogIsChain
    <2>4. \A f, g \in File : f # g => LogPages(f) \cap LogPages(g) = {}
      BY <2>2, <2>3 DEF Sound, Lines
    <2>5. ASSUME NEW f \in File, head[f] # NoPage
          PROVE  /\ tail[f].page \in LogPages(f)
                 /\ \A p \in LogPages(f) \ {tail[f].page} : next[p] # NoPage
                 /\ \A p, q \in LogPages(f) \ {tail[f].page} : next[p] = next[q] => p = q
                 /\ LogPages(f) \cap (free \cup Indexed) = {}
      <3>1. PICK s, t : s = c[f] /\ t = tail[f].page
        OBVIOUS
      <3>2. s \in Seq(Page) /\ Chained(head[f], t, next, s) /\ LogPages(f) = Range(s)
        BY <2>3, <3>1
      <3>3. /\ t \in Range(s) /\ DOMAIN s = 1..Len(s) /\ Len(s) \in Nat
            /\ \A i, j \in 1..Len(s) : s[i] = s[j] => i = j
            /\ \A i \in 1..Len(s) : s[i] # NoPage
        BY <2>5, <3>2, ChainEnds, ChainSize
      <3>4. \A p \in Range(s) \ {t} : \E i \in 1..Len(s) :
              p = s[i] /\ i + 1 \in 1..Len(s) /\ next[p] = s[i + 1]
        <4> SUFFICES ASSUME NEW p \in Range(s) \ {t}
                     PROVE  \E i \in 1..Len(s) :
                              p = s[i] /\ i + 1 \in 1..Len(s) /\ next[p] = s[i + 1]
          OBVIOUS
        <4>1. PICK i \in 1..Len(s) : p = s[i]
          BY <3>3 DEF Range
        <4>2. i + 1 \in 1..Len(s) /\ next[s[i]] = s[i + 1]
          BY <3>2, <4>1, ChainEnds
        <4> QED
          BY <4>1, <4>2
      <3>5. \A p \in Range(s) \ {t} : next[p] # NoPage
        BY <3>3, <3>4
      <3>6. ASSUME NEW p \in Range(s) \ {t}, NEW q \in Range(s) \ {t}, next[p] = next[q]
            PROVE  p = q
        <4>1. PICK i \in 1..Len(s) : p = s[i] /\ i + 1 \in 1..Len(s) /\ next[p] = s[i + 1]
          BY <3>4
        <4>2. PICK j \in 1..Len(s) : q = s[j] /\ j + 1 \in 1..Len(s) /\ next[q] = s[j + 1]
          BY <3>4
        <4>3. i + 1 = j + 1
          BY <3>3, <3>6, <4>1, <4>2
        <4> QED
          BY <4>1, <4>2, <4>3
      <3>7. Range(s) \cap (free \cup Indexed) = {}
        <4>1. Indexed \subseteq isData
          BY <2>2 DEF Sound, DataApart
        <4>2. Range(s) \cap (free \cup isData) = {}
          BY <2>2, <3>1 DEF Sound, Clear
        <4> QED
          BY <4>1, <4>2
      <3> QED
        BY <3>1, <3>2, <3>3, <3>5, <3>6, <3>7
    <2> QED
      BY <2>4, <2>5
  <1> QED
    BY <1>1, Safety, PTL
=============================================================================
