--------------------------- MODULE FileDataProofs ---------------------------
(***************************************************************************)
(* What nvmio_write is given reads back, what precedes it and what is in   *)
(* other pages stays, and nvmio_read returns the bytes of the file, for    *)
(* any size of a page, of its node, of an entry and of the file, and calls *)
(* of any length.  What follows a write in its last page does not stay.    *)
(***************************************************************************)
EXTENDS FileData, WellFoundedInduction, TLAPS

-----------------------------------------------------------------------------
(* Division by the size of a page, or of an entry.                         *)
LEMMA Division ==
  ASSUME NEW d \in Nat \ {0}, NEW x \in Nat
  PROVE  /\ x \div d \in Nat /\ x % d \in 0..(d - 1)
         /\ x = d * (x \div d) + (x % d)
         /\ d * (x \div d) \in Nat /\ d * (x \div d) <= x /\ x < d * (x \div d) + d
  <1>1. /\ x \div d \in Nat /\ x % d \in 0..(d - 1)
        /\ x = d * (x \div d) + (x % d)
    OBVIOUS
  <1>2. PICK q, r : q = x \div d /\ r = x % d
    OBVIOUS
  <1>3. q \in Nat /\ r \in 0..(d - 1) /\ x = d * q + r
    BY <1>1, <1>2
  <1>4. d * q \in Nat
    BY <1>3
  <1>5. d * q <= x /\ x < d * q + d
    BY <1>3, <1>4
  <1> QED
    BY <1>1, <1>2, <1>4, <1>5

(* The pages before one end where it begins or before.                     *)
LEMMA Larger ==
  ASSUME NEW d \in Nat \ {0}, NEW a \in Nat, NEW b \in Nat, a < b
  PROVE  /\ d * a \in Nat /\ d * b \in Nat /\ d * (a + 1) = d * a + d
         /\ d * (a + 1) <= d * b
  <1>1. PICK c \in Nat : b = a + 1 + c
    <2>1. b - a - 1 \in Nat /\ b = a + 1 + (b - a - 1)
      OBVIOUS
    <2> QED
      BY <2>1
  <1>2. d * a \in Nat /\ d * b \in Nat /\ d * c \in Nat
    OBVIOUS
  <1>3. d * (a + 1) = d * a + d
    OBVIOUS
  <1>4. d * b = d * (a + 1) + d * c
    BY <1>1
  <1> QED
    BY <1>2, <1>3, <1>4

(* The page of an offset is the one whose bytes it is among.               *)
LEMMA PageIs ==
  ASSUME NEW d \in Nat \ {0}, NEW x \in Nat, NEW q \in Nat, d * q <= x, x < d * q + d
  PROVE  x \div d = q /\ x % d = x - d * q
  <1>1. PICK e, r : e = x \div d /\ r = x % d
    OBVIOUS
  <1>2. e \in Nat /\ r \in 0..(d - 1) /\ x = d * e + r
    BY <1>1, Division
  <1>3. CASE e < q
    <2>1. d * (e + 1) = d * e + d /\ d * (e + 1) <= d * q /\ d * e \in Nat /\ d * q \in Nat
      BY <1>2, <1>3, Larger
    <2> QED
      BY <1>2, <2>1
  <1>4. CASE q < e
    <2>1. d * (q + 1) = d * q + d /\ d * (q + 1) <= d * e /\ d * e \in Nat /\ d * q \in Nat
      BY <1>2, <1>4, Larger
    <2> QED
      BY <1>2, <2>1
  <1>5. CASE e = q
    <2>1. d * q \in Nat
      OBVIOUS
    <2> QED
      BY <1>1, <1>2, <1>5, <2>1
  <1> QED
    BY <1>2, <1>3, <1>4, <1>5

(* The parameters, and what is derived from them.                          *)
LEMMA Sizes ==
  /\ PageSize \in Nat \ {0} /\ NumFilePages \in Nat \ {0} /\ MaxPerEntry \in Nat \ {0}
  /\ FileBytes = PageSize * NumFilePages /\ FileBytes \in Nat /\ FileBytes > 0
  /\ FilePage = 0..(NumFilePages - 1) /\ Byte = 0..(PageSize - 1)
  /\ U64 \in Nat /\ U64 > 2 * FileBytes
  /\ MaxCalls \in Nat /\ NodeSize \in Nat
  <1>1. PageSize \in Nat \ {0} /\ NumFilePages \in Nat \ {0} /\ MaxPerEntry \in Nat \ {0}
        /\ MaxCalls \in Nat /\ NodeSize \in Nat
    BY DataAssumption
  <1>2. FileBytes \in Nat /\ FileBytes > 0
    BY <1>1 DEF FileBytes
  <1>3. 2 * PageSize * NumFilePages = 2 * (PageSize * NumFilePages)
    BY <1>1
  <1>4. U64 \in Nat /\ U64 > 2 * FileBytes
    BY <1>3, DataAssumption DEF FileBytes
  <1> QED
    BY <1>1, <1>2, <1>4 DEF FileBytes, FilePage, Byte

(* The types of the locals of a write.                                     *)
LEMMA FieldsOf ==
  ASSUME wr \in Locals
  PROVE  /\ wr.off \in Nat /\ wr.cnt \in Nat /\ wr.own \in BOOLEAN /\ wr.page_nums \in Nat
         /\ wr.total \in Nat /\ wr.start \in Nat /\ wr.offset \in Byte /\ wr.buf \in Nat
         /\ wr.fresh \in Seq([Byte -> Value])
  BY DEF Locals

(* The locals of no write have their types.                                *)
LEMMA NoLocals ==
  NoWrite \in Locals
  <1>1. 0 \in Byte
    BY Sizes
  <1>2. <<>> \in Seq([Byte -> Value])
    OBVIOUS
  <1> QED
    BY <1>1, <1>2 DEF NoWrite, Locals

-----------------------------------------------------------------------------
(* The invariant holds initially and while a write begins or ends.         *)
LEMMA InitInv == Init => IInv
  <1> SUFFICES ASSUME Init PROVE IInv
    OBVIOUS
  <1>1. 0 \in 0..(U64 - 1) /\ 0 \in 0..MaxCalls
    BY Sizes
  <1>2. Zero \in Value /\ NoPage \in {NoPage}
    BY DEF Value
  <1>3. tree \in [FilePage -> {NoPage} \cup [Byte -> Value]]
    BY <1>2 DEF Init
  <1>4. written \in [0..(FileBytes - 1) -> Value]
    BY <1>2 DEF Init
  <1>5. wr \in Locals
    BY NoLocals DEF Init
  <1> QED
    BY <1>1, <1>3, <1>4, <1>5 DEF Init, IInv, TypeOK

(* The page count of nvmio_write: the pages that the bytes are on, or more *)
(* than there are.                                                         *)
LEMMA PagesAsked ==
  ASSUME NEW o \in Nat, NEW cnt \in Nat, o + cnt <= FileBytes, NEW n, n = PageNums(o, cnt)
  PROVE  /\ n \in Nat /\ n # 0
         /\ n <= NumFilePages =>
              /\ PageSize * ((o \div PageSize) + n - 1) < o + cnt
              /\ o + cnt <= PageSize * ((o \div PageSize) + n)
  <1>1. PICK r, q : r = o % PageSize /\ q = o \div PageSize
    OBVIOUS
  <1>2. /\ q \in Nat /\ r \in Nat /\ r <= PageSize - 1 /\ o = PageSize * q + r
        /\ PageSize * q \in Nat /\ PageSize \in Nat /\ PageSize # 0
    <2>1. PageSize \in Nat \ {0}
      BY Sizes
    <2>2. /\ q \in Nat /\ r \in 0..(PageSize - 1) /\ o = PageSize * q + r
          /\ PageSize * q \in Nat
      BY <1>1, <2>1, Division
    <2> QED
      BY <2>1, <2>2
  <1>3. PICK y, m : y = (cnt + r + U64 - 1) % U64 /\ m = y \div PageSize
    OBVIOUS
  <1>4. n = m + 1
    BY <1>1, <1>3 DEF PageNums
  <1>5. CASE cnt + r = 0
    <2>1. y = U64 - 1 /\ y \in Nat
      <3>1. 0 + U64 - 1 = U64 - 1 /\ U64 - 1 \in 0..(U64 - 1) /\ U64 \in Nat /\ U64 # 0
        BY Sizes
      <3>2. \A x \in 0..(U64 - 1) : x % U64 = x
        BY <3>1
      <3>3. cnt + r + U64 - 1 = U64 - 1
        BY <1>2, <1>5, <3>1
      <3> QED
        BY <1>3, <3>1, <3>2, <3>3
    <2>2. m \in Nat /\ y < PageSize * m + PageSize /\ PageSize * m \in Nat
      <3>1. PageSize \in Nat \ {0} /\ y \in Nat
        BY <1>2, <2>1
      <3> QED
        BY <1>3, <3>1, Division
    <2>3. m >= NumFilePages
      <3>1. SUFFICES ASSUME m < NumFilePages PROVE FALSE
        BY <2>2, Sizes
      <3>2. PageSize * m + PageSize <= PageSize * NumFilePages
        BY <2>2, <3>1, Larger, Sizes
      <3> QED
        BY <2>1, <2>2, <3>2, Sizes
    <2> QED
      BY <1>4, <2>2, <2>3, Sizes
  <1>6. CASE cnt + r # 0
    <2>1. y = cnt + r - 1 /\ y \in Nat
      <3>1. cnt + r - 1 \in 0..(U64 - 1) /\ U64 \in Nat /\ U64 # 0
        BY <1>2, <1>6, Sizes
      <3>2. \A x \in 0..(U64 - 1) : (x + U64) % U64 = x
        BY <3>1
      <3>3. cnt + r + U64 - 1 = (cnt + r - 1) + U64
        BY <1>2, <3>1
      <3> QED
        BY <1>3, <3>1, <3>2, <3>3
    <2>2. /\ m \in Nat /\ PageSize * m <= y /\ y < PageSize * m + PageSize
          /\ PageSize * m \in Nat
      <3>1. PageSize \in Nat \ {0} /\ y \in Nat
        BY <1>2, <2>1
      <3> QED
        BY <1>3, <3>1, Division
    <2>3. /\ PageSize * (q + n - 1) = PageSize * q + PageSize * m
          /\ PageSize * (q + n) = PageSize * q + PageSize * m + PageSize
      <3>1. q + n - 1 = q + m /\ q + n = q + m + 1
        BY <1>2, <1>4, <2>2
      <3> QED
        BY <1>2, <2>2, <3>1
    <2> QED
      BY <1>1, <1>2, <1>4, <2>1, <2>2, <2>3
  <1> QED
    BY <1>2, <1>5, <1>6

(* The start of nvmio_write keeps the invariant.                           *)
LEMMA WriteBegins ==
  ASSUME TypeOK, NEW o \in Nat, NEW cnt \in Nat, NEW own \in BOOLEAN, own => o = file_off,
         BeginWrite(o, cnt, own)
  PROVE  IInv'
  <1>1. /\ o + cnt <= FileBytes /\ pc' = "write" /\ calls' = calls + 1 /\ calls < MaxCalls
        /\ UNCHANGED <<tree, i_size, file_off, written, fault>>
    BY DEF BeginWrite
  <1>2. PICK n, q, r : n = PageNums(o, cnt) /\ q = o \div PageSize /\ r = o % PageSize
    OBVIOUS
  <1>3. wr' = [off |-> o, cnt |-> cnt, own |-> own, page_nums |-> n, total |-> cnt,
               start |-> q, offset |-> r, buf |-> 0, fresh |-> <<>>]
    BY <1>2 DEF BeginWrite, NoWrite
  <1>4. /\ n \in Nat /\ n # 0
        /\ n <= NumFilePages =>
             /\ PageSize * (q + n - 1) < o + cnt
             /\ o + cnt <= PageSize * (q + n)
    BY <1>1, <1>2, PagesAsked
  <1>5. q \in Nat /\ r \in Byte /\ o = PageSize * q + r
    <2>1. PageSize \in Nat \ {0} /\ Byte = 0..(PageSize - 1)
      BY Sizes
    <2> QED
      BY <1>2, <2>1, Division
  <1>6. Len(<<>>) = 0 /\ 1..0 = {} /\ <<>> \in Seq([Byte -> Value])
    OBVIOUS
  <1>7. wr' \in Locals
    BY <1>3, <1>4, <1>5, <1>6 DEF Locals
  <1>8. calls' \in 0..MaxCalls /\ calls' > 0
    BY <1>1, Sizes DEF TypeOK
  <1>9. TypeOK'
    BY <1>1, <1>7, <1>8 DEF TypeOK
  <1>10. 0 % MaxPerEntry = 0
    BY Sizes
  <1>11. Divided'
    <2>1. /\ wr'.off = o /\ wr'.cnt = cnt /\ wr'.own = own /\ wr'.page_nums = n
          /\ wr'.total = cnt /\ wr'.start = q /\ wr'.offset = r /\ wr'.buf = 0
          /\ wr'.fresh = <<>> /\ Len(wr'.fresh) = 0
      BY <1>3, <1>6
    <2>2. NumFilePages \in Nat
      BY Sizes
    <2>3. q = q + 0 /\ 0 + cnt = cnt /\ o + 0 = o
      BY <1>5
    <2>4. ~(n > NumFilePages) => n <= NumFilePages
      BY <1>4, <2>2
    <2> QED
      BY <1>1, <1>2, <1>4, <1>5, <1>8, <1>10, <2>1, <2>3, <2>4 DEF Divided, Wraps
  <1>12. Filled'
    <2>1. Len(wr'.fresh) = 0
      BY <1>3, <1>6
    <2> QED
      BY <1>6, <2>1 DEF Filled
  <1> QED
    BY <1>9, <1>11, <1>12 DEF IInv

(* The end of a write keeps the invariant.                                 *)
LEMMA WriteEnds ==
  ASSUME TypeOK, Divided, Filled, EndWrite
  PROVE  IInv'
  <1>1. pc' = "idle" /\ wr' = NoWrite /\ UNCHANGED <<calls, fault>>
    BY DEF EndWrite
  <1>2. tree' \in [FilePage -> {NoPage} \cup [Byte -> Value]]
    <2>1. wr.fresh \in Seq([Byte -> Value]) /\ tree \in [FilePage -> {NoPage} \cup [Byte -> Value]]
      BY FieldsOf DEF TypeOK
    <2>2. \A k \in DOMAIN wr.fresh : wr.fresh[k] \in [Byte -> Value]
      BY <2>1
    <2> QED
      BY <2>1, <2>2 DEF EndWrite
  <1>3. /\ file_off \in 0..(U64 - 1) /\ i_size \in 0..(U64 - 1)
        /\ \A x \in Nat : x % U64 \in 0..(U64 - 1)
    <2>1. U64 \in Nat \ {0}
      BY Sizes
    <2> QED
      BY <2>1 DEF TypeOK
  <1>4. file_off + wr.cnt \in Nat
    BY <1>3, Sizes, FieldsOf DEF TypeOK
  <1>5. file_off' \in 0..(U64 - 1) /\ i_size' \in 0..(U64 - 1)
    BY <1>3, <1>4 DEF EndWrite
  <1>6. written' \in [0..(FileBytes - 1) -> Value]
    <2>1. calls \in 1..MaxCalls
      BY Sizes DEF TypeOK, Divided
    <2>2. \A o \in 0..(FileBytes - 1) : Token(calls, o) \in Value
      BY <2>1 DEF Value
    <2> QED
      BY <2>2 DEF EndWrite, TypeOK
  <1>7. TypeOK'
    BY <1>1, <1>2, <1>5, <1>6, NoLocals DEF TypeOK
  <1> QED
    BY <1>1, <1>7 DEF IInv

(* So do the calls that move the offset.                                   *)
LEMMA OffsetMoves ==
  ASSUME TypeOK, pc = "idle", AtfsRead \/ AtfsLseek
  PROVE  IInv'
  <1>1. UNCHANGED <<tree, i_size, pc, wr, written, calls, fault>>
    BY DEF AtfsRead, AtfsLseek
  <1>2. U64 \in Nat \ {0} /\ \A x \in Int : x % U64 \in 0..(U64 - 1)
    <2>1. U64 \in Nat \ {0}
      BY Sizes
    <2> QED
      BY <2>1
  <1>3. file_off \in Nat /\ i_size \in Nat
    BY <1>2 DEF TypeOK
  <1>4. file_off' \in 0..(U64 - 1)
    <2>1. CASE AtfsRead
      <3>1. PICK cnt \in Counts : file_off' = (file_off + cnt) % U64
        BY <2>1 DEF AtfsRead
      <3>2. cnt \in Nat
        BY DataAssumption
      <3> QED
        BY <1>2, <1>3, <3>1, <3>2
    <2>2. CASE AtfsLseek
      <3>1. PICK base \in {0, file_off, i_size}, offset \in -1..1 : file_off' = (base + offset) % U64
        BY <2>2 DEF AtfsLseek
      <3>2. base + offset \in Int
        BY <1>3
      <3> QED
        BY <1>2, <3>1, <3>2
    <2> QED
      BY <2>1, <2>2
  <1>5. TypeOK'
    BY <1>1, <1>4 DEF TypeOK
  <1> QED
    BY <1>1, <1>5 DEF IInv

-----------------------------------------------------------------------------
(* How a turn of the loop divides the T bytes that are left, O bytes into  *)
(* the first of n pages: a first page, if it begins inside one or has only *)
(* one, whole pages, and a last page, if it ends inside one.               *)
Allotted(T, O, n, alloc, s) ==
  /\ alloc \in Nat /\ alloc # 0 /\ alloc <= n
  /\ alloc = n => s.size = T
  /\ alloc # n => alloc = MaxPerEntry /\ s.size = PageSize * alloc - O /\ PageSize * alloc < T + O
  /\ s.size \in Nat /\ s.size <= T /\ s.last \in Nat /\ s.last < PageSize

Lead(s, alloc) == alloc - s.mid - (IF s.last # 0 THEN 1 ELSE 0)

Lone(T, O, n, alloc, s) ==
  T <= PageSize - O =>
    n = 1 /\ Lead(s, alloc) = 1 /\ s.mid = 0 /\ s.last = 0 /\ s.first = T

Several(T, O, n, alloc, s) ==
  T > PageSize - O =>
    /\ n # 1
    /\ Lead(s, alloc) = IF O # 0 THEN 1 ELSE 0
    /\ s.first = IF O # 0 THEN PageSize - O ELSE 0
    /\ s.mid \in Nat
    /\ s.last # 0 => T + O = PageSize * (alloc - 1) + s.last
    /\ s.last = 0 => PageSize * alloc <= T + O

(* What the four locals of a turn come to.                                 *)
LEMMA ShareIs ==
  ASSUME NEW T \in Nat, NEW O \in Byte, NEW n \in Nat, n # 0,
         PageSize * (n - 1) < T + O, T + O <= PageSize * n,
         NEW alloc, alloc = IF n > MaxPerEntry THEN MaxPerEntry ELSE n,
         NEW s, s = Share(T, O, alloc)
  PROVE  Allotted(T, O, n, alloc, s) /\ Lone(T, O, n, alloc, s) /\ Several(T, O, n, alloc, s)
  <1>1. /\ PageSize \in Nat \ {0} /\ O \in Nat /\ O < PageSize /\ MaxPerEntry \in Nat \ {0}
    BY Sizes
  <1>2. alloc \in Nat /\ alloc # 0 /\ alloc <= n /\ (alloc # n => alloc = MaxPerEntry)
    BY <1>1
  <1>3. PICK M, N : M = PageSize * alloc /\ N = PageSize * (n - 1)
    OBVIOUS
  <1>4. /\ M \in Nat /\ N \in Nat /\ PageSize <= M /\ PageSize * n = N + PageSize /\ N < T + O
        /\ PageSize * (alloc - 1) = M - PageSize
    <2>1. M \in Nat /\ N \in Nat
      BY <1>1, <1>2, <1>3
    <2>2. PageSize * (0 + 1) <= PageSize * alloc /\ PageSize * (0 + 1) = PageSize * 0 + PageSize
      BY <1>1, <1>2, Larger
    <2>3. PageSize * ((n - 1) + 1) = PageSize * (n - 1) + PageSize /\ (n - 1) + 1 = n
      BY <1>1
    <2>4. PageSize * (alloc - 1) = PageSize * alloc - PageSize
      BY <1>1, <1>2
    <2> QED
      BY <1>1, <1>3, <2>1, <2>2, <2>3, <2>4
  <1>5. n # 1 => PageSize <= N
    <2>1. n # 1 => PageSize * (0 + 1) <= PageSize * (n - 1) /\ PageSize * (0 + 1) = PageSize
      BY <1>1, Larger
    <2> QED
      BY <1>3, <2>1
  <1>6. alloc # n => M < T + O
    <2>1. alloc # n => alloc = n - 1 \/ alloc < n - 1
      BY <1>2
    <2>2. alloc < n - 1 => PageSize * (alloc + 1) <= PageSize * (n - 1)
                           /\ PageSize * (alloc + 1) = PageSize * alloc + PageSize
      BY <1>1, <1>2, Larger
    <2> QED
      BY <1>1, <1>3, <1>4, <2>1, <2>2
  <1>7. alloc = n => M = N + PageSize /\ T + O <= M
    BY <1>3, <1>4
  <1>8. M % PageSize = 0
    <2>1. PageSize * alloc <= M /\ M < PageSize * alloc + PageSize
      BY <1>1, <1>3, <1>4
    <2>2. PageSize \in Nat \ {0} /\ M \in Nat /\ alloc \in Nat
      BY <1>1, <1>2, <1>4
    <2>3. M % PageSize = M - PageSize * alloc
      BY <2>1, <2>2, PageIs
    <2> QED
      BY <1>3, <1>4, <2>3
  <1>9. PICK size, first, last, mid :
          /\ size = IF T < M - O THEN T ELSE M - O
          /\ first = IF T <= PageSize - O THEN T ELSE IF O # 0 THEN PageSize - O ELSE 0
          /\ last = IF T <= PageSize - O THEN 0 ELSE (size + O) % PageSize
          /\ mid = alloc - (IF T <= PageSize - O \/ O # 0 THEN 1 ELSE 0) - (IF last # 0 THEN 1 ELSE 0)
    OBVIOUS
  <1>10. s = [size |-> size, first |-> first, last |-> last, mid |-> mid]
    BY <1>3, <1>9 DEF Share
  <1>11. s.size = size /\ s.first = first /\ s.last = last /\ s.mid = mid
    BY <1>10
  <1>12. /\ alloc = n => size = T
         /\ alloc # n => size = M - O
         /\ size \in Nat /\ size <= T
    BY <1>1, <1>4, <1>6, <1>7, <1>9
  <1>13. CASE T <= PageSize - O
    <2>1. n = 1 /\ alloc = 1 /\ last = 0 /\ mid = 0 /\ first = T
      BY <1>1, <1>2, <1>4, <1>5, <1>9, <1>13
    <2> QED
      BY <1>1, <1>2, <1>3, <1>6, <1>11, <1>12, <1>13, <2>1 DEF Allotted, Lone, Several, Lead
  <1>14. CASE T > PageSize - O
    <2>1. n # 1
      BY <1>1, <1>4, <1>14
    <2>2. last \in Nat /\ last < PageSize /\ (last # 0 => alloc = n /\ T + O = M - PageSize + last)
          /\ (last = 0 => M <= T + O)
      <3>1. CASE alloc # n
        <4>1. last = 0
          <5>1. size + O = M
            BY <1>1, <1>4, <1>12, <3>1
          <5> QED
            BY <1>8, <1>9, <1>1, <1>14, <5>1
        <4> QED
          BY <1>1, <1>4, <1>6, <3>1, <4>1
      <3>2. CASE alloc = n /\ T + O = M
        <4>1. last = 0
          BY <1>1, <1>8, <1>9, <1>12, <1>14, <3>2
        <4> QED
          BY <1>1, <1>4, <3>2, <4>1
      <3>3. CASE alloc = n /\ T + O < M
        <4>1. (T + O) % PageSize = T + O - N
          <5>1. /\ T + O \in Nat /\ n - 1 \in Nat /\ PageSize * (n - 1) <= T + O
                /\ T + O < PageSize * (n - 1) + PageSize
            BY <1>1, <1>3, <1>4, <1>7, <3>3
          <5>2. PageSize \in Nat \ {0}
            BY <1>1
          <5>3. PICK x, q : x = T + O /\ q = n - 1
            OBVIOUS
          <5>4. x % PageSize = x - PageSize * q
            BY <5>1, <5>2, <5>3, PageIs
          <5>5. PageSize * q = N /\ x - N = (T + O) - N
            <6>1. PageSize * q = N
              BY <1>3, <5>3, Zenon
            <6> QED
              BY <5>3, <6>1
          <5>6. x % PageSize = x - N
            BY <5>4, <5>5
          <5> QED
            BY <1>1, <1>4, <5>3, <5>6
        <4>2. last = T + O - N
          BY <1>1, <1>9, <1>12, <1>14, <3>3, <4>1
        <4> QED
          BY <1>1, <1>4, <1>7, <3>3, <4>2
      <3> QED
        BY <1>1, <1>4, <1>7, <3>1, <3>2, <3>3
    <2>3. mid \in Nat /\ alloc - mid - (IF last # 0 THEN 1 ELSE 0) = IF O # 0 THEN 1 ELSE 0
      BY <1>1, <1>2, <1>9, <1>14, <2>1, <2>2
    <2>4. first = IF O # 0 THEN PageSize - O ELSE 0
      BY <1>1, <1>9, <1>14
    <2>5. ~(T <= PageSize - O)
      BY <1>1, <1>14
    <2> QED
      BY <1>2, <1>3, <1>4, <1>6, <1>11, <1>12, <2>1, <2>2, <2>3, <2>4, <2>5
         DEF Allotted, Lone, Several, Lead
  <1> QED
    BY <1>1, <1>13, <1>14

(* Where a turn of the loop stands: its next page, the bytes that are left *)
(* and where they come from.                                               *)
Stands(off, cnt, T, O, S, n, pn, buf) ==
  /\ off = wr.off /\ cnt = wr.cnt /\ T = wr.total /\ O = wr.offset /\ S = wr.start
  /\ n = Len(wr.fresh) /\ pn = wr.page_nums /\ buf = wr.buf
  /\ off \in Nat /\ cnt \in Nat /\ T \in Nat /\ O \in Byte /\ S \in Nat /\ n \in Nat
  /\ pn \in Nat /\ pn # 0 /\ buf \in Nat
  /\ S = (off \div PageSize) + n
  /\ buf + T = cnt
  /\ n # 0 => O = 0
  /\ n = 0 => buf = 0
  /\ PageSize * S \in Nat /\ off + buf = PageSize * S + O
  /\ n % MaxPerEntry = 0
  /\ PageSize * (pn - 1) < T + O /\ T + O <= PageSize * pn

(* The loop stands so at the start of each turn.                           *)
LEMMA TurnStands ==
  ASSUME TypeOK, Divided, wr.page_nums # 0, ~Wraps
  PROVE  \E off, cnt, T, O, S, n, pn, buf : Stands(off, cnt, T, O, S, n, pn, buf)
  <1>1. PICK off, cnt, T, O, S, n, pn, buf :
          /\ off = wr.off /\ cnt = wr.cnt /\ T = wr.total /\ O = wr.offset /\ S = wr.start
          /\ n = Len(wr.fresh) /\ pn = wr.page_nums /\ buf = wr.buf
    OBVIOUS
  <1>2. /\ off \in Nat /\ cnt \in Nat /\ T \in Nat /\ O \in Byte /\ S \in Nat /\ n \in Nat
        /\ pn \in Nat /\ pn # 0 /\ buf \in Nat
    BY <1>1, FieldsOf DEF TypeOK
  <1>3. /\ S = (off \div PageSize) + n
        /\ buf + T = cnt
        /\ O = IF n = 0 THEN off % PageSize ELSE 0
        /\ off + buf = PageSize * S + O
        /\ n % MaxPerEntry = 0
        /\ PageSize * (S + pn - 1) < off + cnt
        /\ off + cnt <= PageSize * (S + pn)
    BY <1>1, <1>2 DEF Divided
  <1>4. PageSize \in Nat \ {0} /\ Byte = 0..(PageSize - 1)
    BY Sizes
  <1>5. PICK A, B, C : A = PageSize * S /\ B = PageSize * (pn - 1) /\ C = PageSize * pn
    OBVIOUS
  <1>6. /\ A \in Nat /\ B \in Nat /\ C \in Nat
        /\ PageSize * (S + pn - 1) = A + B /\ PageSize * (S + pn) = A + C
    <2>1. pn - 1 \in Nat /\ S + pn - 1 = S + (pn - 1)
      BY <1>2
    <2>2. PageSize * (S + (pn - 1)) = PageSize * S + PageSize * (pn - 1)
      BY <1>2, <1>4, <2>1
    <2>3. PageSize * (S + pn) = PageSize * S + PageSize * pn
      BY <1>2, <1>4
    <2> QED
      BY <1>2, <1>4, <1>5, <2>1, <2>2, <2>3
  <1>7. off + cnt = A + O + T
    <2>1. off + buf = A + O /\ buf + T = cnt /\ O \in Nat
      BY <1>2, <1>3, <1>4, <1>5
    <2>2. A \in Nat /\ off \in Nat /\ cnt \in Nat /\ T \in Nat /\ buf \in Nat
      BY <1>2, <1>6
    <2> QED
      BY <2>1, <2>2
  <1>8. B < T + O /\ T + O <= C
    BY <1>2, <1>3, <1>4, <1>6, <1>7
  <1>9. n = 0 => buf = 0
    <2>1. ASSUME n = 0 PROVE buf = 0
      <3>1. S = off \div PageSize /\ O = off % PageSize
        <4>1. off \div PageSize \in Nat
          BY <1>2, <1>4, Division
        <4> QED
          BY <1>3, <2>1, <4>1
      <3>2. off = PageSize * S + O
        BY <1>2, <1>4, <3>1, Division
      <3> QED
        BY <1>2, <1>3, <1>4, <1>5, <1>6, <3>2
    <2> QED
      BY <2>1
  <1>10. n # 0 => O = 0
    BY <1>3
  <1>11. PageSize * S \in Nat /\ PageSize * (pn - 1) < T + O /\ T + O <= PageSize * pn
    BY <1>5, <1>6, <1>8
  <1>12. Stands(off, cnt, T, O, S, n, pn, buf)
    BY <1>1, <1>2, <1>3, <1>9, <1>10, <1>11 DEF Stands
  <1> QED
    BY <1>12

(* The pages a turn fills hold the bytes that belong at their place.       *)
LEMMA PagesHold ==
  ASSUME TypeOK,
         NEW off, NEW cnt, NEW T, NEW O, NEW S, NEW n, NEW pn, NEW buf,
         Stands(off, cnt, T, O, S, n, pn, buf),
         NEW alloc, alloc = IF pn > MaxPerEntry THEN MaxPerEntry ELSE pn,
         NEW s, s = Share(T, O, alloc), NEW k \in 1..alloc
  PROVE  \E page : /\ page = Pages(s, alloc)[k] /\ page = [b \in Byte |-> page[b]]
                   /\ \A b \in Byte : Holds(n + k, b, page[b])
  <1>1. /\ off = wr.off /\ cnt = wr.cnt /\ T = wr.total /\ O = wr.offset /\ S = wr.start
        /\ n = Len(wr.fresh) /\ pn = wr.page_nums /\ buf = wr.buf
        /\ off \in Nat /\ cnt \in Nat /\ T \in Nat /\ O \in Byte /\ S \in Nat /\ n \in Nat
        /\ pn \in Nat /\ pn # 0 /\ buf \in Nat
        /\ S = (off \div PageSize) + n
        /\ buf + T = cnt
        /\ n # 0 => O = 0
        /\ n = 0 => buf = 0
        /\ PageSize * S \in Nat /\ off + buf = PageSize * S + O
        /\ n % MaxPerEntry = 0
        /\ PageSize * (pn - 1) < T + O /\ T + O <= PageSize * pn
    BY DEF Stands
  <1>2. PageSize \in Nat \ {0} /\ Byte = 0..(PageSize - 1) /\ O \in Nat /\ O < PageSize
    <2>1. PageSize \in Nat \ {0} /\ Byte = 0..(PageSize - 1) /\ O \in Byte
      BY <1>1, Sizes, Zenon
    <2> QED
      BY <2>1
  <1>3. Allotted(T, O, pn, alloc, s) /\ Lone(T, O, pn, alloc, s) /\ Several(T, O, pn, alloc, s)
    BY <1>1, ShareIs
  <1>4. alloc \in Nat /\ alloc # 0 /\ k \in Nat /\ 1 <= k /\ k <= alloc
    BY <1>3 DEF Allotted
  <1>5. PICK A, m : A = PageSize * S /\ m = PageSize * (k - 1)
    OBVIOUS
  <1>6. PICK i : i = S + k - 1
    OBVIOUS
  <1>7. /\ i \in Nat /\ PageSize * i = A + m /\ A \in Nat /\ m \in Nat /\ off + buf = A + O
        /\ (k = 1 => m = 0) /\ (k # 1 => PageSize <= m)
        /\ i = (off \div PageSize) + (n + k) - 1
        /\ PageSize * (i + 1) = A + m + PageSize
    <2>1. k - 1 \in Nat /\ i = S + (k - 1)
      BY <1>1, <1>4, <1>6
    <2>2. PageSize * (S + (k - 1)) = PageSize * S + PageSize * (k - 1)
      BY <1>1, <1>2, <2>1
    <2>3. k # 1 => PageSize * (0 + 1) <= PageSize * (k - 1) /\ PageSize * (0 + 1) = PageSize
      BY <1>2, <1>4, <2>1, Larger
    <2>4. k = 1 => PageSize * (k - 1) = 0
      BY <1>2
    <2>5. off \div PageSize \in Nat
      BY <1>1, <1>2, Division
    <2>6. i \in Nat /\ i = (off \div PageSize) + (n + k) - 1
      <3>1. PICK F : F = off \div PageSize
        OBVIOUS
      <3>2. F \in Nat /\ S = F + n /\ n \in Nat
        BY <1>1, <2>5, <3>1
      <3> QED
        BY <1>4, <1>6, <3>1, <3>2
    <2>7. A \in Nat /\ m \in Nat
      BY <1>1, <1>2, <1>5, <2>1
    <2>8. PageSize * (i + 1) = PageSize * i + PageSize
      BY <1>2, <2>6
    <2> QED
      BY <1>1, <1>5, <2>1, <2>2, <2>3, <2>4, <2>6, <2>7, <2>8
  <1>8. ASSUME NEW b \in Byte, NEW byte,
               \/ cnt = 0 /\ byte = Junk
               \/ A + m + b \in off..(off + cnt - 1) /\ byte = Token(calls, A + m + b)
               \/ cnt # 0 /\ A + m + b < off /\ byte = Old(i)[b]
               \/ A + m + b >= off + cnt /\ (n + k - 1) % MaxPerEntry = 0 /\ byte = Junk
               \/ /\ A + m + b >= off + cnt /\ (n + k - 1) % MaxPerEntry # 0
                  /\ byte = Behind(i, (off + cnt) % PageSize, b)
        PROVE  Holds(n + k, b, byte)
    <2>1. PICK j : j = n + k
      OBVIOUS
    <2>2. i = (off \div PageSize) + j - 1 /\ j - 1 = n + k - 1
      BY <1>1, <1>4, <1>7, <2>1
    <2>3. /\ PageSize * i + b = A + m + b /\ End = off + cnt
          /\ (j - 1) % MaxPerEntry = (n + k - 1) % MaxPerEntry
      BY <1>1, <1>7, <2>2 DEF End
    <2>4. /\ i = (wr.off \div PageSize) + j - 1 /\ wr.off = off /\ wr.cnt = cnt
          /\ Target = off..(off + cnt - 1)
      <3>1. /\ i = (wr.off \div PageSize) + j - 1 /\ wr.off = off /\ wr.cnt = cnt
            /\ off \in Nat /\ cnt \in Nat
        BY <1>1, <2>2
      <3>2. Target = off..((off + cnt) - 1)
        BY <3>1 DEF Target, End
      <3> QED
        BY <3>1, <3>2
    <2>5. PICK o, x, y : /\ o = A + m + b /\ x = (n + k - 1) % MaxPerEntry
                         /\ y = (off + cnt) % PageSize
      OBVIOUS
    <2>6. \/ cnt = 0 /\ byte = Junk
          \/ o \in Target /\ byte = Token(calls, o)
          \/ cnt # 0 /\ o < off /\ byte = Old(i)[b]
          \/ o >= End /\ x = 0 /\ byte = Junk
          \/ o >= End /\ x # 0 /\ byte = Behind(i, y, b)
      BY <1>8, <2>3, <2>4, <2>5, Zenon
    <2>7. o = PageSize * i + b /\ x = (j - 1) % MaxPerEntry /\ y = End % PageSize
      BY <2>3, <2>5, Zenon
    <2>8. Holds(j, b, byte)
      BY <2>4, <2>6, <2>7, Zenon DEF Holds
    <2> QED
      BY <2>1, <2>8, Zenon
  <1>9. PICK lead, mid, last, first :
          lead = Lead(s, alloc) /\ mid = s.mid /\ last = s.last /\ first = s.first
    OBVIOUS
  <1>10. /\ last \in Nat /\ last < PageSize
         /\ T <= PageSize - O => pn = 1 /\ lead = 1 /\ mid = 0 /\ last = 0 /\ first = T
         /\ T > PageSize - O =>
              /\ lead = IF O # 0 THEN 1 ELSE 0
              /\ first = IF O # 0 THEN PageSize - O ELSE 0
              /\ mid = alloc - lead - (IF last # 0 THEN 1 ELSE 0)
    <2>1. lead = alloc - mid - (IF last # 0 THEN 1 ELSE 0)
      BY <1>9 DEF Lead
    <2>2. T > PageSize - O => mid \in Nat
      BY <1>3, <1>9 DEF Several
    <2>3. T > PageSize - O => lead \in Nat /\ lead = IF O # 0 THEN 1 ELSE 0
      BY <1>3, <1>9 DEF Several
    <2>4. T > PageSize - O => mid = alloc - lead - (IF last # 0 THEN 1 ELSE 0)
      BY <1>4, <2>1, <2>2, <2>3
    <2> QED
      BY <1>3, <1>9, <2>3, <2>4 DEF Allotted, Lone, Several
  <1>11. /\ PageSize \in Int /\ PageSize > 0 /\ \A b \in Byte : b \in Int /\ 0 <= b /\ b < PageSize
         /\ off \in Nat /\ cnt \in Nat /\ T \in Nat /\ O \in Nat /\ S \in Nat /\ n \in Nat
         /\ pn \in Nat /\ buf \in Nat /\ A \in Nat /\ m \in Nat /\ k \in Nat /\ alloc \in Nat
         /\ O < PageSize /\ buf + T = cnt /\ off + buf = A + O
         /\ (n # 0 => O = 0) /\ (n = 0 => buf = 0)
         /\ (k = 1 => m = 0) /\ (k # 1 => PageSize <= m) /\ 1 <= k /\ k <= alloc
         /\ alloc <= pn /\ i = S + k - 1
    <2>1. alloc <= pn
      BY <1>3 DEF Allotted
    <2>2. PageSize \in Int /\ PageSize > 0 /\ \A b \in Byte : b \in Int /\ 0 <= b /\ b < PageSize
      BY <1>2
    <2> QED
      BY <1>1, <1>2, <1>4, <1>6, <1>7, <2>1, <2>2, Zenon
  <1>12. ASSUME T > PageSize - O
         PROVE  /\ k # alloc \/ last = 0 => m + PageSize <= T + O
                /\ k = alloc /\ last # 0 => T + O = m + last
    <2>1. PICK M, N : M = PageSize * alloc /\ N = PageSize * (alloc - 1)
      OBVIOUS
    <2>2. /\ last # 0 => T + O = N + last
          /\ last = 0 => M <= T + O
      BY <1>3, <1>9, <1>12, <2>1 DEF Several
    <2>3. M \in Nat /\ N \in Nat /\ M = N + PageSize
      <3>1. alloc - 1 \in Nat /\ (alloc - 1) + 1 = alloc
        BY <1>4
      <3>2. PageSize * ((alloc - 1) + 1) = PageSize * (alloc - 1) + PageSize
        BY <1>2, <3>1
      <3> QED
        BY <1>11, <2>1, <3>1, <3>2
    <2>4. k = alloc => m = N
      BY <1>5, <2>1
    <2>5. k # alloc => m + PageSize <= N
      <3>1. ASSUME k # alloc PROVE m + PageSize <= N
        <4>1. k - 1 \in Nat /\ alloc - 1 \in Nat /\ k - 1 < alloc - 1
          BY <1>4, <3>1
        <4>2. PageSize * ((k - 1) + 1) = PageSize * (k - 1) + PageSize
              /\ PageSize * ((k - 1) + 1) <= PageSize * (alloc - 1)
          BY <1>2, <4>1, Larger
        <4> QED
          BY <1>5, <2>1, <4>2
      <3> QED
        BY <3>1
    <2> QED
      BY <1>10, <1>11, <2>2, <2>3, <2>4, <2>5
  <1>13. PICK bk : bk = buf + (IF first # 0 THEN PageSize - O ELSE 0) + (k - lead - 1) * PageSize
    OBVIOUS
  <1>14. ASSUME T > PageSize - O
         PROVE  bk = buf + m - O
    <2>1. PICK g : g = (k - lead - 1) * PageSize
      OBVIOUS
    <2>2. CASE O = 0
      <3>1. lead = 0 /\ first = 0
        BY <1>10, <1>14, <2>2
      <3>2. g = m
        BY <1>5, <1>11, <2>1, <3>1
      <3> QED
        BY <1>13, <1>11, <2>1, <2>2, <3>1, <3>2
    <2>3. CASE O # 0
      <3>1. lead = 1 /\ first = PageSize - O /\ first # 0
        BY <1>2, <1>10, <1>14, <2>3
      <3>2. g = m - PageSize
        BY <1>5, <1>11, <2>1, <3>1
      <3> QED
        BY <1>13, <1>11, <2>1, <3>1, <3>2
    <2> QED
      BY <2>2, <2>3
  <1>15. \A b \in Byte : b \in Nat /\ b < PageSize
    BY <1>2
  <1>16. CASE k <= lead
    <2>1. lead = 1 /\ k = 1 /\ m = 0 /\ i = S
      BY <1>10, <1>16, <1>11
    <2>2. PICK page : page = [b \in Byte |->
              IF b \in O..(O + first - 1) THEN Token(calls, off + (buf + b - O))
              ELSE IF b < O /\ first # 0 THEN Old(S)[b] ELSE Junk]
      OBVIOUS
    <2>3. page = Pages(s, alloc)[k]
      BY <1>1, <1>9, <1>16, <2>2 DEF Pages, FirstPage, User, Lead
    <2>4. first \in Nat /\ first <= T /\ first <= PageSize - O
          /\ (first < PageSize - O => first = T)
      BY <1>10, <1>11, <2>1
    <2>5. first < PageSize - O => T <= PageSize - O
      BY <1>10, <1>11, <2>1
    <2>6. ASSUME NEW b \in Byte PROVE Holds(n + k, b, page[b])
      <3>1. CASE b \in O..(O + first - 1)
        <4>1. off + (buf + b - O) = A + m + b
          BY <1>11, <2>1
        <4>2. A + m + b \in off..(off + cnt - 1)
          BY <1>11, <2>1, <2>4, <3>1
        <4> QED
          BY <1>8, <2>2, <3>1, <4>1, <4>2
      <3>2. CASE b < O /\ first # 0
        <4>1. b \notin O..(O + first - 1)
          BY <1>11, <3>2
        <4>2. A + m + b < off /\ cnt # 0
          BY <1>11, <2>1, <2>4, <3>2
        <4> QED
          BY <1>8, <2>1, <2>2, <3>2, <4>1, <4>2
      <3>3. CASE b \notin O..(O + first - 1) /\ ~(b < O /\ first # 0)
        <4>1. page[b] = Junk
          BY <2>2, <3>3
        <4>2. CASE b < O
          <5>1. first = 0 /\ T = 0 /\ cnt = 0
            BY <1>10, <1>11, <2>1, <2>4, <3>3, <4>2
          <5> QED
            BY <1>1, <1>8, <4>1, <5>1
        <4>3. CASE ~(b < O)
          <5>1. O + first <= b /\ first = T
            BY <1>11, <2>4, <3>3, <4>3
          <5>2. A + m + b >= off + cnt
            BY <1>11, <2>1, <2>4, <5>1
          <5>3. (n + k - 1) % MaxPerEntry = 0
            BY <1>1, <2>1
          <5> QED
            BY <1>8, <4>1, <5>2, <5>3
        <4> QED
          BY <4>2, <4>3
      <3> QED
        BY <3>1, <3>2, <3>3
    <2>7. page = [b \in Byte |-> page[b]]
      BY <2>2
    <2> QED
      BY <2>3, <2>6, <2>7
  <1>17. CASE ~(k <= lead)
    <2>1. T > PageSize - O /\ (O # 0 => k # 1)
      BY <1>10, <1>17, <1>11
    <2>2. bk = buf + m - O /\ (O # 0 => PageSize <= m)
      BY <1>7, <1>14, <2>1
    <2>3. \A b \in Byte : off + (bk + b) = A + m + b /\ A + m + b >= off
      BY <1>11, <2>2
    <2>4. CASE k <= lead + mid
      <3>1. PICK page : page = [b \in Byte |-> Token(calls, off + (bk + b))]
        OBVIOUS
      <3>2. page = Pages(s, alloc)[k]
        BY <1>1, <1>9, <1>13, <1>17, <2>4, <3>1 DEF Pages, User, Lead
      <3>3. k # alloc \/ last = 0
        BY <1>10, <1>11, <2>1, <2>4
      <3>4. ASSUME NEW b \in Byte PROVE Holds(n + k, b, page[b])
        <4>1. A + m + b < off + cnt
          BY <1>12, <1>11, <2>1, <3>3
        <4>2. A + m + b \in off..(off + cnt - 1)
          BY <1>11, <2>3, <4>1
        <4> QED
          BY <1>8, <2>3, <3>1, <4>2
      <3>5. page = [b \in Byte |-> page[b]]
        BY <3>1
      <3> QED
        BY <3>2, <3>4, <3>5
    <2>5. CASE ~(k <= lead + mid)
      <3>1. PICK page : page = [b \in Byte |-> IF b < last THEN Token(calls, off + (bk + b)) ELSE Behind(i, last, b)]
        OBVIOUS
      <3>2. page = Pages(s, alloc)[k]
        BY <1>1, <1>6, <1>9, <1>13, <1>17, <2>5, <3>1 DEF Pages, LastPage, User, Lead
      <3>3. k = alloc /\ last # 0
        BY <1>10, <1>11, <2>1, <2>5
      <3>4. T + O = m + last
        BY <1>12, <2>1, <3>3
      <3>7. (off + cnt) % PageSize = last
        <4>1. PICK x : x = off + cnt
          OBVIOUS
        <4>2. x \in Nat /\ A + m <= x /\ x < A + m + PageSize /\ x - (A + m) = last
          BY <1>10, <1>11, <3>4, <4>1
        <4>3. x % PageSize = x - PageSize * i
          <5>1. PageSize * i <= x /\ x < PageSize * i + PageSize
            BY <1>7, <4>2
          <5> QED
            BY <1>2, <1>7, <4>2, <5>1, PageIs
        <4> QED
          BY <1>7, <4>1, <4>2, <4>3
      <3>8. (n + k - 1) % MaxPerEntry # 0
        <4>1. MaxPerEntry \in Nat \ {0} /\ n % MaxPerEntry = 0 /\ n \in Nat
          BY <1>1, Sizes
        <4>2. alloc <= MaxPerEntry /\ alloc # 1
          <5>1. alloc # 1
            <6>1. SUFFICES ASSUME alloc = 1 PROVE FALSE
              OBVIOUS
            <6>2. lead = 0 /\ O = 0
              <7>1. k = 1 /\ O = 0
                BY <2>1, <3>3, <6>1
              <7> QED
                BY <1>10, <2>1, <7>1
            <6>3. T = last
              <7>1. m = 0 /\ O = 0 /\ T + O = m + last /\ T \in Nat /\ last \in Nat
                BY <1>10, <1>11, <3>3, <3>4, <6>1, <6>2
              <7> QED
                BY <7>1
            <6> QED
              BY <1>10, <1>11, <2>1, <6>2, <6>3
          <5> QED
            BY <1>1, <4>1, <5>1
        <4>3. PICK M, d, e : M = MaxPerEntry /\ d = n \div MaxPerEntry /\ e = alloc - 1
          OBVIOUS
        <4>4. /\ M \in Nat \ {0} /\ d \in Nat /\ n = M * d /\ M * d \in Nat
              /\ e \in Nat /\ e # 0 /\ e < M
          <5>1. /\ n \div MaxPerEntry \in Nat
                /\ n = MaxPerEntry * (n \div MaxPerEntry) + (n % MaxPerEntry)
                /\ MaxPerEntry * (n \div MaxPerEntry) \in Nat
            BY <4>1, Division
          <5>2. M \in Nat \ {0} /\ d \in Nat /\ n = M * d + 0 /\ M * d \in Nat
            BY <4>1, <4>3, <5>1, Zenon
          <5> QED
            BY <1>11, <4>2, <4>3, <5>2
        <4>5. (n + e) % M = (n + e) - M * d
          <5>1. n + e \in Nat /\ M * d <= n + e /\ n + e < M * d + M
            BY <1>11, <4>4
          <5> QED
            BY <4>4, <5>1, PageIs
        <4>6. n + k - 1 = n + e
          BY <1>11, <3>3, <4>3
        <4> QED
          BY <1>11, <4>3, <4>4, <4>5, <4>6
      <3>5. ASSUME NEW b \in Byte PROVE Holds(n + k, b, page[b])
        <4>1. CASE b < last
          <5>1. A + m + b < off + cnt
            BY <1>10, <1>11, <3>4, <4>1
          <5>2. A + m + b \in off..(off + cnt - 1)
            BY <1>11, <2>3, <5>1
          <5> QED
            BY <1>8, <2>3, <3>1, <4>1, <5>2
        <4>2. CASE ~(b < last)
          <5>1. A + m + b >= off + cnt
            BY <1>10, <1>11, <3>4, <4>2
          <5> QED
            BY <1>8, <3>1, <3>7, <3>8, <4>2, <5>1
        <4> QED
          BY <4>1, <4>2
      <3>6. page = [b \in Byte |-> page[b]]
        BY <3>1
      <3> QED
        BY <3>2, <3>5, <3>6
    <2> QED
      BY <2>4, <2>5
  <1> QED
    BY <1>16, <1>17

-----------------------------------------------------------------------------
(* The pages the loop has filled stay as they must be, turn by turn.       *)
LEMMA OnFilePages ==
  ASSUME Divided, TypeOK, ~Wraps, wr.page_nums # 0
  PROVE  wr.start + wr.page_nums <= NumFilePages
  <1>1. PICK x, y : x = wr.start + wr.page_nums - 1 /\ y = wr.off + wr.cnt
    OBVIOUS
  <1>2. x \in Nat /\ y \in Nat /\ PageSize * x < y /\ y <= FileBytes /\ wr.start + wr.page_nums = x + 1
    <2>1. wr.start \in Nat /\ wr.page_nums \in Nat /\ wr.off \in Nat /\ wr.cnt \in Nat
      BY FieldsOf DEF TypeOK
    <2>2. PageSize * x < y /\ y <= FileBytes
      BY <1>1 DEF Divided
    <2> QED
      BY <1>1, <2>1, <2>2
  <1>3. SUFFICES ASSUME NumFilePages <= x PROVE FALSE
    BY <1>2, Sizes
  <1>4. PageSize * NumFilePages <= PageSize * x
    <2>1. PageSize \in Nat \ {0} /\ NumFilePages \in Nat
      BY Sizes
    <2>2. CASE NumFilePages = x
      BY <1>2, <2>1, <2>2
    <2>3. CASE NumFilePages < x
      <3>1. PageSize * (NumFilePages + 1) = PageSize * NumFilePages + PageSize
            /\ PageSize * (NumFilePages + 1) <= PageSize * x
            /\ PageSize * NumFilePages \in Nat /\ PageSize * x \in Nat
        BY <1>2, <2>1, <2>3, Larger
      <3> QED
        BY <2>1, <3>1
    <2> QED
      BY <1>2, <1>3, <2>1, <2>2, <2>3
  <1>5. PageSize * NumFilePages = FileBytes /\ FileBytes \in Nat /\ PageSize * x \in Nat
    BY <1>2, Sizes
  <1> QED
    BY <1>2, <1>4, <1>5

(* What a page must hold is of the type of a byte.                         *)
LEMMA HoldsValue ==
  ASSUME TypeOK, Divided, NEW k \in Nat, NEW b \in Byte, NEW byte, Holds(k, b, byte),
         (wr.off \div PageSize) + k - 1 \in FilePage
  PROVE  byte \in Value
  <1>1. PICK i : i = (wr.off \div PageSize) + k - 1
    OBVIOUS
  <1>2. PICK o : o = PageSize * i + b
    OBVIOUS
  <1>3. \/ o \in Target /\ byte = Token(calls, o)
        \/ \E x \in Byte : byte = Old(i)[x]
        \/ byte = Junk
    BY <1>1, <1>2 DEF Holds, Behind
  <1>4. Old(i) \in [Byte -> Value]
    BY <1>1 DEF Old, Blank, TypeOK, Value
  <1>5. o \in Target => o \in 0..(FileBytes - 1)
    <2>1. wr \in Locals /\ wr.off + wr.cnt <= FileBytes
      BY Zenon DEF TypeOK, Divided
    <2>2. wr.off \in Nat /\ wr.cnt \in Nat
      BY <2>1, FieldsOf, Zenon
    <2>3. FileBytes \in Nat
      BY Sizes, Zenon
    <2> QED
      BY <2>1, <2>2, <2>3 DEF Target, End
  <1>6. calls \in 1..MaxCalls
    BY Sizes DEF TypeOK, Divided
  <1> QED
    BY <1>3, <1>4, <1>5, <1>6 DEF Value

(* It depends on the call and the B+tree alone.                            *)
LEMMA HoldsKept ==
  ASSUME wr'.off = wr.off, wr'.cnt = wr.cnt, UNCHANGED <<calls, tree>>,
         NEW k, NEW b, NEW byte, Holds(k, b, byte)
  PROVE  Holds(k, b, byte)'
  BY DEF Holds, Target, End, Behind, Old

(* The elements of two sequences put together.                             *)
LEMMA Concat ==
  ASSUME NEW V, NEW f \in Seq(V), NEW g \in Seq(V), NEW n, n = Len(f), NEW a, a = Len(g)
  PROVE  /\ f \o g \in Seq(V) /\ Len(f \o g) = n + a
         /\ \A k \in 1..n : (f \o g)[k] = f[k]
         /\ \A k \in 1..a : (f \o g)[n + k] = g[k]
  <1>1. n \in Nat /\ a \in Nat /\ f \o g \in Seq(V) /\ Len(f \o g) = n + a
    OBVIOUS
  <1>2. \A k \in 1..n : (f \o g)[k] = f[k]
    OBVIOUS
  <1>3. ASSUME NEW k \in 1..a PROVE (f \o g)[n + k] = g[k]
    <2>1. n + k \in 1..(n + a) /\ n + k > n /\ (n + k) - n = k
      BY <1>1
    <2> QED
      BY <1>1, <2>1
  <1> QED
    BY <1>1, <1>2, <1>3

(* A turn of the loop keeps the invariant.                                 *)
LEMMA EntryWritten ==
  ASSUME TypeOK, Divided, Filled, WriteEntry
  PROVE  IInv'
  <1>1. /\ pc = "write" /\ wr.page_nums \in 1..NumFilePages
        /\ UNCHANGED <<tree, i_size, file_off, pc, written, calls, fault>>
    BY DEF WriteEntry
  <1>2. wr.page_nums # 0 /\ ~Wraps
    BY <1>1, Sizes DEF Wraps
  <1>3. PICK off, cnt, T, O, S, n, pn, buf : Stands(off, cnt, T, O, S, n, pn, buf)
    BY <1>2, TurnStands
  <1>4. /\ off = wr.off /\ cnt = wr.cnt /\ T = wr.total /\ O = wr.offset /\ S = wr.start
        /\ n = Len(wr.fresh) /\ pn = wr.page_nums /\ buf = wr.buf
        /\ off \in Nat /\ cnt \in Nat /\ T \in Nat /\ O \in Byte /\ S \in Nat /\ n \in Nat
        /\ pn \in Nat /\ pn # 0 /\ buf \in Nat
        /\ S = (off \div PageSize) + n
        /\ buf + T = cnt
        /\ PageSize * S \in Nat /\ off + buf = PageSize * S + O
        /\ n % MaxPerEntry = 0
        /\ PageSize * (pn - 1) < T + O /\ T + O <= PageSize * pn
    BY <1>3 DEF Stands
  <1>5. PICK alloc, s, p :
          /\ alloc = IF pn > MaxPerEntry THEN MaxPerEntry ELSE pn
          /\ s = Share(T, O, alloc)
          /\ p = Pages(s, alloc)
    OBVIOUS
  <1>6. wr' = [wr EXCEPT !.page_nums = pn - alloc, !.total = T - s.size,
                         !.start = S + alloc, !.offset = 0, !.buf = buf + s.size,
                         !.fresh = wr.fresh \o p]
    BY <1>4, <1>5 DEF WriteEntry, AllocNum
  <1>7. Allotted(T, O, pn, alloc, s)
    BY <1>4, <1>5, ShareIs
  <1>8. /\ alloc \in Nat /\ alloc # 0 /\ alloc <= pn
        /\ alloc = pn => s.size = T
        /\ alloc # pn => alloc = MaxPerEntry /\ s.size = PageSize * alloc - O
        /\ s.size \in Nat /\ s.size <= T
    BY <1>7 DEF Allotted
  <1>9. p = [k \in 1..alloc |-> p[k]]
    BY <1>5 DEF Pages
  <1>10. ASSUME NEW k \in 1..alloc
         PROVE  p[k] = [b \in Byte |-> p[k][b]] /\ \A b \in Byte : Holds(n + k, b, p[k][b])
    BY <1>3, <1>5, PagesHold
  <1>11. ASSUME NEW k \in 1..alloc PROVE p[k] \in [Byte -> Value]
    <2>1. S + pn <= NumFilePages
      BY <1>2, <1>4, OnFilePages
    <2>2. n + k \in Nat /\ (off \div PageSize) + (n + k) - 1 \in FilePage
      <3>1. PICK F : F = off \div PageSize
        OBVIOUS
      <3>2. F \in Nat
        <4>1. PageSize \in Nat \ {0}
          BY Sizes
        <4> QED
          BY <1>4, <3>1, <4>1, Division
      <3>3. k \in Nat /\ 1 <= k /\ k <= pn
        BY <1>4, <1>8
      <3>4. S = F + n /\ S \in Nat /\ n \in Nat /\ pn \in Nat /\ NumFilePages \in Nat
        BY <1>4, <3>1, Sizes
      <3>5. n + k \in Nat /\ F + (n + k) - 1 \in 0..(NumFilePages - 1)
        BY <2>1, <3>2, <3>3, <3>4
      <3> QED
        BY <3>1, <3>5, Sizes
    <2>3. \A b \in Byte : p[k][b] \in Value
      BY <1>4, <1>10, <2>2, HoldsValue
    <2> QED
      BY <1>10, <2>3
  <1>12. /\ wr.fresh \in Seq([Byte -> Value]) /\ wr \in Locals
    BY FieldsOf DEF TypeOK
  <1>13. p \in Seq([Byte -> Value]) /\ Len(p) = alloc
    BY <1>8, <1>9, <1>11
  <1>14. PICK f : f = wr.fresh \o p
    OBVIOUS
  <1>15. /\ f \in Seq([Byte -> Value]) /\ Len(f) = n + alloc
         /\ \A k \in 1..n : f[k] = wr.fresh[k]
         /\ \A k \in 1..alloc : f[n + k] = p[k]
    <2>1. PICK V, w : V = [Byte -> Value] /\ w = wr.fresh
      OBVIOUS
    <2>2. w \in Seq(V) /\ n = Len(w) /\ p \in Seq(V) /\ alloc = Len(p) /\ f = w \o p
      BY <1>4, <1>12, <1>13, <1>14, <2>1
    <2>3. /\ w \o p \in Seq(V) /\ Len(w \o p) = n + alloc
          /\ \A k \in 1..n : (w \o p)[k] = w[k]
          /\ \A k \in 1..alloc : (w \o p)[n + k] = p[k]
      BY <2>2, Concat
    <2> QED
      BY <2>1, <2>2, <2>3, Zenon
  <1>16. /\ S \in Nat /\ pn \in Nat /\ n \in Nat /\ alloc \in Nat /\ alloc # 0 /\ alloc <= pn
         /\ T \in Nat /\ buf \in Nat /\ buf + T = cnt /\ cnt \in Nat
    BY <1>4, <1>8
  <1>17. PICK z : z = s.size
    OBVIOUS
  <1>18. z \in Nat /\ z <= T
    BY <1>8, <1>17
  <1>19. /\ wr' \in Locals
         /\ wr'.off = off /\ wr'.cnt = cnt /\ wr'.own = wr.own /\ wr'.page_nums = pn - alloc
         /\ wr'.total = T - s.size /\ wr'.start = S + alloc /\ wr'.offset = 0
         /\ wr'.buf = buf + s.size /\ wr'.fresh = f
    <2>1. /\ pn - alloc \in Nat /\ T - z \in Nat /\ S + alloc \in Nat /\ buf + z \in Nat
      BY <1>16, <1>18
    <2>2. 0 \in Byte
      BY Sizes
    <2> QED
      BY <1>4, <1>6, <1>12, <1>14, <1>15, <1>17, <2>1, <2>2 DEF Locals
  <1>20. TypeOK'
    BY <1>1, <1>19 DEF TypeOK
  <1>21. Filled'
    <2>1. ASSUME NEW k \in 1..(n + alloc), NEW b \in Byte PROVE Holds(k, b, f[k][b])
      <3>1. CASE k <= n
        <4>1. k \in 1..n
          BY <3>1
        <4> QED
          BY <1>4, <1>15, <4>1 DEF Filled
      <3>2. CASE ~(k <= n)
        <4>1. PICK j : j = k - n
          OBVIOUS
        <4>2. j \in 1..alloc /\ k = n + j
          BY <1>4, <1>8, <3>2, <4>1
        <4> QED
          BY <1>10, <1>15, <4>2
      <3> QED
        BY <3>1, <3>2
    <2>2. \A k \in 1..(n + alloc) : \A b \in Byte : Holds(k, b, f[k][b])'
      BY <1>1, <1>4, <1>19, <2>1, HoldsKept
    <2>3. f' = f
      OBVIOUS
    <2> QED
      BY <1>15, <1>19, <2>2 DEF Filled
  <1>22. Divided'
    <2>1. PICK A, M, F : A = PageSize * S /\ M = PageSize * alloc /\ F = off \div PageSize
      OBVIOUS
    <2>2. A \in Nat /\ M \in Nat /\ PageSize * (S + alloc) = A + M /\ PageSize \in Nat /\ PageSize # 0
      <3>1. PageSize \in Nat \ {0}
        BY Sizes
      <3>2. PageSize * (S + alloc) = PageSize * S + PageSize * alloc
        BY <1>4, <1>8, <3>1
      <3> QED
        BY <1>4, <1>8, <2>1, <3>1, <3>2
    <2>3. F \in Nat /\ S = F + n
      BY <1>4, <2>1, <2>2, Division
    <2>4. O \in Nat
      BY <1>4, Sizes
    <2>5. calls' > 0 /\ wr'.off + wr'.cnt <= FileBytes /\ (wr'.own => wr'.off = file_off')
      BY <1>1, <1>4, <1>19 DEF Divided
    <2>6. wr'.start = (wr'.off \div PageSize) + Len(wr'.fresh)
      <3>1. S + alloc = F + (n + alloc)
        BY <1>16, <2>3
      <3> QED
        BY <1>15, <1>19, <2>1, <3>1
    <2>7. wr'.buf + wr'.total = wr'.cnt
      <3>1. (buf + z) + (T - z) = cnt
        BY <1>16, <1>18
      <3> QED
        BY <1>19, <1>17, <3>1
    <2>8. Len(wr'.fresh) = n + alloc /\ n + alloc # 0
      <3>1. n \in Nat /\ alloc \in Nat /\ alloc # 0
        BY <1>4, <1>8, Zenon
      <3>2. n + alloc # 0
        BY <3>1
      <3> QED
        BY <1>15, <1>19, <3>2, Zenon
    <2>9. wr'.page_nums = 0 => wr'.total = 0
      <3>1. /\ pn \in Nat /\ alloc \in Nat /\ T \in Nat
            /\ alloc = pn => s.size = T
            /\ wr'.page_nums = pn - alloc /\ wr'.total = T - s.size
        BY <1>4, <1>8, <1>19, Zenon
      <3> QED
        BY <3>1
    <2>10. wr'.page_nums # 0 => wr'.off + wr'.buf = PageSize * wr'.start + wr'.offset
      <3>1. ASSUME wr'.page_nums # 0 PROVE off + (buf + s.size) = A + M + 0
        <4>1. s.size = M - O
          BY <1>4, <1>8, <1>19, <2>1, <3>1
        <4>2. off + buf = A + O
          BY <1>4, <2>1
        <4>3. off \in Nat /\ buf \in Nat
          BY <1>4
        <4> QED
          BY <2>2, <2>4, <4>1, <4>2, <4>3
      <3> QED
        BY <1>19, <2>2, <3>1
    <2>11. wr'.page_nums # 0 => (n + alloc) % MaxPerEntry = 0
      <3>1. ASSUME wr'.page_nums # 0 PROVE (n + alloc) % MaxPerEntry = 0
        <4>1. alloc = MaxPerEntry /\ MaxPerEntry \in Nat \ {0}
          BY <1>4, <1>8, <1>19, <3>1, Sizes
        <4>2. PICK e : e = n \div MaxPerEntry
          OBVIOUS
        <4>3. e \in Nat /\ n = MaxPerEntry * e + 0
          BY <1>4, <4>1, <4>2, Division
        <4>4. PICK g : g = MaxPerEntry * e
          OBVIOUS
        <4>5. g \in Nat /\ n = g /\ MaxPerEntry * (e + 1) = g + MaxPerEntry
          BY <4>1, <4>3, <4>4
        <4>6. (n + alloc) % MaxPerEntry = (n + alloc) - MaxPerEntry * (e + 1)
          <5>1. n + alloc \in Nat /\ e + 1 \in Nat /\ MaxPerEntry * (e + 1) <= n + alloc
                /\ n + alloc < MaxPerEntry * (e + 1) + MaxPerEntry
            BY <4>1, <4>3, <4>5
          <5> QED
            BY <4>1, <5>1, PageIs
        <4> QED
          BY <4>1, <4>5, <4>6
      <3> QED
        BY <3>1
    <2>12. /\ PageSize * (wr'.start + wr'.page_nums - 1) < wr'.off + wr'.cnt
           /\ wr'.off + wr'.cnt <= PageSize * (wr'.start + wr'.page_nums)
      <3>1. wr'.start + wr'.page_nums - 1 = S + pn - 1 /\ wr'.start + wr'.page_nums = S + pn
        <4>1. (S + alloc) + (pn - alloc) - 1 = S + pn - 1 /\ (S + alloc) + (pn - alloc) = S + pn
          BY <1>16
        <4> QED
          BY <1>19, <4>1
      <3> QED
        BY <1>2, <1>4, <1>19, <3>1 DEF Divided
    <2> QED
      BY <1>19, <2>5, <2>6, <2>7, <2>8, <2>9, <2>10, <2>11, <2>12 DEF Divided
  <1> QED
    BY <1>20, <1>21, <1>22 DEF IInv

-----------------------------------------------------------------------------
(* Every step keeps the invariant.                                         *)
LEMMA StepInv == IInv /\ [Next]_vars => IInv'
  <1> SUFFICES ASSUME IInv, [Next]_vars PROVE IInv'
    OBVIOUS
  <1>1. TypeOK /\ (pc = "write" => Divided /\ Filled)
    BY DEF IInv
  <1>2. CASE UNCHANGED vars
    <2>1. UNCHANGED <<tree, i_size, file_off, pc, wr, written, calls, fault>>
      BY <1>2 DEF vars
    <2>2. TypeOK'
      BY <1>1, <2>1 DEF TypeOK
    <2>3. pc' = "write" => Divided'
      BY <1>1, <2>1 DEF Divided, Wraps
    <2>4. pc' = "write" => Filled'
      BY <1>1, <2>1, HoldsKept DEF Filled
    <2> QED
      BY <2>2, <2>3, <2>4 DEF IInv
  <1>3. CASE AtfsWrite
    <2>1. PICK cnt \in Counts : BeginWrite(file_off, cnt, TRUE)
      BY <1>3 DEF AtfsWrite
    <2>2. cnt \in Nat /\ file_off \in Nat
      BY <1>1, DataAssumption DEF TypeOK
    <2> QED
      BY <1>1, <2>1, <2>2, WriteBegins
  <1>4. CASE AtfsPwrite
    <2>1. PICK cnt \in Counts, o \in 0..FileBytes : BeginWrite(o, cnt, FALSE)
      BY <1>4 DEF AtfsPwrite
    <2>2. cnt \in Nat /\ o \in Nat
      BY DataAssumption
    <2> QED
      BY <1>1, <2>1, <2>2, WriteBegins
  <1>5. CASE WriteEntry
    BY <1>1, <1>5, EntryWritten DEF WriteEntry
  <1>6. CASE RunDry \/ LeaveMapping
    <2>1. /\ UNCHANGED <<tree, i_size, file_off, pc, wr, written, calls>>
          /\ fault' \in {"exhausted", "left_mapping"}
      BY <1>6 DEF RunDry, LeaveMapping
    <2>2. TypeOK'
      BY <1>1, <2>1 DEF TypeOK
    <2>3. pc' = "write" => Divided'
      BY <1>1, <2>1 DEF Divided, Wraps
    <2>4. pc' = "write" => Filled'
      BY <1>1, <2>1, HoldsKept DEF Filled
    <2> QED
      BY <2>2, <2>3, <2>4 DEF IInv
  <1>7. CASE EndWrite
    BY <1>1, <1>7, WriteEnds DEF EndWrite
  <1>8. CASE AtfsRead \/ AtfsLseek
    BY <1>1, <1>8, OffsetMoves DEF AtfsRead, AtfsLseek
  <1> QED
    BY <1>2, <1>3, <1>4, <1>5, <1>6, <1>7, <1>8 DEF Next

(* nvmio_write never loses its place in the bytes it is given: between two *)
(* turns of its loop, what it has written so far is in the pages it has    *)
(* filled; before the first of these bytes those pages hold what was       *)
(* there, and after the last one what the copy from behind last_page_wr    *)
(* nodes brings, or nothing of the file.                                   *)
THEOREM Safety == Spec => []IInv
  <1>1. Init => IInv
    BY InitInv
  <1>2. IInv /\ [Next]_vars => IInv'
    BY StepInv
  <1> QED
    BY <1>1, <1>2, PTL DEF Spec

-----------------------------------------------------------------------------
(* What a byte of the file reads as once a write has ended.                *)
LEMMA Tidy ==
  ASSUME TypeOK, Divided, wr.page_nums = 0,
         NEW q, q = wr.off \div PageSize, NEW n, n = Len(wr.fresh),
         NEW last, last = wr.off + wr.cnt
  PROVE  /\ q \in Nat /\ n \in Nat /\ n # 0 /\ last \in Nat /\ last <= FileBytes
         /\ PageSize * (q + n) \in Nat
         /\ PageSize * (q + n - 1) \in Nat /\ PageSize * (q + n) = PageSize * (q + n - 1) + PageSize
         /\ PageSize * (q + n - 1) < last /\ last <= PageSize * (q + n)
  <1>1. /\ wr.off \in Nat /\ wr.cnt \in Nat /\ wr.fresh \in Seq([Byte -> Value])
    BY FieldsOf DEF TypeOK
  <1>2. PageSize \in Nat \ {0} /\ NumFilePages \in Nat
    BY Sizes
  <1>3. q \in Nat /\ n \in Nat /\ last \in Nat
    <2>1. q \in Nat
      BY <1>1, <1>2, Division
    <2>2. n \in Nat
      BY <1>1
    <2>3. last \in Nat
      BY <1>1
    <2> QED
      BY <2>1, <2>2, <2>3
  <1>4. n # 0 /\ wr.start = q + n /\ last <= FileBytes
    BY DEF Divided
  <1>5. ~Wraps
    BY <1>2 DEF Wraps
  <1>6. /\ PageSize * (wr.start + wr.page_nums - 1) < last
        /\ last <= PageSize * (wr.start + wr.page_nums)
    BY <1>5 DEF Divided
  <1>7. wr.start + wr.page_nums = q + n /\ wr.start + wr.page_nums - 1 = q + n - 1
    BY <1>3, <1>4
  <1>8. q + n - 1 \in Nat /\ (q + n - 1) + 1 = q + n
    BY <1>3, <1>4
  <1>9. PageSize * ((q + n - 1) + 1) = PageSize * (q + n - 1) + PageSize
    BY <1>2, <1>8
  <1>10. PageSize * (q + n) \in Nat /\ PageSize * (q + n - 1) \in Nat
    BY <1>2, <1>3, <1>8
  <1> QED
    BY <1>3, <1>4, <1>6, <1>7, <1>8, <1>9, <1>10

(* Pages follow each other in the order of their numbers.                  *)
LEMMA Order ==
  ASSUME NEW d \in Nat \ {0}, NEW i \in Nat, NEW j \in Nat
  PROVE  /\ d * i \in Nat /\ d * j \in Nat
         /\ d * i < d * j + d => i <= j
  <1>1. d * i \in Nat /\ d * j \in Nat
    OBVIOUS
  <1>2. ASSUME j < i PROVE d * j + d <= d * i
    BY <1>2, Larger
  <1> QED
    BY <1>1, <1>2

(* A byte of the file is that of the page of the call on its place, if any.*)
LEMMA ByteAfter ==
  ASSUME TypeOK, Divided, Filled, EndWrite, NEW o \in 0..(FileBytes - 1),
         NEW i, i = o \div PageSize, NEW b, b = o % PageSize,
         NEW q, q = wr.off \div PageSize, NEW n, n = Len(wr.fresh)
  PROVE  /\ i \in FilePage /\ b \in Byte /\ o = PageSize * i + b
         /\ i - q + 1 \in 1..n => Holds(i - q + 1, b, View(o)')
         /\ i - q + 1 \notin 1..n => View(o)' = View(o)
  <1>1. PageSize \in Nat \ {0} /\ NumFilePages \in Nat \ {0} /\ o \in Nat /\ o < FileBytes
        /\ FileBytes = PageSize * NumFilePages /\ Byte = 0..(PageSize - 1)
    BY Sizes
  <1>2. /\ i \in Nat /\ b \in Byte /\ o = PageSize * i + b /\ PageSize * i <= o /\ PageSize * i \in Nat
    BY <1>1, Division
  <1>3. i \in FilePage
    <2>1. NumFilePages - 1 \in Nat /\ (NumFilePages - 1) + 1 = NumFilePages
      BY <1>1
    <2>2. PageSize * ((NumFilePages - 1) + 1) = PageSize * (NumFilePages - 1) + PageSize
      BY <1>1, <2>1
    <2>3. PageSize * i < PageSize * (NumFilePages - 1) + PageSize
      BY <1>1, <1>2, <2>1, <2>2
    <2>4. i <= NumFilePages - 1
      BY <1>1, <1>2, <2>1, <2>3, Order
    <2> QED
      BY <1>1, <1>2, <2>4 DEF FilePage
  <1>4. View(o)' = Source(i)'[b] /\ View(o) = Source(i)[b]
    BY DEF View
  <1>5. wr.fresh \in Seq([Byte -> Value]) /\ DOMAIN wr.fresh = 1..n /\ tree \in [FilePage -> {NoPage} \cup [Byte -> Value]]
    BY FieldsOf DEF TypeOK
  <1>6. tree'[i] = IF i - q + 1 \in 1..n THEN wr.fresh[i - q + 1] ELSE tree[i]
    BY <1>3, <1>5 DEF EndWrite
  <1>7. ASSUME i - q + 1 \in 1..n PROVE Holds(i - q + 1, b, View(o)')
    <2>1. wr.fresh[i - q + 1] \in [Byte -> Value]
      BY <1>5, <1>7
    <2>2. \A page \in [Byte -> Value] : page # NoPage
      <3>1. DOMAIN NoPage = {}
        BY DEF NoPage
      <3>2. 0 \in Byte
        BY <1>1
      <3> QED
        BY <3>1, <3>2
    <2>3. Source(i)' = wr.fresh[i - q + 1]
      BY <1>3, <1>6, <1>7, <2>1, <2>2 DEF Source
    <2> QED
      BY <1>2, <1>4, <1>7, <2>3 DEF Filled
  <1>8. ASSUME i - q + 1 \notin 1..n PROVE View(o)' = View(o)
    <2>1. tree'[i] = tree[i]
      BY <1>6, <1>8
    <2>2. Source(i)' = Source(i)
      BY <2>1 DEF Source, Blank
    <2> QED
      BY <1>4, <2>2
  <1> QED
    BY <1>2, <1>3, <1>7, <1>8

(* A write ends by EndWrite, with its loop done.                           *)
LEMMA EndsBy ==
  ASSUME IInv, [Next]_vars, Ended
  PROVE  TypeOK /\ Divided /\ Filled /\ EndWrite /\ wr.page_nums = 0
  <1>1. EndWrite
    BY DEF Ended, Next, vars, AtfsWrite, AtfsPwrite, BeginWrite, WriteEntry, LeaveMapping, RunDry, AtfsRead, AtfsLseek
  <1> QED
    BY <1>1 DEF Ended, IInv, EndWrite

(* Every byte that nvmio_write is given reads back once it has returned.   *)
LEMMA LandsStep == IInv /\ [Next]_vars => (Ended => \A o \in Target : View(o)' = Token(calls, o))
  <1> SUFFICES ASSUME IInv, [Next]_vars, Ended, NEW o \in Target
               PROVE  View(o)' = Token(calls, o)
    OBVIOUS
  <1>1. TypeOK /\ Divided /\ Filled /\ EndWrite /\ wr.page_nums = 0
    BY EndsBy
  <1>2. PICK off, last, q, n, i, b :
          /\ off = wr.off /\ last = wr.off + wr.cnt /\ q = wr.off \div PageSize /\ n = Len(wr.fresh)
          /\ i = o \div PageSize /\ b = o % PageSize
    OBVIOUS
  <1>3. off \in Nat /\ wr.cnt \in Nat
    BY <1>1, <1>2, FieldsOf DEF TypeOK
  <1>4. PICK A, L : A = PageSize * (q + n - 1) /\ L = PageSize * (q + n)
    OBVIOUS
  <1>5. /\ q \in Nat /\ n \in Nat /\ n # 0 /\ last \in Nat /\ last <= FileBytes
        /\ L \in Nat /\ A \in Nat /\ L = A + PageSize /\ A < last /\ last <= L
    BY <1>1, <1>2, <1>4, Tidy
  <1>6. o \in Nat /\ off <= o /\ o < last
    BY <1>2, <1>3 DEF Target, End
  <1>7. PageSize \in Nat \ {0} /\ Byte = 0..(PageSize - 1) /\ FileBytes \in Nat
    BY Sizes
  <1>8. o \in 0..(FileBytes - 1)
    BY <1>5, <1>6, <1>7
  <1>9. /\ i \in FilePage /\ b \in Byte /\ o = PageSize * i + b
        /\ i - q + 1 \in 1..n => Holds(i - q + 1, b, View(o)')
    BY <1>1, <1>2, <1>8, ByteAfter
  <1>10. PICK B, Q : B = PageSize * i /\ Q = PageSize * q
    OBVIOUS
  <1>11. i \in Nat /\ B \in Nat /\ o = B + b /\ b \in Nat /\ b < PageSize
    <2>1. i \in Nat
      BY <1>9 DEF FilePage
    <2> QED
      BY <1>7, <1>9, <1>10, <2>1
  <1>12. Q \in Nat /\ Q <= off /\ off < Q + PageSize
    BY <1>2, <1>3, <1>7, <1>10, Division
  <1>13. q <= i
    <2>1. Q < B + PageSize
      BY <1>6, <1>7, <1>11, <1>12, <1>3
    <2> QED
      BY <1>5, <1>7, <1>10, <1>11, <2>1, Order
  <1>14. i <= q + n - 1
    <2>1. B < A + PageSize /\ q + n - 1 \in Nat
      BY <1>5, <1>6, <1>7, <1>11
    <2> QED
      BY <1>4, <1>7, <1>10, <1>11, <2>1, Order
  <1>15. i - q + 1 \in 1..n
    BY <1>5, <1>11, <1>13, <1>14
  <1>16. Holds(i - q + 1, b, View(o)')
    BY <1>9, <1>15
  <1>17. (wr.off \div PageSize) + (i - q + 1) - 1 = i
    BY <1>2, <1>5, <1>11
  <1>18. wr.cnt # 0 /\ ~(o < wr.off) /\ ~(o >= End)
    BY <1>2, <1>3, <1>6 DEF End
  <1> QED
    BY <1>9, <1>16, <1>17, <1>18 DEF Holds

(* What nvmio_write is given is in the file when the call returns.         *)
THEOREM Lands == Spec => WriteLands
  BY Safety, LandsStep, PTL DEF Spec, WriteLands

(* What is not in the last page behind those bytes stays, but in a page    *)
(* the file did not have.                                                  *)
LEMMA NeighboursStep ==
  IInv /\ [Next]_vars =>
    (Ended /\ wr.cnt > 0 =>
       \A o \in 0..(FileBytes - 1) : BehindLast(o) \/ InNewPage(o) \/ OutsideKept(o))
  <1> SUFFICES ASSUME IInv, [Next]_vars, Ended, wr.cnt > 0, NEW o \in 0..(FileBytes - 1),
                      ~BehindLast(o), ~InNewPage(o), o \notin Target
               PROVE  View(o)' = View(o)
    BY DEF OutsideKept
  <1>1. TypeOK /\ Divided /\ Filled /\ EndWrite /\ wr.page_nums = 0
    BY EndsBy
  <1>2. PICK off, cnt, last, q, n, i, b :
          /\ off = wr.off /\ cnt = wr.cnt /\ last = wr.off + wr.cnt /\ q = wr.off \div PageSize
          /\ n = Len(wr.fresh) /\ i = o \div PageSize /\ b = o % PageSize
    OBVIOUS
  <1>3. off \in Nat /\ cnt \in Nat /\ cnt > 0 /\ last = off + cnt
    BY <1>1, <1>2, FieldsOf DEF TypeOK
  <1>4. PICK A, L : A = PageSize * (q + n - 1) /\ L = PageSize * (q + n)
    OBVIOUS
  <1>5. /\ q \in Nat /\ n \in Nat /\ n # 0 /\ last \in Nat
        /\ L \in Nat /\ A \in Nat /\ L = A + PageSize /\ A < last /\ last <= L
    BY <1>1, <1>2, <1>4, Tidy
  <1>6. PageSize \in Nat \ {0} /\ Byte = 0..(PageSize - 1)
    BY Sizes
  <1>7. /\ i \in FilePage /\ b \in Byte /\ o = PageSize * i + b
        /\ i - q + 1 \in 1..n => Holds(i - q + 1, b, View(o)')
        /\ i - q + 1 \notin 1..n => View(o)' = View(o)
    BY <1>1, <1>2, ByteAfter
  <1>8. SUFFICES ASSUME i - q + 1 \in 1..n PROVE View(o)' = View(o)
    BY <1>7
  <1>9. i \in Nat /\ q <= i /\ i <= q + n - 1
    <2>1. i \in Nat
      BY <1>7 DEF FilePage
    <2> QED
      BY <1>5, <1>8, <2>1
  <1>10. FirstOf = q /\ LastOf = q + n - 1
    <2>1. (last - 1) \div PageSize = q + n - 1
      <3>1. last - 1 \in Nat /\ q + n - 1 \in Nat /\ A <= last - 1 /\ last - 1 < A + PageSize
        BY <1>5
      <3> QED
        BY <1>4, <1>6, <3>1, PageIs
    <2>2. wr.off + wr.cnt - 1 = last - 1
      BY <1>2, <1>3
    <2> QED
      BY <1>2, <2>1, <2>2 DEF FirstOf, LastOf, PageOf, End
  <1>11. i \in FirstOf..LastOf /\ PageOf(o) = i
    BY <1>2, <1>5, <1>9, <1>10 DEF PageOf
  <1>12. tree[i] # NoPage
    BY <1>11 DEF InNewPage
  <1>13. Old(i)[b] = View(o)
    BY <1>2, <1>7, <1>12 DEF Old, View, Source
  <1>14. PICK k : k = i - q + 1
    OBVIOUS
  <1>15. (wr.off \div PageSize) + k - 1 = i
    <2>1. q + k - 1 = i
      BY <1>5, <1>9, <1>14
    <2> QED
      BY <1>2, <2>1
  <1>16. \/ View(o)' = Old(i)[b]
         \/ o >= End
    <2>1. Holds(k, b, View(o)')
      BY <1>7, <1>8, <1>14
    <2>2. wr.cnt # 0
      BY <1>2, <1>3
    <2> QED
      BY <1>7, <1>15, <2>1, <2>2 DEF Holds
  <1>17. ~(o >= End)
    <2> SUFFICES ASSUME o >= End PROVE FALSE
      OBVIOUS
    <2>1. PICK B : B = PageSize * i
      OBVIOUS
    <2>2. B \in Nat /\ o = B + b /\ b \in Nat /\ b < PageSize
      BY <1>6, <1>7, <1>9, <2>1
    <2>3. A < B + PageSize /\ o > wr.off
      <3>1. last <= o
        BY <1>2 DEF End
      <3> QED
        BY <1>2, <1>3, <1>5, <1>6, <2>2, <3>1
    <2>4. q + n - 1 \in Nat /\ q + n - 1 <= i
      BY <1>4, <1>5, <1>6, <1>9, <2>1, <2>3, Order
    <2>5. i = LastOf
      BY <1>5, <1>9, <1>10, <2>4
    <2> QED
      BY <1>11, <2>3, <2>5 DEF BehindLast
  <1> QED
    BY <1>13, <1>16, <1>17

(* nvmio_write leaves alone what precedes its bytes in their first page,   *)
(* and every other page, but for pages the file did not have.              *)
THEOREM Neighbours == Spec => NeighboursKept
  BY Safety, NeighboursStep, PTL DEF Spec, NeighboursKept

(* The size falls short of a byte only where a pwrite has put that byte    *)
(* past the file offset.                                                   *)
LEMMA SizeStep ==
  IInv /\ [Next]_vars =>
    \A o \in 0..(FileBytes - 1) :
      Covered(o) /\ ~Covered(o)' =>
        /\ Ended /\ ~wr.own /\ o \in Target
        /\ wr.off > file_off \/ file_off + wr.cnt >= U64
  <1> SUFFICES ASSUME IInv, [Next]_vars, NEW o \in 0..(FileBytes - 1), Covered(o), ~Covered(o)'
               PROVE  /\ Ended /\ ~wr.own /\ o \in Target
                      /\ wr.off > file_off \/ file_off + wr.cnt >= U64
    OBVIOUS
  <1>1. EndWrite
    <2>1. SUFFICES ASSUME ~EndWrite PROVE FALSE
      OBVIOUS
    <2>2. UNCHANGED <<i_size, written>>
      BY <2>1 DEF Next, vars, AtfsWrite, AtfsPwrite, BeginWrite, WriteEntry, LeaveMapping, RunDry, AtfsRead, AtfsLseek
    <2> QED
      BY <2>2 DEF Covered
  <1>2. TypeOK /\ Divided /\ Ended
    BY <1>1 DEF IInv, EndWrite, Ended
  <1>3. PICK end : end = (file_off + wr.cnt) % U64
    OBVIOUS
  <1>4. /\ wr.off \in Nat /\ wr.cnt \in Nat /\ wr.own \in BOOLEAN /\ wr.off + wr.cnt <= FileBytes
        /\ file_off \in Nat /\ i_size \in Nat /\ (wr.own => wr.off = file_off)
    <2>1. \A x \in 0..(U64 - 1) : x \in Nat
      OBVIOUS
    <2> QED
      BY <1>2, <2>1, FieldsOf DEF TypeOK, Divided
  <1>5. end \in Nat /\ (file_off + wr.cnt < U64 => end = file_off + wr.cnt)
    <2>1. U64 \in Nat \ {0} /\ \A x \in Nat : x % U64 \in Nat /\ (x < U64 => x % U64 = x)
      <3>1. U64 \in Nat \ {0}
        BY Sizes
      <3> QED
        BY <3>1
    <2>2. PICK x : x = file_off + wr.cnt
      OBVIOUS
    <2>3. x \in Nat /\ end = x % U64
      BY <1>3, <1>4, <2>2
    <2>4. end \in Nat /\ (x < U64 => end = x)
      BY <2>1, <2>3
    <2> QED
      BY <2>2, <2>4
  <1>6. i_size' = IF end > i_size THEN end ELSE i_size
    BY <1>1, <1>3 DEF EndWrite
  <1>7. i_size' \in Nat /\ i_size' >= end /\ i_size' >= i_size
    BY <1>4, <1>5, <1>6
  <1>8. o \in Nat /\ ~(o < i_size') /\ written'[o] # Zero
    BY DEF Covered
  <1>9. o \in Target
    <2>1. SUFFICES ASSUME o \notin Target PROVE FALSE
      OBVIOUS
    <2>2. written'[o] = written[o]
      <3>1. o \notin wr.off..(wr.off + wr.cnt - 1)
        BY <1>4, <2>1 DEF Target, End
      <3>2. written' = [x \in 0..(FileBytes - 1) |->
                          IF x \in wr.off..(wr.off + wr.cnt - 1) THEN Token(calls, x)
                          ELSE written[x]]
        BY <1>1 DEF EndWrite
      <3> QED
        BY <3>1, <3>2
    <2> QED
      BY <1>4, <1>7, <1>8, <2>2 DEF Covered
  <1>10. o < wr.off + wr.cnt
    BY <1>4, <1>9 DEF Target, End
  <1>11. ~wr.own
    BY <1>4, <1>5, <1>7, <1>8, <1>10, Sizes
  <1>12. wr.off > file_off \/ file_off + wr.cnt >= U64
    BY <1>4, <1>5, <1>7, <1>8, <1>10, Sizes
  <1> QED
    BY <1>2, <1>9, <1>11, <1>12

(* i_size falls short of no other byte, whichever calls follow each other. *)
THEOREM SizeReaches == Spec => SizeShortOnlyByPwrite
  BY Safety, SizeStep, PTL DEF Spec, SizeShortOnlyByPwrite

-----------------------------------------------------------------------------
(* nvmio_read.  Its recursion over the pages has one value, and that value *)
(* is the bytes in a row, page after page and around the end of a u64.     *)
Round == U64 \div PageSize

PageAt(s, j) == IF j = 0 THEN s ELSE (s + j) % Round

Straight(r) ==
  [k \in 1..r.total |->
     Source(PageAt(r.start, (r.offset + k - 1) \div PageSize))[(r.offset + k - 1) % PageSize]]

FirstPart(r) ==
  [k \in 1..ReadSize(r.total, r.offset) |-> Source(r.start)[r.offset + k - 1]]

Rest(r) ==
  [total |-> r.total - ReadSize(r.total, r.offset), start |-> NextPage(r.start), offset |-> 0]

(* The page numbers of a u64 are those below Round.                        *)
LEMMA RoundIs == Round \in Nat \ {0} /\ PageSize * Round = U64
  <1>1. PageSize \in Nat \ {0} /\ U64 \in Nat /\ U64 > 0
    BY Sizes
  <1>2. U64 % PageSize = 0
    BY DataAssumption
  <1>3. Round \in Nat /\ U64 = PageSize * Round + (U64 % PageSize) /\ PageSize * Round \in Nat
    BY <1>1, Division DEF Round
  <1>4. U64 = PageSize * Round
    BY <1>1, <1>2, <1>3
  <1>5. Round # 0
    <2>1. PageSize * 0 = 0
      BY <1>1
    <2> QED
      BY <1>1, <1>4, <2>1
  <1> QED
    BY <1>3, <1>4, <1>5

LEMMA InRound ==
  ASSUME NEW x \in Nat
  PROVE  x % Round \in Nat
  <1>1. x % Round \in 0..(Round - 1) /\ Round \in Nat
    BY RoundIs, Division
  <1> QED
    BY <1>1

LEMMA SeqIs ==
  ASSUME NEW V, NEW f \in Seq(V), NEW n, n = Len(f)
  PROVE  f = [k \in 1..n |-> f[k]]
  OBVIOUS

(* Going around twice is going around once.                                *)
LEMMA Wrapped ==
  ASSUME NEW d \in Nat \ {0}, NEW x \in Nat, NEW y \in Nat
  PROVE  ((x % d) + y) % d = (x + y) % d
  <1>1. PICK e, f : e = x \div d /\ f = x % d
    OBVIOUS
  <1>2. e \in Nat /\ f \in Nat /\ x = d * e + f /\ d * e \in Nat
    BY <1>1, Division
  <1>3. PICK g, h : g = (f + y) \div d /\ h = (f + y) % d
    OBVIOUS
  <1>4. g \in Nat /\ h \in 0..(d - 1) /\ f + y = d * g + h /\ d * g \in Nat
    <2>1. f + y \in Nat
      BY <1>2
    <2> QED
      BY <1>3, <2>1, Division
  <1>5. PICK E, G : E = d * e /\ G = d * g
    OBVIOUS
  <1>6. E \in Nat /\ G \in Nat /\ d * (e + g) = E + G /\ e + g \in Nat /\ x + y \in Nat
    BY <1>2, <1>4, <1>5
  <1>7. x = E + f /\ f + y = G + h /\ h \in Nat /\ h < d /\ d \in Nat
    BY <1>2, <1>4, <1>5
  <1>8. x + y = E + G + h
    BY <1>2, <1>6, <1>7
  <1>9. (x + y) % d = x + y - (E + G)
    <2>1. d * (e + g) <= x + y /\ x + y < d * (e + g) + d
      BY <1>6, <1>7, <1>8
    <2>2. (x + y) % d = x + y - d * (e + g)
      BY <1>6, <2>1, PageIs
    <2> QED
      BY <1>6, <2>2
  <1> QED
    BY <1>1, <1>3, <1>6, <1>7, <1>8, <1>9

(* The locals of a turn of nvmio_read.                                     *)
LEMMA ReadPart ==
  ASSUME NEW r \in ReadLocals, r.total # 0,
         NEW T, T = r.total, NEW S, S = r.start, NEW O, O = r.offset,
         NEW n, n = ReadSize(T, O)
  PROVE  /\ T \in Nat /\ S \in Nat /\ O \in Byte /\ O \in Nat /\ O < PageSize
         /\ n \in Nat /\ n # 0 /\ n <= T /\ n <= PageSize - O /\ (n # T => n = PageSize - O)
         /\ Rest(r) \in ReadLocals /\ Rest(r).total = T - n
         /\ Rest(r).start = NextPage(S) /\ Rest(r).offset = 0
  <1>1. T \in Nat /\ S \in Nat /\ O \in Byte
    BY DEF ReadLocals
  <1>2. PageSize \in Nat \ {0} /\ O \in Nat /\ O < PageSize /\ 0 \in Byte
    BY <1>1, Sizes
  <1>3. n \in Nat /\ n # 0 /\ n <= T /\ n <= PageSize - O /\ (n # T => n = PageSize - O)
    BY <1>1, <1>2 DEF ReadSize
  <1>4. NextPage(S) \in Nat
    <2>1. S + 1 \in Nat
      BY <1>1
    <2>2. (S + 1) % Round \in Nat
      BY <2>1, InRound
    <2> QED
      BY <2>2 DEF NextPage, Round
  <1>5. T - n \in Nat
    BY <1>1, <1>3
  <1>6. Rest(r) = [total |-> T - n, start |-> NextPage(S), offset |-> 0]
    BY DEF Rest
  <1> QED
    BY <1>1, <1>2, <1>3, <1>4, <1>5, <1>6 DEF ReadLocals

(* The bytes in a row are the first part of them and the rest in a row.    *)
LEMMA StraightNext ==
  ASSUME NEW r \in ReadLocals, r.total # 0
  PROVE  Straight(r) = FirstPart(r) \o Straight(Rest(r))
  <1>1. PICK T, S, O, n, W : /\ T = r.total /\ S = r.start /\ O = r.offset
                             /\ n = ReadSize(T, O) /\ W = NextPage(S)
    OBVIOUS
  <1>2. /\ T \in Nat /\ S \in Nat /\ O \in Byte /\ O \in Nat /\ O < PageSize
        /\ n \in Nat /\ n # 0 /\ n <= T /\ n <= PageSize - O /\ (n # T => n = PageSize - O)
        /\ Rest(r).total = T - n /\ Rest(r).start = W /\ Rest(r).offset = 0
    BY <1>1, ReadPart
  <1>3. PageSize \in Nat \ {0}
    BY Sizes
  <1>4. PICK a, b, c :
          /\ a = [k \in 1..T |-> Source(PageAt(S, (O + k - 1) \div PageSize))[(O + k - 1) % PageSize]]
          /\ b = [k \in 1..n |-> Source(S)[O + k - 1]]
          /\ c = [k \in 1..(T - n) |->
                    Source(PageAt(W, (0 + k - 1) \div PageSize))[(0 + k - 1) % PageSize]]
    OBVIOUS
  <1>5. a = Straight(r) /\ b = FirstPart(r) /\ c = Straight(Rest(r))
    BY <1>1, <1>2, <1>4 DEF Straight, FirstPart
  <1>6. PICK V : V = {b[k] : k \in 1..n} \cup {c[k] : k \in 1..(T - n)}
    OBVIOUS
  <1>7. /\ T - n \in Nat
        /\ \A k \in 1..n : O + k - 1 \in Nat /\ O + k - 1 < PageSize
        /\ \A k \in 1..(T - n) : 0 + k - 1 \in Nat
    BY <1>2, <1>3
  <1>8. W = PageAt(S, 1)
    BY <1>1 DEF NextPage, PageAt, Round
  <1>9. ASSUME NEW j \in Nat PROVE PageAt(W, j) = PageAt(S, j + 1)
    <2>1. CASE j = 0
      BY <1>8, <2>1 DEF PageAt
    <2>2. CASE j # 0
      <3>1. W = (S + 1) % Round
        BY <1>1 DEF NextPage, Round
      <3>2. (((S + 1) % Round) + j) % Round = ((S + 1) + j) % Round
        <4>1. S + 1 \in Nat /\ j \in Nat /\ Round \in Nat \ {0}
          BY <1>2, RoundIs
        <4> QED
          BY <4>1, Wrapped
      <3>3. (S + 1) + j = S + (j + 1) /\ j + 1 # 0
        BY <1>2
      <3> QED
        BY <2>2, <3>1, <3>2, <3>3 DEF PageAt
    <2> QED
      BY <2>1, <2>2
  <1>10. b \in Seq(V) /\ Len(b) = n
    <2>1. b = [k \in 1..n |-> b[k]] /\ \A k \in 1..n : b[k] \in V
      BY <1>4, <1>6
    <2> QED
      BY <1>2, <2>1
  <1>11. c \in Seq(V) /\ Len(c) = T - n
    BY <1>4, <1>6, <1>7
  <1>12. /\ b \o c \in Seq(V) /\ Len(b \o c) = T
         /\ \A k \in 1..n : (b \o c)[k] = b[k]
         /\ \A k \in 1..(T - n) : (b \o c)[n + k] = c[k]
    <2>1. PICK d : d = T - n
      OBVIOUS
    <2>2. n + d = T
      BY <1>2, <2>1
    <2>3. b \in Seq(V) /\ c \in Seq(V) /\ n = Len(b) /\ d = Len(c)
      BY <1>10, <1>11, <2>1, Zenon
    <2>4. /\ b \o c \in Seq(V) /\ Len(b \o c) = n + d
          /\ \A k \in 1..n : (b \o c)[k] = b[k]
          /\ \A k \in 1..d : (b \o c)[n + k] = c[k]
      BY <2>3, Concat
    <2> QED
      BY <2>1, <2>2, <2>4
  <1>13. ASSUME NEW k \in 1..T PROVE a[k] = (b \o c)[k]
    <2>1. PICK x : x = O + k - 1
      OBVIOUS
    <2>2. x \in Nat /\ a[k] = Source(PageAt(S, x \div PageSize))[x % PageSize]
      BY <1>2, <1>4, <2>1
    <2>3. CASE k <= n
      <3>1. k \in 1..n /\ x < PageSize
        BY <1>2, <1>7, <2>1, <2>3
      <3>2. x \div PageSize = 0 /\ x % PageSize = x
        <4>1. PageSize * 0 = 0 /\ PageSize * 0 <= x /\ x < PageSize * 0 + PageSize /\ 0 \in Nat
          BY <1>3, <2>2, <3>1
        <4>2. x \in Nat /\ PageSize \in Nat \ {0}
          BY <1>3, <2>2, Zenon
        <4>3. x \div PageSize = 0 /\ x % PageSize = x - PageSize * 0
          BY <4>1, <4>2, PageIs, Zenon
        <4>4. x - PageSize * 0 = x
          BY <4>1, <4>2
        <4> QED
          BY <4>3, <4>4, Zenon
      <3>3. a[k] = Source(S)[x]
        BY <2>2, <3>2 DEF PageAt
      <3> QED
        BY <1>4, <1>12, <2>1, <3>1, <3>3
    <2>4. CASE ~(k <= n)
      <3>1. PICK j : j = k - n
        OBVIOUS
      <3>2. j \in 1..(T - n) /\ k = n + j /\ n = PageSize - O
        BY <1>2, <2>4, <3>1
      <3>3. PICK y : y = 0 + j - 1
        OBVIOUS
      <3>4. y \in Nat /\ x = y + PageSize
        BY <1>2, <1>3, <2>1, <3>2, <3>3
      <3>5. PICK q, e : q = y \div PageSize /\ e = y % PageSize
        OBVIOUS
      <3>6. q \in Nat /\ e \in 0..(PageSize - 1) /\ y = PageSize * q + e /\ PageSize * q \in Nat
        BY <1>3, <3>4, <3>5, Division
      <3>7. PICK Q : Q = PageSize * q
        OBVIOUS
      <3>8. Q \in Nat /\ PageSize * (q + 1) = Q + PageSize /\ y = Q + e /\ e \in Nat /\ e < PageSize
        BY <1>3, <3>6, <3>7
      <3>9. x \div PageSize = q + 1 /\ x % PageSize = x - (Q + PageSize)
        <4>1. Q + PageSize <= x /\ x < (Q + PageSize) + PageSize
          BY <1>3, <3>4, <3>8
        <4>2. x \div PageSize = q + 1 /\ x % PageSize = x - PageSize * (q + 1)
          <5>1. q + 1 \in Nat /\ PageSize * (q + 1) <= x /\ x < PageSize * (q + 1) + PageSize
            BY <3>6, <3>8, <4>1
          <5> QED
            BY <1>3, <2>2, <5>1, PageIs
        <4> QED
          BY <3>8, <4>2
      <3>10. x - (Q + PageSize) = e
        BY <1>3, <3>4, <3>8
      <3>11. a[k] = Source(PageAt(W, q))[e]
        BY <1>9, <2>2, <3>6, <3>9, <3>10
      <3>12. c[j] = Source(PageAt(W, q))[e]
        BY <1>4, <3>2, <3>3, <3>5
      <3> QED
        BY <1>12, <3>2, <3>11, <3>12
    <2> QED
      BY <2>3, <2>4
  <1>14. a = [k \in 1..T |-> a[k]]
    BY <1>4
  <1>15. b \o c = [k \in 1..T |-> (b \o c)[k]]
    <2>1. PICK f : f = b \o c
      OBVIOUS
    <2>2. f \in Seq(V) /\ Len(f) = T
      BY <1>12, <2>1
    <2>3. f = [k \in 1..T |-> f[k]]
      BY <2>2, SeqIs
    <2> QED
      BY <2>1, <2>3, Zenon
  <1> QED
    BY <1>5, <1>13, <1>14, <1>15

(* The recursion has a value, the bytes in a row, and no other.            *)
Turn(f) == [r \in ReadLocals |-> IF r.total = 0 THEN <<>> ELSE FirstPart(r) \o f[Rest(r)]]

LEMMA StraightSolves ==
  [r \in ReadLocals |-> Straight(r)] = Turn([r \in ReadLocals |-> Straight(r)])
  <1>1. PICK f : f = [r \in ReadLocals |-> Straight(r)]
    OBVIOUS
  <1>2. ASSUME NEW r \in ReadLocals
        PROVE  f[r] = IF r.total = 0 THEN <<>> ELSE FirstPart(r) \o f[Rest(r)]
    <2>1. CASE r.total = 0
      <3>1. f[r] = Straight(r) /\ 1..0 = {}
        BY <1>1
      <3>2. Straight(r) = <<>>
        BY <2>1, <3>1 DEF Straight
      <3> QED
        BY <2>1, <3>1, <3>2
    <2>2. CASE r.total # 0
      <3>1. Rest(r) \in ReadLocals
        BY <2>2, ReadPart
      <3>2. Straight(r) = FirstPart(r) \o Straight(Rest(r))
        BY <2>2, StraightNext
      <3>3. f[r] = Straight(r) /\ f[Rest(r)] = Straight(Rest(r))
        BY <1>1, <3>1
      <3> QED
        BY <2>2, <3>2, <3>3
    <2> QED
      BY <2>1, <2>2
  <1>3. f = [r \in ReadLocals |-> f[r]]
    BY <1>1
  <1>4. f = Turn(f)
    BY <1>2, <1>3 DEF Turn
  <1> QED
    BY <1>1, <1>4, Zenon

LEMMA CopiedSolves == Copied = Turn(Copied)
  <1>1. Copied = CHOOSE f : f = Turn(f)
    BY DEF Copied, Turn, FirstPart, Rest
  <1>2. \E f : f = Turn(f)
    BY StraightSolves
  <1> QED
    BY <1>1, <1>2

(* A set of naturals that is not empty has a smallest element.             *)
LEMMA SmallestIn ==
  ASSUME NEW T \in SUBSET Nat, T # {}
  PROVE  \E x \in T : \A y \in T : x <= y
  <1> DEFINE R == {p \in Nat \X Nat : p[1] < p[2]}
  <1>1. IsWellFoundedOn(R, Nat)
    BY NatLessThanWellFounded DEF OpToRel
  <1>2. PICK x \in T : \A y \in T : ~(<<y, x>> \in R)
    BY <1>1, WFMin
  <1>3. ASSUME NEW y \in T PROVE x <= y
    <2>1. x \in Nat /\ y \in Nat /\ <<y, x>> \in Nat \X Nat
      OBVIOUS
    <2>2. ~(y < x)
      BY <1>2, <2>1
    <2> QED
      BY <2>1, <2>2
  <1> QED
    BY <1>3

(* The bytes copied are the bytes in a row.                                *)
LEMMA CopiedIsStraight ==
  ASSUME NEW r \in ReadLocals
  PROVE  Copied[r] = Straight(r)
  <1> DEFINE Bad == {x \in ReadLocals : Copied[x] # Straight(x)}
             Totals == {x.total : x \in Bad}
  <1>1. SUFFICES ASSUME Bad # {} PROVE FALSE
    OBVIOUS
  <1>2. \A x \in ReadLocals : x.total \in Nat
    BY DEF ReadLocals
  <1>3. PICK t \in Totals : \A y \in Totals : t <= y
    <2>1. Totals \in SUBSET Nat /\ Totals # {}
      BY <1>1, <1>2
    <2> QED
      BY <2>1, SmallestIn
  <1>4. PICK x \in Bad : x.total = t
    BY <1>3
  <1>5. x \in ReadLocals /\ Copied[x] # Straight(x)
    BY <1>4
  <1>6. \A y \in ReadLocals :
          Copied[y] = IF y.total = 0 THEN <<>> ELSE FirstPart(y) \o Copied[Rest(y)]
    BY CopiedSolves DEF Turn
  <1>7. CASE x.total = 0
    <2>1. Straight(x) = <<>>
      BY <1>7 DEF Straight
    <2> QED
      BY <1>5, <1>6, <1>7, <2>1
  <1>8. CASE x.total # 0
    <2>1. Rest(x) \in ReadLocals /\ Rest(x).total < x.total
      <3>1. PICK T, n : T = x.total /\ n = ReadSize(x.total, x.offset)
        OBVIOUS
      <3>2. T \in Nat /\ n \in Nat /\ n # 0 /\ n <= T /\ Rest(x) \in ReadLocals /\ Rest(x).total = T - n
        BY <1>5, <1>8, <3>1, ReadPart
      <3> QED
        BY <3>1, <3>2
    <2>2. Rest(x) \notin Bad
      <3>1. SUFFICES ASSUME Rest(x) \in Bad PROVE FALSE
        OBVIOUS
      <3>2. t <= Rest(x).total
        BY <1>3, <3>1
      <3>3. t \in Nat /\ Rest(x).total \in Nat
        BY <1>2, <1>4, <1>5, <2>1
      <3> QED
        BY <1>4, <2>1, <3>2, <3>3
    <2>3. Copied[Rest(x)] = Straight(Rest(x))
      BY <2>1, <2>2
    <2>4. Straight(x) = FirstPart(x) \o Straight(Rest(x))
      BY <1>5, <1>8, StraightNext
    <2>5. Copied[x] = FirstPart(x) \o Copied[Rest(x)]
      BY <1>5, <1>6, <1>8
    <2> QED
      BY <1>5, <2>3, <2>4, <2>5
  <1> QED
    BY <1>7, <1>8

(* Byte x of the file, from the start of the page of an offset on.         *)
LEMMA ViewAt ==
  ASSUME NEW o \in 0..(U64 - 1), NEW y \in Nat, NEW x, x = (o - (o % PageSize)) + y
  PROVE  View(x % U64) = Source(PageAt(o \div PageSize, y \div PageSize))[y % PageSize]
  <1>1. PageSize \in Nat \ {0} /\ U64 \in Nat \ {0} /\ Round \in Nat \ {0} /\ PageSize * Round = U64
        /\ o \in Nat
    BY RoundIs, Sizes
  <1>2. PICK q, r, j, b, A, B : /\ q = o \div PageSize /\ r = o % PageSize
                                /\ j = y \div PageSize /\ b = y % PageSize
                                /\ A = PageSize * q /\ B = PageSize * j
    OBVIOUS
  <1>3. q \in Nat /\ r \in Nat /\ r < PageSize /\ o = A + r /\ A \in Nat
    <2>1. q \in Nat /\ r \in 0..(PageSize - 1) /\ o = A + r /\ A \in Nat
      BY <1>1, <1>2, Division
    <2> QED
      BY <1>1, <2>1
  <1>4. j \in Nat /\ b \in Nat /\ b < PageSize /\ y = B + b /\ B \in Nat
    <2>1. j \in Nat /\ b \in 0..(PageSize - 1) /\ y = B + b /\ B \in Nat
      BY <1>1, <1>2, Division
    <2> QED
      BY <1>1, <2>1
  <1>5. x = (A + B) + b
    BY <1>2, <1>3, <1>4
  <1>6. PICK e, f, E, F : /\ e = (q + j) \div Round /\ f = (q + j) % Round
                          /\ E = Round * e /\ F = PageSize * f
    OBVIOUS
  <1>7. e \in Nat /\ f \in Nat /\ f < Round /\ q + j = E + f /\ E \in Nat
    <2>1. q + j \in Nat
      BY <1>3, <1>4
    <2>2. e \in Nat /\ f \in 0..(Round - 1) /\ q + j = E + f /\ E \in Nat
      BY <1>1, <1>6, <2>1, Division
    <2> QED
      BY <1>1, <2>2
  <1>8. A + B = U64 * e + F /\ U64 * e \in Nat /\ F \in Nat
    <2>1. A + B = PageSize * (q + j)
      BY <1>1, <1>2, <1>3, <1>4
    <2>2. PageSize * (E + f) = PageSize * E + PageSize * f
      BY <1>1, <1>7
    <2>3. PageSize * (Round * e) = (PageSize * Round) * e
      BY <1>1, <1>7
    <2>4. PageSize * E = U64 * e
      BY <1>1, <1>6, <2>3
    <2>5. U64 * e \in Nat /\ F \in Nat
      <3>1. PageSize \in Nat /\ U64 \in Nat /\ e \in Nat /\ f \in Nat
        BY <1>1, <1>7
      <3>2. U64 * e \in Nat /\ PageSize * f \in Nat
        BY <3>1
      <3> QED
        BY <1>6, <3>2
    <2> QED
      BY <1>6, <1>7, <2>1, <2>2, <2>4, <2>5
  <1>9. F + b < U64
    <2>1. PageSize * (f + 1) = F + PageSize /\ PageSize * (f + 1) <= PageSize * Round
      BY <1>1, <1>6, <1>7, Larger
    <2> QED
      BY <1>1, <1>4, <1>8, <2>1
  <1>10. x % U64 = F + b
    <2>1. PICK G : G = U64 * e
      OBVIOUS
    <2>2. G \in Nat /\ x = G + F + b
      BY <1>4, <1>5, <1>8, <2>1
    <2>3. x \in Nat /\ G <= x /\ x < G + U64 /\ x - G = F + b
      <3>1. F \in Nat /\ b \in Nat /\ U64 \in Nat
        BY <1>1, <1>4, <1>8
      <3> QED
        BY <1>9, <2>2, <3>1
    <2>4. x % U64 = x - U64 * e
      <3>1. U64 * e <= x /\ x < U64 * e + U64
        BY <2>1, <2>3
      <3>2. U64 \in Nat \ {0} /\ x \in Nat /\ e \in Nat
        BY <1>1, <1>7, <2>3, Zenon
      <3> QED
        BY <3>1, <3>2, PageIs, Zenon
    <2> QED
      BY <2>1, <2>3, <2>4
  <1>11. (F + b) \div PageSize = f /\ (F + b) % PageSize = b
    <2>1. F + b \in Nat /\ F <= F + b /\ F + b < F + PageSize /\ (F + b) - F = b
      BY <1>1, <1>4, <1>8
    <2>2. (F + b) \div PageSize = f /\ (F + b) % PageSize = (F + b) - PageSize * f
      <3>1. PICK z : z = F + b
        OBVIOUS
      <3>2. z \in Nat /\ PageSize * f <= z /\ z < PageSize * f + PageSize
        BY <1>6, <2>1, <3>1
      <3>3. z \div PageSize = f /\ z % PageSize = z - PageSize * f
        BY <1>1, <1>7, <3>2, PageIs
      <3> QED
        BY <3>1, <3>3
    <2> QED
      BY <1>6, <2>1, <2>2
  <1>12. f = PageAt(q, j)
    <2>1. CASE j = 0
      <3>1. q < Round
        <4>1. SUFFICES ASSUME Round <= q PROVE FALSE
          BY <1>1, <1>3
        <4>2. Round * 1 = Round /\ PageSize * Round <= A
          <5>1. CASE Round = q
            BY <1>1, <1>2, <1>3, <5>1
          <5>2. CASE Round < q
            <6>1. PageSize * (Round + 1) = PageSize * Round + PageSize /\ PageSize * (Round + 1) <= PageSize * q
              BY <1>1, <1>3, <5>2, Larger
            <6> QED
              BY <1>1, <1>2, <1>3, <6>1
          <5> QED
            BY <1>1, <1>3, <4>1, <5>1, <5>2
        <4> QED
          BY <1>1, <1>3, <4>2
      <3>2. q + j = q /\ Round * 0 = 0 /\ 0 <= q /\ q < 0 + Round /\ q - 0 = q
        BY <1>1, <1>3, <2>1, <3>1
      <3>3. q % Round = q - Round * 0
        <4>1. q \in Nat /\ 0 \in Nat /\ Round * 0 <= q /\ q < Round * 0 + Round
          BY <1>3, <3>2
        <4> QED
          BY <1>1, <4>1, PageIs
      <3> QED
        BY <1>6, <2>1, <3>2, <3>3 DEF PageAt
    <2>2. CASE j # 0
      BY <1>6, <2>2 DEF PageAt
    <2> QED
      BY <2>1, <2>2
  <1> QED
    BY <1>2, <1>10, <1>11, <1>12 DEF View

(* nvmio_read returns the bytes of the file.                               *)
LEMMA ReadsView ==
  ASSUME NEW o \in 0..(U64 - 1), NEW cnt \in Nat
  PROVE  NvmioRead(o, cnt) = [k \in 1..cnt |-> View((o + k - 1) % U64)]
  <1>1. PICK q, r : q = o \div PageSize /\ r = o % PageSize
    OBVIOUS
  <1>2. q \in Nat /\ r \in Byte /\ r \in Nat /\ o \in Nat
    <2>1. PageSize \in Nat \ {0} /\ Byte = 0..(PageSize - 1) /\ o \in Nat
      BY Sizes
    <2>2. q \in Nat /\ r \in 0..(PageSize - 1)
      BY <1>1, <2>1, Division
    <2> QED
      BY <2>1, <2>2
  <1>3. PICK l : l = [total |-> cnt, start |-> q, offset |-> r]
    OBVIOUS
  <1>4. l \in ReadLocals /\ l.total = cnt /\ l.start = q /\ l.offset = r
    BY <1>2, <1>3 DEF ReadLocals
  <1>5. NvmioRead(o, cnt) = Straight(l)
    BY <1>1, <1>3, <1>4, CopiedIsStraight DEF NvmioRead
  <1>6. ASSUME NEW k \in 1..cnt
        PROVE  Source(PageAt(q, (r + k - 1) \div PageSize))[(r + k - 1) % PageSize] = View((o + k - 1) % U64)
    <2>1. r + k - 1 \in Nat /\ o + k - 1 = (o - r) + (r + k - 1)
      BY <1>2
    <2> QED
      BY <1>1, <2>1, ViewAt
  <1>7. Straight(l) = [k \in 1..cnt |-> View((o + k - 1) % U64)]
    BY <1>4, <1>6 DEF Straight
  <1> QED
    BY <1>5, <1>7

LEMMA ReadsAgree == ReadAgrees
  <1> SUFFICES ASSUME NEW o \in 0..FileBytes \cup (U64 - 2)..(U64 - 1), NEW cnt \in 0..FileBytes
               PROVE  NvmioRead(o, cnt) = [k \in 1..cnt |-> View((o + k - 1) % U64)]
    BY DEF ReadAgrees
  <1>1. FileBytes \in Nat /\ FileBytes > 0 /\ U64 \in Nat /\ U64 > 2 * FileBytes
    BY Sizes
  <1>2. o \in 0..(U64 - 1) /\ cnt \in Nat
    BY <1>1
  <1> QED
    BY <1>2, ReadsView

(* However the pages divide them, the bytes nvmio_read copies are those of *)
(* the file, also across the end of a u64.                                 *)
THEOREM Reads == Spec => []ReadAgrees
  BY ReadsAgree, PTL
=============================================================================
