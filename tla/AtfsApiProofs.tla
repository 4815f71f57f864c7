--------------------------- MODULE AtfsApiProofs ---------------------------
(***************************************************************************)
(* The list of inodes of the API never leads to NULL, and stays a ring of  *)
(* the inserted inodes until a linked inode is inserted again, for any     *)
(* number of threads, names and inodes; and no descriptor is taken for an  *)
(* error code.                                                             *)
(***************************************************************************)
EXTENDS AtfsApi, PathHash, TLAPS

-----------------------------------------------------------------------------
(* The parts of the invariant and of RingSound that speak of the ring.     *)
Sturdy(r) ==
  /\ r \in [next : [Node -> Node \cup {Null}], prev : [Node -> Node \cup {Null}]]
  /\ r.next[s_list] # Null
  /\ \A n \in Node : r.next[n] # Null =>
       /\ r.next[n] # Null /\ r.next[r.next[n]] # Null
       /\ r.prev[n] # Null /\ r.next[r.prev[n]] # Null

Nodes(r) == {n \in Node : r.next[n] # Null}

Inverse(r) == \A n \in Nodes(r) : r.prev[r.next[n]] = n /\ r.next[r.prev[n]] = n

Sound(r) ==
  /\ Closed(r.next, Nodes(r))
  /\ \A S \in SUBSET Nodes(r) : Closed(r.next, S) => S = Nodes(r)
  /\ Inverse(r)

LEMMA Heads == s_list \in Node /\ Inode \subseteq Node /\ s_list \notin Inode /\ Null \notin Node
  BY ApiAssumption DEF Node

LEMMA SturdyLinks ==
  ASSUME NEW r, Sturdy(r), NEW n \in Nodes(r)
  PROVE  n \in Node /\ r.next[n] \in Nodes(r) /\ r.prev[n] \in Nodes(r)
  BY Heads DEF Sturdy, Nodes

(* list_add: what it does to each list_head.                               *)
LEMMA Added ==
  ASSUME NEW r, Sturdy(r), NEW n \in Node, NEW first, first = r.next[s_list],
         NEW a, a = ListAdd(r, n)
  PROVE  /\ a \in [next : [Node -> Node \cup {Null}], prev : [Node -> Node \cup {Null}]]
         /\ first \in Node
         /\ \A m \in Node :
              /\ a.next[m] = IF m = s_list THEN n ELSE IF m = n THEN first ELSE r.next[m]
              /\ a.prev[m] = IF m = n THEN s_list ELSE IF m = first THEN n ELSE r.prev[m]
  <1>1. PICK nx, pv : nx = r.next /\ pv = r.prev
    OBVIOUS
  <1>2. nx \in [Node -> Node \cup {Null}] /\ pv \in [Node -> Node \cup {Null}] /\ nx[s_list] # Null
    BY <1>1 DEF Sturdy
  <1>3. s_list \in Node /\ first = nx[s_list] /\ first \in Node
    BY <1>1, <1>2, Heads
  <1>4. a = [next |-> [nx EXCEPT ![n] = first, ![s_list] = n],
             prev |-> [pv EXCEPT ![first] = n, ![n] = s_list]]
    BY <1>1, <1>3 DEF ListAdd
  <1> QED
    BY <1>1, <1>2, <1>3, <1>4

LEMMA AddSturdy ==
  ASSUME NEW r, Sturdy(r), NEW n \in Node
  PROVE  Sturdy(ListAdd(r, n)) /\ Nodes(ListAdd(r, n)) = Nodes(r) \cup {n}
  <1>1. PICK a, first : a = ListAdd(r, n) /\ first = r.next[s_list]
    OBVIOUS
  <1>2. /\ a \in [next : [Node -> Node \cup {Null}], prev : [Node -> Node \cup {Null}]]
        /\ first \in Node
        /\ \A m \in Node :
             /\ a.next[m] = IF m = s_list THEN n ELSE IF m = n THEN first ELSE r.next[m]
             /\ a.prev[m] = IF m = n THEN s_list ELSE IF m = first THEN n ELSE r.prev[m]
    BY <1>1, Added
  <1>3. s_list \in Nodes(r) /\ first \in Nodes(r)
    BY <1>1, Heads, SturdyLinks DEF Sturdy, Nodes
  <1>4. Nodes(a) = Nodes(r) \cup {n}
    BY <1>2, <1>3, Heads DEF Nodes
  <1>5. \A m \in Nodes(a) : m \in Node /\ a.next[m] \in Nodes(a) /\ a.prev[m] \in Nodes(a)
    <2> SUFFICES ASSUME NEW m \in Nodes(a)
                 PROVE  m \in Node /\ a.next[m] \in Nodes(a) /\ a.prev[m] \in Nodes(a)
      OBVIOUS
    <2>1. m \in Node
      BY DEF Nodes
    <2>2. m # n => m \in Nodes(r) /\ r.next[m] \in Nodes(r) /\ r.prev[m] \in Nodes(r)
      BY <1>4, SturdyLinks
    <2> QED
      BY <1>2, <1>3, <1>4, <2>1, <2>2
  <1>6. Sturdy(a)
    BY <1>2, <1>3, <1>4, <1>5, Heads DEF Sturdy, Nodes
  <1> QED
    BY <1>1, <1>4, <1>6

(* list_del does not tell the inode.                                       *)
LEMMA DelSturdy ==
  ASSUME NEW r, Sturdy(r), NEW n \in Nodes(r), NEW d, d = ListDel(r, n)
  PROVE  /\ Sturdy(d) /\ Nodes(d) = Nodes(r)
         /\ \A m \in Node :
              /\ d.next[m] = IF m = r.prev[n] THEN r.next[n] ELSE r.next[m]
              /\ d.prev[m] = IF m = r.next[n] THEN r.prev[n] ELSE r.prev[m]
  <1>1. PICK nx, pv, p, x : nx = r.next /\ pv = r.prev /\ p = r.prev[n] /\ x = r.next[n]
    OBVIOUS
  <1>2. nx \in [Node -> Node \cup {Null}] /\ pv \in [Node -> Node \cup {Null}] /\ nx[s_list] # Null
    BY <1>1 DEF Sturdy
  <1>3. n \in Node /\ p \in Nodes(r) /\ x \in Nodes(r) /\ p \in Node /\ x \in Node /\ s_list \in Nodes(r)
    BY <1>1, <1>2, Heads, SturdyLinks DEF Nodes
  <1>4. d = [next |-> [nx EXCEPT ![p] = x], prev |-> [pv EXCEPT ![x] = p]]
    BY <1>1 DEF ListDel
  <1>5. /\ d \in [next : [Node -> Node \cup {Null}], prev : [Node -> Node \cup {Null}]]
        /\ \A m \in Node : /\ d.next[m] = IF m = p THEN x ELSE r.next[m]
                           /\ d.prev[m] = IF m = x THEN p ELSE r.prev[m]
    BY <1>1, <1>2, <1>3, <1>4
  <1>6. Nodes(d) = Nodes(r)
    BY <1>3, <1>5, Heads DEF Nodes
  <1>7. \A m \in Nodes(d) : m \in Node /\ d.next[m] \in Nodes(d) /\ d.prev[m] \in Nodes(d)
    BY <1>3, <1>5, <1>6, SturdyLinks
  <1>8. Sturdy(d)
    BY <1>3, <1>5, <1>6, <1>7, Heads DEF Sturdy, Nodes
  <1> QED
    BY <1>1, <1>5, <1>6, <1>8

LEMMA MoveSturdy ==
  ASSUME NEW r, Sturdy(r), NEW n \in Nodes(r)
  PROVE  Sturdy(ListMove(r, n)) /\ Nodes(ListMove(r, n)) = Nodes(r)
  <1>1. PICK d : d = ListDel(r, n)
    OBVIOUS
  <1>2. Sturdy(d) /\ Nodes(d) = Nodes(r)
    BY <1>1, DelSturdy
  <1>3. Sturdy(ListAdd(d, n)) /\ Nodes(ListAdd(d, n)) = Nodes(d) \cup {n}
    BY <1>2, AddSturdy DEF Nodes
  <1> QED
    BY <1>1, <1>2, <1>3 DEF ListMove
-----------------------------------------------------------------------------
(* list_add of an inode that is not linked keeps the ring.                 *)
LEMMA AddSound ==
  ASSUME NEW r, Sturdy(r), Sound(r), NEW n \in Inode, n \notin Nodes(r)
  PROVE  Sound(ListAdd(r, n))
  <1>1. PICK a, first : a = ListAdd(r, n) /\ first = r.next[s_list]
    OBVIOUS
  <1>2. /\ first \in Node /\ n \in Node /\ n # s_list
        /\ \A m \in Node :
             /\ a.next[m] = IF m = s_list THEN n ELSE IF m = n THEN first ELSE r.next[m]
             /\ a.prev[m] = IF m = n THEN s_list ELSE IF m = first THEN n ELSE r.prev[m]
    BY <1>1, Added, Heads
  <1>3. Sturdy(a) /\ Nodes(a) = Nodes(r) \cup {n}
    BY <1>1, AddSturdy, Heads
  <1>4. s_list \in Nodes(r) /\ first \in Nodes(r) /\ s_list \in Node
    BY <1>1, Heads, SturdyLinks DEF Sturdy, Nodes
  <1>5. ASSUME NEW m \in Nodes(r)
        PROVE  /\ m \in Node /\ m # n /\ r.next[m] \in Nodes(r) /\ r.prev[m] \in Nodes(r)
               /\ r.prev[r.next[m]] = m /\ r.next[r.prev[m]] = m
               /\ r.next[m] # n /\ r.prev[m] # n
    BY SturdyLinks DEF Sound, Inverse
  <1>6. Closed(a.next, Nodes(a))
    BY <1>3, <1>4, SturdyLinks DEF Closed
  <1>7. ASSUME NEW S \in SUBSET Nodes(a), Closed(a.next, S) PROVE S = Nodes(a)
    <2>1. s_list \in S /\ n \in S /\ first \in S
      BY <1>2, <1>4, <1>7 DEF Closed
    <2>2. Closed(r.next, S \ {n})
      <3>1. ASSUME NEW m \in S \ {n} PROVE r.next[m] \in S \ {n}
        <4>1. m \in Nodes(r)
          BY <1>3
        <4>2. CASE m = s_list
          BY <1>1, <1>4, <1>5, <2>1, <4>2
        <4>3. CASE m # s_list
          <5>1. a.next[m] = r.next[m]
            BY <1>2, <1>5, <4>1, <4>3
          <5> QED
            BY <1>5, <1>7, <4>1, <5>1 DEF Closed
        <4> QED
          BY <4>2, <4>3
      <3> QED
        BY <1>2, <2>1, <3>1 DEF Closed
    <2>3. S \ {n} = Nodes(r)
      BY <1>3, <2>2 DEF Sound
    <2> QED
      BY <1>3, <2>1, <2>3
  <1>8. ASSUME NEW m \in Nodes(a) PROVE a.prev[a.next[m]] = m /\ a.next[a.prev[m]] = m
    <2>1. CASE m = n
      BY <1>2, <1>4, <1>5, <2>1
    <2>2. CASE m # n
      <3>1. m \in Nodes(r)
        BY <1>3, <2>2
      <3>2. a.prev[a.next[m]] = m
        BY <1>1, <1>2, <1>4, <1>5, <2>2, <3>1
      <3>3. a.next[a.prev[m]] = m
        BY <1>1, <1>2, <1>4, <1>5, <2>2, <3>1
      <3> QED
        BY <3>2, <3>3
    <2> QED
      BY <2>1, <2>2
  <1> QED
    BY <1>1, <1>6, <1>7, <1>8 DEF Sound, Inverse

(* list_move keeps it, wherever in the ring the inode is.                  *)
LEMMA MoveSound ==
  ASSUME NEW r, Sturdy(r), Sound(r), NEW n \in Inode, n \in Nodes(r)
  PROVE  Sound(ListMove(r, n))
  <1>1. PICK d, a, p, x, first :
          /\ d = ListDel(r, n) /\ a = ListMove(r, n)
          /\ p = r.prev[n] /\ x = r.next[n] /\ first = r.next[s_list]
    OBVIOUS
  <1>2. /\ Sturdy(d) /\ Nodes(d) = Nodes(r) /\ Sturdy(a) /\ Nodes(a) = Nodes(r)
        /\ \A m \in Node : /\ d.next[m] = IF m = p THEN x ELSE r.next[m]
                           /\ d.prev[m] = IF m = x THEN p ELSE r.prev[m]
    BY <1>1, DelSturdy, MoveSturdy
  <1>3. PICK g : g = d.next[s_list]
    OBVIOUS
  <1>4. /\ n # s_list
        /\ \A m \in Node :
             /\ a.next[m] = IF m = s_list THEN n ELSE IF m = n THEN g ELSE d.next[m]
             /\ a.prev[m] = IF m = n THEN s_list ELSE IF m = g THEN n ELSE d.prev[m]
    BY <1>1, <1>2, <1>3, Added, Heads DEF ListMove
  <1>5. /\ s_list \in Nodes(r) /\ first \in Nodes(r) /\ p \in Nodes(r) /\ x \in Nodes(r)
    BY <1>1, Heads, SturdyLinks DEF Sturdy, Nodes
  <1>6. ASSUME NEW m \in Nodes(r)
        PROVE  /\ m \in Node /\ r.next[m] \in Nodes(r) /\ r.prev[m] \in Nodes(r)
               /\ r.prev[r.next[m]] = m /\ r.next[r.prev[m]] = m
    BY SturdyLinks DEF Sound, Inverse
  <1>7. Closed(a.next, Nodes(a))
    BY <1>2, <1>5, SturdyLinks DEF Closed
  <1>8. \A S \in SUBSET Nodes(r) : Closed(r.next, S) => S = Nodes(r)
    BY DEF Sound
  <1>9. CASE first = n
    <2>1. p = s_list
      BY <1>1, <1>5, <1>6, <1>9
    <2>2. g = x
      BY <1>2, <1>3, <1>5, <1>6, <2>1
    <2>3. \A m \in Nodes(r) : a.next[m] = r.next[m] /\ a.prev[m] = r.prev[m]
      <3> SUFFICES ASSUME NEW m \in Nodes(r)
                   PROVE  a.next[m] = r.next[m] /\ a.prev[m] = r.prev[m]
        OBVIOUS
      <3>1. a.next[m] = IF m = s_list THEN n ELSE IF m = n THEN x ELSE r.next[m]
        BY <1>2, <1>4, <1>6, <2>1, <2>2
      <3>2. a.prev[m] = IF m = n THEN s_list ELSE IF m = x THEN n ELSE r.prev[m]
        BY <1>2, <1>4, <1>6, <2>1, <2>2
      <3>3. r.prev[x] = n
        BY <1>1, <1>6
      <3> QED
        BY <1>1, <1>9, <2>1, <3>1, <3>2, <3>3
    <2>4. \A S \in SUBSET Nodes(r) : Closed(a.next, S) => Closed(r.next, S)
      BY <2>3 DEF Closed
    <2>5. \A m \in Nodes(r) : a.prev[a.next[m]] = m /\ a.next[a.prev[m]] = m
      BY <1>6, <2>3
    <2> QED
      BY <1>1, <1>2, <1>7, <1>8, <2>4, <2>5 DEF Sound, Inverse
  <1>10. CASE first # n
    <2>1. p # s_list /\ g = first
      BY <1>1, <1>2, <1>3, <1>5, <1>6, <1>10
    <2>2. p # n /\ x # n /\ first # x
      <3>1. SUFFICES ASSUME p = n \/ x = n PROVE FALSE
        BY <1>1, <1>4, <1>5, <1>6
      <3>2. x = n /\ p = n
        BY <1>1, <1>6, <3>1
      <3>3. Closed(r.next, Nodes(r) \ {n})
        <4>1. ASSUME NEW m \in Nodes(r) \ {n} PROVE r.next[m] \in Nodes(r) \ {n}
          BY <1>1, <1>6, <3>2
        <4> QED
          BY <1>4, <1>5, <4>1 DEF Closed
      <3> QED
        BY <1>8, <3>3
    <2>3. \A m \in Nodes(r) :
            /\ a.next[m] = IF m = s_list THEN n ELSE IF m = n THEN first ELSE IF m = p THEN x ELSE r.next[m]
            /\ a.prev[m] = IF m = n THEN s_list ELSE IF m = first THEN n ELSE IF m = x THEN p ELSE r.prev[m]
      BY <1>2, <1>4, <1>6, <2>1
    <2>4. ASSUME NEW m \in Nodes(r) PROVE a.prev[a.next[m]] = m /\ a.next[a.prev[m]] = m
      <3>1. a.prev[a.next[m]] = m
        BY <1>1, <1>4, <1>5, <1>6, <1>10, <2>1, <2>2, <2>3
      <3>2. a.next[a.prev[m]] = m
        BY <1>1, <1>4, <1>5, <1>6, <1>10, <2>1, <2>2, <2>3
      <3> QED
        BY <3>1, <3>2
    <2>5. ASSUME NEW S \in SUBSET Nodes(r), Closed(a.next, S) PROVE S = Nodes(r)
      <3>1. s_list \in S /\ n \in S /\ first \in S
        <4>1. s_list \in S /\ \A m \in S : a.next[m] \in S
          BY <2>5 DEF Closed
        <4>2. a.next[s_list] = n /\ a.next[n] = first
          BY <1>4, <1>5, <2>3
        <4> QED
          BY <4>1, <4>2
      <3>2. p \in S
        <4>1. SUFFICES ASSUME p \notin S PROVE FALSE
          OBVIOUS
        <4>2. ASSUME NEW m \in S \ {n} PROVE r.next[m] \in S \ {n}
          <5>1. m \in Nodes(r) /\ m # p /\ r.next[m] # n
            BY <1>1, <1>6, <4>1
          <5>2. CASE m = s_list
            BY <1>1, <1>10, <3>1, <5>2
          <5>3. CASE m # s_list
            BY <2>3, <2>5, <5>1, <5>3 DEF Closed
          <5> QED
            BY <5>2, <5>3
        <4>3. Closed(r.next, S \ {n})
          BY <1>4, <3>1, <4>2 DEF Closed
        <4>4. S \ {n} = Nodes(r)
          BY <1>8, <4>3
        <4> QED
          BY <4>4
      <3>3. x \in S
        BY <2>1, <2>2, <2>3, <2>5, <3>2 DEF Closed
      <3>4. ASSUME NEW m \in S PROVE r.next[m] \in S
        <4>1. CASE m = s_list \/ m = n \/ m = p
          BY <1>1, <1>6, <3>1, <3>3, <4>1
        <4>2. CASE ~(m = s_list \/ m = n \/ m = p)
          BY <2>3, <2>5, <4>2 DEF Closed
        <4> QED
          BY <4>1, <4>2
      <3> QED
        BY <1>8, <3>1, <3>4 DEF Closed
    <2> QED
      BY <1>1, <1>2, <1>7, <2>4, <2>5 DEF Sound, Inverse
  <1> QED
    BY <1>9, <1>10

-----------------------------------------------------------------------------
(* The invariant.                                                          *)
LEMMA InitInv == Init => IInv
  BY Heads DEF Init, IInv, TypeOK, NeighboursLinked, CallsHold, Linked

(* What is left of the invariant, once the ring is set aside.              *)
Calls ==
  /\ inodeOf \in [Fd -> Inode \cup {Null}]
  /\ fd \in [Inode -> Fd \cup {Null}]
  /\ pc \in [Thread -> {"idle", "alloc", "insert", "move"}]
  /\ arg \in [Thread -> Fd \cup {Null}]
  /\ node \in [Thread -> Inode \cup {Null}]
  /\ \A d \in Fd : inodeOf[d] # Null => inodeOf[d] \in Nodes(ring)
  /\ \A t \in Thread :
       /\ pc[t] \in {"alloc", "insert"} => arg[t] \in Fd
       /\ pc[t] \in {"insert", "move"} => node[t] \in Inode
       /\ pc[t] = "move" => node[t] \in Nodes(ring)

LEMMA Parts == IInv <=> Sturdy(ring) /\ Calls
  BY Heads DEF IInv, TypeOK, NeighboursLinked, CallsHold, Linked, Sturdy, Calls, Nodes

LEMMA SoundIs == RingSound <=> Sound(ring)
  BY DEF RingSound, Sound, Inverse, Nodes, Linked
LEMMA StepInv == IInv /\ [Next]_vars => IInv'
  <1> SUFFICES ASSUME Sturdy(ring), Calls, [Next]_vars PROVE Sturdy(ring)' /\ Calls'
    BY Parts, PTL
  <1>1. Inode \subseteq Node /\ Null \notin Inode /\ Nodes(ring) \subseteq Node
    BY Heads DEF Nodes
  <1>2. ASSUME NEW t \in Thread, LookUpAbsent(t) \/ AllocInode(t) \/ OpenExisting(t) \/ LookUpUse(t)
        PROVE  Sturdy(ring)' /\ Calls'
    <2>1. ring' = ring
      BY <1>2 DEF LookUpAbsent, AllocInode, OpenExisting, LookUpUse
    <2>2. Sturdy(ring)' /\ Nodes(ring)' = Nodes(ring)
      BY <2>1
    <2>3. CASE LookUpAbsent(t)
      BY <1>1, <2>2, <2>3 DEF LookUpAbsent, Goto, Calls
    <2>4. CASE AllocInode(t)
      BY <1>1, <2>2, <2>4 DEF AllocInode, Goto, Calls
    <2>5. CASE OpenExisting(t)
      BY <1>1, <2>2, <2>5 DEF OpenExisting, Goto, Calls
    <2>6. CASE LookUpUse(t)
      BY <1>1, <2>2, <2>6 DEF LookUpUse, Goto, Calls
    <2> QED
      BY <1>2, <2>3, <2>4, <2>5, <2>6
  <1>3. ASSUME NEW t \in Thread, Insert(t) PROVE Sturdy(ring)' /\ Calls'
    <2>1. node[t] \in Inode /\ arg[t] \in Fd /\ ring' = ListAdd(ring, node[t])
      BY <1>3 DEF Insert, Calls
    <2>2. Sturdy(ring)' /\ Nodes(ring)' = Nodes(ring) \cup {node[t]}
      BY <1>1, <2>1, AddSturdy
    <2> QED
      BY <1>1, <1>3, <2>1, <2>2 DEF Insert, Goto, Calls
  <1>4. ASSUME NEW t \in Thread, Move(t) PROVE Sturdy(ring)' /\ Calls'
    <2>1. node[t] \in Nodes(ring) /\ ring' = ListMove(ring, node[t])
      BY <1>4 DEF Move, Calls
    <2>2. Sturdy(ring)' /\ Nodes(ring)' = Nodes(ring)
      BY <2>1, MoveSturdy
    <2> QED
      BY <1>1, <1>4, <2>2 DEF Move, Goto, Calls
  <1>5. ASSUME Collect PROVE Sturdy(ring)' /\ Calls'
    <2>1. Victim(ring) \in Nodes(ring)
      BY Heads, SturdyLinks DEF Victim, Nodes, Sturdy
    <2>2. Sturdy(ring)' /\ Nodes(ring)' = Nodes(ring)
      BY <1>5, <2>1, MoveSturdy DEF Collect
    <2> QED
      BY <1>5, <2>2 DEF Collect, Calls
  <1>6. ASSUME UNCHANGED vars PROVE Sturdy(ring)' /\ Calls'
    BY <1>6 DEF vars, Calls
  <1> QED
    BY <1>2, <1>3, <1>4, <1>5, <1>6 DEF Next

(* Whatever is created, opened, used and collected, also when the ring is  *)
(* broken, list_move and the collector never follow a NULL.                *)
THEOREM ListSafety == Spec => []IInv
  BY InitInv, StepInv, PTL DEF Spec

LEMMA BreakStep ==
  IInv /\ [Next]_vars =>
    (RingSound /\ ~RingSound' => \E t \in Thread : pc[t] = "insert" /\ Linked(node[t]))
  <1> SUFFICES ASSUME Sturdy(ring), Calls, [Next]_vars, Sound(ring),
                      ~\E t \in Thread : pc[t] = "insert" /\ node[t] \in Nodes(ring)
               PROVE  Sound(ring)'
    <2>1. \A t \in Thread : pc[t] = "insert" /\ node[t] \in Nodes(ring) => Linked(node[t])
      BY DEF Nodes, Linked
    <2>2. RingSound' <=> Sound(ring)'
      BY SoundIs, PTL
    <2> QED
      BY <2>1, <2>2, Parts, SoundIs
  <1>1. ASSUME NEW t \in Thread, Insert(t) PROVE Sound(ring)'
    <2>1. node[t] \in Inode /\ node[t] \notin Nodes(ring) /\ ring' = ListAdd(ring, node[t])
      BY <1>1 DEF Insert, Calls
    <2> QED
      BY <2>1, AddSound
  <1>2. ASSUME NEW t \in Thread, Move(t) PROVE Sound(ring)'
    <2>1. node[t] \in Inode /\ node[t] \in Nodes(ring) /\ ring' = ListMove(ring, node[t])
      BY <1>2 DEF Move, Calls
    <2> QED
      BY <2>1, MoveSound
  <1>3. ASSUME Collect PROVE Sound(ring)'
    <2>1. PICK v : v = Victim(ring)
      OBVIOUS
    <2>2. s_list \in Nodes(ring) /\ v = ring.prev[s_list] /\ v \in Nodes(ring)
      BY <2>1, Heads, SturdyLinks DEF Victim, Nodes, Sturdy
    <2>3. ring.next[v] = s_list /\ ring.next[s_list] # s_list /\ ring' = ListMove(ring, v)
      BY <1>3, <2>1, <2>2 DEF Collect, Sound, Inverse
    <2>4. v \in Inode
      BY <2>2, <2>3 DEF Nodes, Node
    <2> QED
      BY <2>2, <2>3, <2>4, MoveSound
  <1>4. ASSUME ring' = ring PROVE Sound(ring)'
    BY <1>4
  <1>5. \/ \E t \in Thread : Insert(t) \/ Move(t)
        \/ Collect
        \/ ring' = ring
    BY DEF Next, vars, LookUpAbsent, AllocInode, OpenExisting, LookUpUse
  <1> QED
    BY <1>1, <1>2, <1>3, <1>4, <1>5

(* The list stays a ring of all inserted inodes, in the order of use,      *)
(* until atfsopen with O_CREAT adds a linked inode to it again.            *)
THEOREM RingBreaks == Spec => RingBreaksOnlyByReopen
  BY ListSafety, BreakStep, PTL DEF Spec, RingBreaksOnlyByReopen
-----------------------------------------------------------------------------
(* The inodes behind another one in the list.                              *)
Onward(r, S) == \A n \in S \ {s_list} : r.next[n] \in S

BehindIn(r, i) ==
  {j \in Inode : \A S \in SUBSET Node : r.next[i] \in S /\ Onward(r, S) => j \in S}

(* Every way along the links of a sound ring comes to its head.            *)
LEMMA HeadReached ==
  ASSUME NEW r, Sturdy(r), Sound(r), NEW B \in SUBSET Nodes(r), s_list \notin B,
         \A n \in B : r.next[n] \in B
  PROVE  B = {}
  <1> DEFINE Avoids(D) == s_list \notin D /\ \A n \in D : r.next[n] \in D
             C == UNION {D \in SUBSET Nodes(r) : Avoids(D)}
  <1>1. C \in SUBSET Nodes(r) /\ Avoids(C) /\ B \subseteq C
    OBVIOUS
  <1>2. ASSUME NEW D \in SUBSET Nodes(r), Avoids(D) PROVE D \subseteq C
    BY <1>2
  <1> HIDE DEF C
  <1>3. s_list \in Nodes(r)
    BY Heads DEF Sturdy, Nodes
  <1>4. ASSUME NEW m \in Nodes(r)
        PROVE  r.next[m] \in Nodes(r) /\ r.prev[m] \in Nodes(r) /\ r.next[r.prev[m]] = m
    BY SturdyLinks DEF Sound, Inverse
  <1>5. \A S \in SUBSET Nodes(r) : Closed(r.next, S) => S = Nodes(r)
    BY DEF Sound
  <1>6. r.next[s_list] \notin C
    <2> SUFFICES ASSUME r.next[s_list] \in C PROVE FALSE
      OBVIOUS
    <2>1. Closed(r.next, C \cup {s_list})
      BY <1>1 DEF Closed
    <2>2. C \cup {s_list} = Nodes(r)
      BY <1>1, <1>3, <1>5, <2>1
    <2>3. r.prev[s_list] \in C \cup {s_list} /\ r.next[r.prev[s_list]] = s_list
      BY <1>3, <1>4, <2>2
    <2> QED
      BY <1>1, <2>3
  <1>7. ASSUME NEW m \in Nodes(r) \ C PROVE r.next[m] \in Nodes(r) \ C
    <2> SUFFICES ASSUME r.next[m] \in C, m # s_list PROVE FALSE
      BY <1>4, <1>6
    <2>1. C \cup {m} \in SUBSET Nodes(r) /\ Avoids(C \cup {m})
      BY <1>1
    <2>2. C \cup {m} \subseteq C
      BY <1>2, <2>1
    <2> QED
      BY <2>2
  <1>8. Closed(r.next, Nodes(r) \ C)
    BY <1>1, <1>3, <1>7 DEF Closed
  <1>9. Nodes(r) \ C = Nodes(r)
    BY <1>5, <1>8
  <1> QED
    BY <1>1, <1>9

(* So the last inode is behind every other one.                            *)
LEMMA LastIsBehind ==
  ASSUME NEW r, Sturdy(r), Sound(r), NEW i \in Inode, i \in Nodes(r),
         NEW v \in Inode, v = r.prev[s_list], i # v
  PROVE  v \in BehindIn(r, i)
  <1> SUFFICES ASSUME NEW S \in SUBSET Node, r.next[i] \in S, Onward(r, S), v \notin S
               PROVE  FALSE
    BY DEF BehindIn
  <1>1. ASSUME NEW m \in Nodes(r)
        PROVE  r.next[m] \in Nodes(r) /\ r.prev[r.next[m]] = m
    BY SturdyLinks DEF Sound, Inverse
  <1> DEFINE B == (S \cap Nodes(r)) \ {s_list}
  <1>2. ASSUME NEW m \in Nodes(r), m # v PROVE r.next[m] # s_list
    BY <1>1, <1>2
  <1>3. r.next[i] \in B
    BY <1>1, <1>2
  <1>4. ASSUME NEW m \in B PROVE r.next[m] \in B
    BY <1>1, <1>2 DEF Onward
  <1>5. B \in SUBSET Nodes(r) /\ s_list \notin B
    OBVIOUS
  <1> HIDE DEF B
  <1>6. B = {}
    BY <1>4, <1>5, HeadReached
  <1> QED
    BY <1>3, <1>6

(* list_move takes an inode away from behind the others, and puts nothing  *)
(* behind them; list_add of a new one leaves what is behind them.          *)
LEMMA LineAfterMove ==
  ASSUME NEW r, Sturdy(r), Sound(r), NEW n \in Inode, n \in Nodes(r),
         NEW i \in Inode, i \in Nodes(r), i # n
  PROVE  BehindIn(ListMove(r, n), i) \subseteq BehindIn(r, i) \ {n}
  <1>1. PICK d, a, p, x : /\ d = ListDel(r, n) /\ a = ListMove(r, n)
                          /\ p = r.prev[n] /\ x = r.next[n]
    OBVIOUS
  <1>2. /\ Sturdy(d) /\ Nodes(d) = Nodes(r)
        /\ \A m \in Node : d.next[m] = IF m = p THEN x ELSE r.next[m]
    BY <1>1, DelSturdy
  <1>3. \A m \in Node \ {s_list, n} : a.next[m] = d.next[m]
    BY <1>1, <1>2, Added, Heads DEF ListMove
  <1>4. ASSUME NEW m \in Nodes(r)
        PROVE  m \in Node /\ r.next[m] \in Nodes(r) /\ r.prev[r.next[m]] = m
    BY SturdyLinks DEF Sound, Inverse
  <1>5. n # s_list /\ i # s_list /\ s_list \notin Inode
    BY Heads
  <1>6. ASSUME NEW S \in SUBSET Node, Onward(r, S),
               NEW m \in Nodes(r), m # n, m # s_list, r.next[m] \in S
        PROVE  a.next[m] \in (S \cap Nodes(r)) \ {n}
    <2>1. m \in Node \ {s_list, n} /\ a.next[m] = IF m = p THEN x ELSE r.next[m]
      BY <1>2, <1>3, <1>4, <1>6
    <2>2. CASE r.next[m] = n
      <3>1. m = p /\ x \in S
        BY <1>1, <1>4, <1>5, <1>6, <2>2 DEF Onward
      <3>2. x \in Nodes(r) /\ x # n
        BY <1>1, <1>4, <1>6, <3>1
      <3> QED
        BY <2>1, <3>1, <3>2
    <2>3. CASE r.next[m] # n
      <3>1. m # p
        BY <1>1, <2>3 DEF Sound, Inverse
      <3> QED
        BY <1>4, <1>6, <2>1, <2>3, <3>1
    <2> QED
      BY <2>2, <2>3
  <1>7. ASSUME NEW j \in BehindIn(a, i), NEW S \in SUBSET Node, r.next[i] \in S, Onward(r, S)
        PROVE  j \in S \ {n}
    <2> DEFINE T == (S \cap Nodes(r)) \ {n}
    <2>1. a.next[i] \in T
      BY <1>5, <1>6, <1>7
    <2>2. ASSUME NEW m \in T \ {s_list} PROVE a.next[m] \in T
      <3>1. r.next[m] \in S
        BY <1>7 DEF Onward
      <3> QED
        BY <1>6, <1>7, <3>1
    <2>3. T \in SUBSET Node /\ Onward(a, T)
      BY <2>2 DEF Onward, Nodes
    <2>4. j \in T
      BY <1>7, <2>1, <2>3 DEF BehindIn
    <2> QED
      BY <2>4
  <1>8. Nodes(r) \in SUBSET Node /\ r.next[i] \in Nodes(r) /\ Onward(r, Nodes(r))
    BY <1>4 DEF Onward, Nodes
  <1>9. ASSUME NEW j \in BehindIn(a, i) PROVE j \in BehindIn(r, i) \ {n}
    <2>1. j \in Inode /\ j # n
      BY <1>7, <1>8 DEF BehindIn
    <2>2. \A S \in SUBSET Node : r.next[i] \in S /\ Onward(r, S) => j \in S
      BY <1>7
    <2> QED
      BY <2>1, <2>2 DEF BehindIn
  <1> QED
    BY <1>1, <1>9

LEMMA LineAfterAdd ==
  ASSUME NEW r, Sturdy(r), NEW n \in Inode, n \notin Nodes(r), NEW i \in Inode, i \in Nodes(r)
  PROVE  BehindIn(ListAdd(r, n), i) \subseteq BehindIn(r, i)
  <1>1. PICK a : a = ListAdd(r, n)
    OBVIOUS
  <1>2. \A m \in Nodes(r) \ {s_list} : a.next[m] = r.next[m] /\ r.next[m] \in Nodes(r)
    <2>1. \A m \in Node \ {s_list, n} : a.next[m] = r.next[m]
      BY <1>1, Added, Heads
    <2> QED
      BY <2>1, SturdyLinks
  <1>3. ASSUME NEW j \in BehindIn(a, i), NEW S \in SUBSET Node, r.next[i] \in S, Onward(r, S)
        PROVE  j \in S
    <2> DEFINE T == S \cap Nodes(r)
    <2>1. a.next[i] \in T
      BY <1>2, <1>3, Heads
    <2>2. ASSUME NEW m \in T \ {s_list} PROVE a.next[m] \in T
      BY <1>2, <1>3 DEF Onward
    <2>3. T \in SUBSET Node /\ Onward(a, T)
      BY <2>2 DEF Onward
    <2>4. j \in T
      BY <1>3, <2>1, <2>3 DEF BehindIn
    <2> QED
      BY <2>4
  <1>4. \A j \in BehindIn(a, i) : j \in Inode
    BY DEF BehindIn
  <1>5. \A j \in BehindIn(a, i) : j \in BehindIn(r, i)
    BY <1>3, <1>4 DEF BehindIn
  <1> QED
    BY <1>1, <1>5

(* list_add of an inode that is linked breaks the ring, wherever it is:    *)
(* two list_heads have it for their next one.                              *)
LEMMA ReopenBreaks ==
  ASSUME NEW r, Sturdy(r), Sound(r), NEW n \in Inode, n \in Nodes(r), Sound(ListAdd(r, n))
  PROVE  FALSE
  <1>1. PICK a, p, first : a = ListAdd(r, n) /\ p = r.prev[n] /\ first = r.next[s_list]
    OBVIOUS
  <1>2. /\ n # s_list /\ s_list \in Nodes(r) /\ n \in Node /\ s_list \in Node
        /\ \A m \in Node :
             a.next[m] = IF m = s_list THEN n ELSE IF m = n THEN first ELSE r.next[m]
    <2>1. n # s_list /\ s_list \in Nodes(r) /\ n \in Node /\ s_list \in Node
      BY Heads DEF Sturdy, Nodes
    <2> QED
      BY <1>1, <2>1, Added
  <1>3. Nodes(a) = Nodes(r)
    BY <1>1, AddSturdy DEF Nodes
  <1>4. ASSUME NEW m \in Nodes(r)
        PROVE  /\ m \in Node /\ r.next[m] \in Nodes(r) /\ r.prev[m] \in Nodes(r)
               /\ r.prev[r.next[m]] = m /\ r.next[r.prev[m]] = m
               /\ a.prev[a.next[m]] = m
    BY <1>1, <1>3, SturdyLinks DEF Sound, Inverse
  <1>5. CASE p = s_list
    <2>1. first = n
      <3>1. r.next[p] = n
        BY <1>1, <1>4
      <3> QED
        BY <1>1, <1>5, <3>1
    <2>2. a.next[n] = n /\ a.next[s_list] = n
      BY <1>2, <2>1
    <2> QED
      BY <1>2, <1>4, <2>2
  <1>6. CASE p = n
    <2>1. r.prev[n] = n
      BY <1>1, <1>6
    <2>2. ASSUME NEW m \in Nodes(r) \ {n} PROVE r.next[m] \in Nodes(r) \ {n}
      <3>1. r.next[m] \in Nodes(r) /\ r.prev[r.next[m]] = m
        BY <1>4
      <3> QED
        BY <2>1, <3>1
    <2>3. Closed(r.next, Nodes(r) \ {n})
      BY <1>2, <2>2 DEF Closed
    <2>4. Nodes(r) \ {n} = Nodes(r)
      BY <2>3 DEF Sound
    <2> QED
      BY <2>4
  <1>7. CASE p # s_list /\ p # n
    <2>1. p \in Nodes(r) /\ a.next[p] = n /\ a.next[s_list] = n
      BY <1>1, <1>2, <1>4, <1>7
    <2> QED
      BY <1>2, <1>4, <1>7, <2>1
  <1> QED
    BY <1>5, <1>6, <1>7

LEMMA LineStep ==
  ASSUME IInv, [Next]_vars, RingSound, RingSound',
         NEW i \in Inode, Linked(i), ring'.next[s_list] # i
  PROVE  /\ Behind(i)' \subseteq Behind(i)
         /\ Collect => Behind(i)' # Behind(i)
  <1>1. Sturdy(ring) /\ Sound(ring) /\ Calls /\ i \in Nodes(ring)
    BY Parts, SoundIs, Heads DEF Nodes, Linked
  <1>2. Behind(i) = BehindIn(ring, i) /\ Behind(i)' = BehindIn(ring', i)
    BY DEF Behind, BehindIn, Onward
  <1>3. ASSUME NEW n \in Inode, n \in Nodes(ring), ring' = ListMove(ring, n)
        PROVE  Behind(i)' \subseteq Behind(i) \ {n} /\ i # n
    <2>1. i # n
      <3>1. ListMove(ring, n).next[s_list] = n
        <4>1. PICK d : d = ListDel(ring, n)
          OBVIOUS
        <4>2. Sturdy(d)
          BY <1>1, <1>3, <4>1, DelSturdy
        <4>3. ListAdd(d, n).next[s_list] = n
          BY <4>2, Added, Heads
        <4> QED
          BY <4>1, <4>3 DEF ListMove
      <3> QED
        BY <1>3, <3>1
    <2> QED
      BY <1>1, <1>2, <1>3, <2>1, LineAfterMove
  <1>4. CASE Collect
    <2>1. PICK v : v = Victim(ring)
      OBVIOUS
    <2>2. s_list \in Nodes(ring) /\ v = ring.prev[s_list] /\ v \in Nodes(ring)
      BY <1>1, <2>1, Heads, SturdyLinks DEF Victim, Nodes, Sturdy
    <2>3. ring.next[v] = s_list /\ ring.next[s_list] # s_list /\ ring' = ListMove(ring, v)
      BY <1>1, <1>4, <2>1, <2>2 DEF Collect, Sound, Inverse
    <2>4. v \in Inode
      BY <2>2, <2>3 DEF Nodes, Node
    <2>5. Behind(i)' \subseteq Behind(i) \ {v} /\ i # v
      BY <1>3, <2>2, <2>3, <2>4
    <2>6. v \in Behind(i)
      BY <1>1, <1>2, <2>2, <2>4, <2>5, LastIsBehind
    <2> QED
      BY <2>5, <2>6
  <1>5. CASE ~Collect
    <2>1. ASSUME NEW t \in Thread, Insert(t) PROVE Behind(i)' \subseteq Behind(i)
      <3>1. node[t] \in Inode /\ ring' = ListAdd(ring, node[t])
        BY <1>1, <2>1 DEF Insert, Calls
      <3>2. node[t] \notin Nodes(ring)
        <4>1. Sound(ring)'
          BY SoundIs, PTL
        <4> QED
          BY <1>1, <3>1, <4>1, ReopenBreaks
      <3> QED
        BY <1>1, <1>2, <3>1, <3>2, LineAfterAdd
    <2>2. ASSUME NEW t \in Thread, Move(t) PROVE Behind(i)' \subseteq Behind(i)
      <3>1. node[t] \in Inode /\ node[t] \in Nodes(ring) /\ ring' = ListMove(ring, node[t])
        BY <1>1, <2>2 DEF Move, Calls
      <3> QED
        BY <1>3, <3>1
    <2>3. ASSUME ring' = ring PROVE Behind(i)' \subseteq Behind(i)
      BY <1>2, <2>3
    <2>4. (\E t \in Thread : Insert(t) \/ Move(t)) \/ ring' = ring
      BY <1>5 DEF Next, vars, LookUpAbsent, AllocInode, OpenExisting, LookUpUse
    <2> QED
      BY <1>5, <2>1, <2>2, <2>3, <2>4
  <1> QED
    BY <1>4, <1>5

(* However calls and collections mix, a file keeps its place in the line   *)
(* for the collector, or gains, until it comes to the front of the list;   *)
(* each collection takes one file from behind it.  With EveryFileServed,   *)
(* which rests on it, the wait is bounded by the files behind.             *)
THEOREM FilesKeepLine == Spec => ServedInLine
  <1>1. IInv /\ [Next]_vars =>
          [RingSound /\ RingSound' =>
             \A i \in Inode : Linked(i) /\ ring'.next[s_list] # i =>
               /\ Behind(i)' \subseteq Behind(i)
               /\ Collect => Behind(i)' # Behind(i)]_vars
    BY LineStep
  <1> QED
    BY <1>1, ListSafety, PTL DEF Spec, ServedInLine
-----------------------------------------------------------------------------
(* The cut and the mask keep a number a multiple of four.                  *)
LEMMA FoursKept ==
  ASSUME NEW n \in Nat
  PROVE  (((4 * n) % U32) % (HASHMAP_MASK + 1)) % 4 = 0
BY SMTT(30) DEF U32, HASHMAP_MASK

(* A multiple of four times any number is one.                             *)
LEMMA TimesFours ==
  ASSUME NEW a \in Nat, NEW b \in Nat
  PROVE  a * b \in Nat /\ a * (4 * b) = 4 * (a * b)
BY SMTT(10)

(* Every descriptor is a multiple of four that an s32 holds: the factor of *)
(* hashmap_hash_s32 is one.                                                *)
THEOREM DescriptorsAreFours ==
  ASSUME NEW key \in Nat
  PROVE  /\ Descriptor(key) \in Nat
         /\ Descriptor(key) <= S32Max
         /\ Descriptor(key) % 4 = 0
<1> DEFINE high == key \div 8
           quarter == 1591061781
<1>1. high \in Nat /\ quarter \in Nat
  BY SMTT(10)
<1>2. Factor = 4 * quarter
  BY SMTT(10) DEF Factor
<1> HIDE DEF high, quarter
<1>3. high * Factor = 4 * (high * quarter) /\ high * quarter \in Nat
  BY SMTT(10), <1>1, <1>2, TimesFours
<1>4. Descriptor(key) = ((4 * (high * quarter)) % U32) % (HASHMAP_MASK + 1)
  BY SMTT(10), <1>3 DEF Descriptor, high
<1> DEFINE n == high * quarter
<1> HIDE DEF n
<1>5. n \in Nat /\ Descriptor(key) = ((4 * n) % U32) % (HASHMAP_MASK + 1)
  BY <1>3, <1>4 DEF n
<1>6. Descriptor(key) % 4 = 0
  BY SMTT(10), <1>5, FoursKept
<1>7. Descriptor(key) \in Nat /\ Descriptor(key) <= S32Max
  BY SMTT(10), <1>5 DEF U32, HASHMAP_MASK, S32Max
<1> QED
  BY <1>6, <1>7

(* So no path has the descriptor that atfscreat and atfsopen return for an *)
(* error, and a caller that takes EEXIST for a descriptor finds no file.   *)
THEOREM NoPathHasAnErrorCode ==
  ASSUME NEW key \in Nat
  PROVE  Descriptor(key) \notin {EEXIST, INODE_FAILED}
BY SMTT(10), DescriptorsAreFours DEF EEXIST, INODE_FAILED
=============================================================================
