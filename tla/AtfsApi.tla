------------------------------ MODULE AtfsApi ------------------------------
(***************************************************************************)
(* The list of inodes that the calls of src/src/atfsrw.c keep, by last     *)
(* use, and from whose end the collector (src/src/gc.c) takes its victim;  *)
(* and the look-up of a file by its descriptor, the hash of its name.      *)
(*                                                                         *)
(* The list is the ring of src/include/list.h, whose operations assign     *)
(* next and prev one by one and trust their arguments.  Every access to it *)
(* and to the look-up tree is a critical section of sb->mutex, and a step  *)
(* here.  A call looks the file up in one of them and works on the list in *)
(* a second one.  What a call then does under the mutex of the inode is in *)
(* FileData and FileLog.  Two names with the same hash are one file.       *)
(***************************************************************************)

CONSTANTS
  Thread,   \* the threads that call the API
  Fd,       \* the hashes of the names they use
  Inode,    \* the inodes of the table (a bound)
  s_list,   \* the list_head in the superblock
  Null      \* NULL, OFFSET_NULL

ASSUME ApiAssumption == s_list \notin Inode /\ Null \notin Inode \cup {s_list}

Node == Inode \cup {s_list}

VARIABLES
  ring,     \* ring.next and ring.prev: the list_heads
  inodeOf,  \* inodeOf[d]: the look-up tree
  fd,       \* fd[i]: atfs_inode.fd, Null for an inode nobody has allocated
  pc,       \* where each thread is
  arg,      \* arg[t]: the descriptor that t's call works on
  node      \* node[t]: the inode that t's call has found or allocated

vars == <<ring, inodeOf, fd, pc, arg, node>>

Init ==
  /\ ring = [next |-> [n \in Node |-> IF n = s_list THEN s_list ELSE Null],
             prev |-> [n \in Node |-> IF n = s_list THEN s_list ELSE Null]]
  /\ inodeOf = [d \in Fd |-> Null]
  /\ fd = [i \in Inode |-> Null]
  /\ pc = [t \in Thread |-> "idle"]
  /\ arg = [t \in Thread |-> Null]
  /\ node = [t \in Thread |-> Null]

-----------------------------------------------------------------------------
(* __list_add between s_list and its successor, and __list_del, assignment *)
(* by assignment: a later one overrides an earlier one.                    *)
MutantListAddOneWay(r, n) ==   \* the old first inode is not told
  LET first == r.next[s_list]
  IN  [next |-> [r.next EXCEPT ![n] = first, ![s_list] = n],
       prev |-> [r.prev EXCEPT ![n] = s_list]]

ListAdd(r, n) ==
  LET first == r.next[s_list]
  IN  [next |-> [r.next EXCEPT ![n] = first, ![s_list] = n],
       prev |-> [r.prev EXCEPT ![first] = n, ![n] = s_list]]

ListDel(r, n) ==
  [next |-> [r.next EXCEPT ![r.prev[n]] = r.next[n]],
   prev |-> [r.prev EXCEPT ![r.next[n]] = r.prev[n]]]

ListMove(r, n) == ListAdd(ListDel(r, n), n)

Linked(i) == ring.next[i] # Null

-----------------------------------------------------------------------------
Goto(t, label) == pc' = [pc EXCEPT ![t] = label]

(* atfscreat, or atfsopen with O_CREAT, of a file that is not there.  (Of  *)
(* a file that is there, atfscreat changes nothing; and neither does       *)
(* atfsopen without O_CREAT, whether the file is there or not.)            *)
LookUpAbsent(t) ==
  /\ pc[t] = "idle"
  /\ \E d \in Fd : inodeOf[d] = Null /\ arg' = [arg EXCEPT ![t] = d]
  /\ Goto(t, "alloc")
  /\ UNCHANGED <<ring, inodeOf, fd, node>>

(* alloc_atfs_inode, and the descriptor, outside of any mutex of the API.  *)
MutantAllocInodePublishes(t) ==   \* sets the look-up tree at once
  /\ pc[t] = "alloc"
  /\ \E i \in Inode :
       /\ fd[i] = Null
       /\ fd' = [fd EXCEPT ![i] = arg[t]]
       /\ node' = [node EXCEPT ![t] = i]
       /\ inodeOf' = [inodeOf EXCEPT ![arg[t]] = i]
  /\ Goto(t, "insert")
  /\ UNCHANGED <<ring, arg>>

AllocInode(t) ==
  /\ pc[t] = "alloc"
  /\ \E i \in Inode :
       /\ fd[i] = Null
       /\ fd' = [fd EXCEPT ![i] = arg[t]]
       /\ node' = [node EXCEPT ![t] = i]
  /\ Goto(t, "insert")
  /\ UNCHANGED <<ring, inodeOf, arg>>

(* atfsopen with O_CREAT of a file that is there.                          *)
OpenExisting(t) ==
  /\ pc[t] = "idle"
  /\ \E d \in Fd :
       /\ inodeOf[d] # Null
       /\ arg' = [arg EXCEPT ![t] = d]
       /\ node' = [node EXCEPT ![t] = inodeOf[d]]
       /\ fd' = [fd EXCEPT ![inodeOf[d]] = d]
  /\ Goto(t, "insert")
  /\ UNCHANGED <<ring, inodeOf>>

(* The second critical section of either: the descriptor is set in the     *)
(* look-up tree and the inode is added to the list.                        *)
Insert(t) ==
  /\ pc[t] = "insert"
  /\ inodeOf' = [inodeOf EXCEPT ![arg[t]] = node[t]]
  /\ ring' = ListAdd(ring, node[t])
  /\ Goto(t, "idle")
  /\ arg' = [arg EXCEPT ![t] = Null]
  /\ node' = [node EXCEPT ![t] = Null]
  /\ UNCHANGED fd

(* atfsread, atfswrite, atfspread and atfspwrite: the look-up, and the     *)
(* move of the inode to the front of the list.                             *)
LookUpUse(t) ==
  /\ pc[t] = "idle"
  /\ \E d \in Fd : inodeOf[d] # Null /\ node' = [node EXCEPT ![t] = inodeOf[d]]
  /\ Goto(t, "move")
  /\ UNCHANGED <<ring, inodeOf, fd, arg>>

MutantMoveToTail(t) ==   \* list_move_tail
  /\ pc[t] = "move"
  /\ LET r == ListDel(ring, node[t])
         last == r.prev[s_list]
     IN  ring' = [next |-> [r.next EXCEPT ![node[t]] = s_list, ![last] = node[t]],
                  prev |-> [r.prev EXCEPT ![s_list] = node[t], ![node[t]] = last]]
  /\ Goto(t, "idle")
  /\ node' = [node EXCEPT ![t] = Null]
  /\ UNCHANGED <<inodeOf, fd, arg>>

Move(t) ==
  /\ pc[t] = "move"
  /\ ring' = ListMove(ring, node[t])
  /\ Goto(t, "idle")
  /\ node' = [node EXCEPT ![t] = Null]
  /\ UNCHANGED <<inodeOf, fd, arg>>

(* start_gc_task: the inode at the end of the list is moved to its front,  *)
(* and its log collected.                                                  *)
Victim(r) == r.prev[s_list]

Collect ==
  /\ ring.next[s_list] # s_list
  /\ ring' = ListMove(ring, Victim(ring))
  /\ UNCHANGED <<inodeOf, fd, pc, arg, node>>

Next ==
  \/ \E t \in Thread : \/ LookUpAbsent(t) \/ AllocInode(t) \/ OpenExisting(t)
                       \/ Insert(t) \/ LookUpUse(t) \/ Move(t)
  \/ Collect

Spec == Init /\ [][Next]_vars

-----------------------------------------------------------------------------
(* Types.                                                                  *)
TypeOK ==
  /\ ring \in [next : [Node -> Node \cup {Null}], prev : [Node -> Node \cup {Null}]]
  /\ inodeOf \in [Fd -> Inode \cup {Null}]
  /\ fd \in [Inode -> Fd \cup {Null}]
  /\ pc \in [Thread -> {"idle", "alloc", "insert", "move"}]
  /\ arg \in [Thread -> Fd \cup {Null}]
  /\ node \in [Thread -> Inode \cup {Null}]

(* The list never leads to NULL, broken or not: the inode that a call has  *)
(* found is in it, and so are its neighbours, which list_move follows.     *)
NeighboursLinked ==
  /\ Linked(s_list)
  /\ \A n \in Node : Linked(n) =>
       /\ ring.next[n] # Null /\ Linked(ring.next[n])
       /\ ring.prev[n] # Null /\ Linked(ring.prev[n])

CallsHold ==
  /\ \A d \in Fd : inodeOf[d] # Null => Linked(inodeOf[d])
  /\ \A t \in Thread :
       /\ pc[t] \in {"alloc", "insert"} => arg[t] \in Fd
       /\ pc[t] \in {"insert", "move"} => node[t] \in Inode
       /\ pc[t] = "move" => Linked(node[t])

IInv == TypeOK /\ NeighboursLinked /\ CallsHold

(* The list is a ring, the same in both directions, that holds exactly the *)
(* inodes that have been inserted: the links lead from its head to each of *)
(* them, since no smaller set is closed under the links.                   *)
Closed(link, S) == s_list \in S /\ \A n \in S : link[n] \in S

RingSound ==
  LET nodes == {n \in Node : Linked(n)}
  IN  /\ Closed(ring.next, nodes)
      /\ \A S \in SUBSET nodes : Closed(ring.next, S) => S = nodes
      /\ \A n \in nodes : ring.prev[ring.next[n]] = n /\ ring.next[ring.prev[n]] = n

(* Only one thing breaks the ring, whatever the threads and the collector  *)
(* do in between: atfsopen with O_CREAT of a file that is there, which     *)
(* adds a linked inode once more.                                          *)
RingBreaksOnlyByReopen ==
  [][RingSound /\ ~RingSound' => \E t \in Thread : pc[t] = "insert" /\ Linked(node[t])]_vars

(* The files wait in line for the collector: however calls and collections *)
(* mix, no file gets behind another one, which is nearer to the end of the *)
(* list, but by coming to the front itself; and every collection takes one *)
(* of those behind a file away, or the file.  So a file that is not used   *)
(* is collected after as many collections as there are files behind it.    *)
Behind(i) ==
  {j \in Inode : \A S \in SUBSET Node :
     ring.next[i] \in S /\ (\A n \in S \ {s_list} : ring.next[n] \in S) => j \in S}

ServedInLine ==
  [][RingSound /\ RingSound' =>
       \A i \in Inode : Linked(i) /\ ring'.next[s_list] # i =>
         /\ Behind(i)' \subseteq Behind(i)
         /\ Collect => Behind(i)' # Behind(i)]_vars

(* While the ring is sound and the collector keeps being triggered, every  *)
(* file comes to the front again and again: either it is used, or its log  *)
(* is collected.  Files in use do not keep it from the others.             *)
EveryFileServed ==
  []RingSound /\ []<><<Collect>>_vars =>
    \A i \in Inode : [](Linked(i) => <>(ring.next[s_list] = i))

(* What a line of atfsrw.c says and the code does not do: atfscreat finds  *)
(* a file that exists (atfsrw.c:52), so a descriptor never has two inodes. *)
OneInodePerFd ==
  \A i, j \in Inode : Linked(i) /\ Linked(j) /\ fd[i] = fd[j] => i = j
=============================================================================
