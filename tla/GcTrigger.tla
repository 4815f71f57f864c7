----------------------------- MODULE GcTrigger -----------------------------
(***************************************************************************)
(* What starts a collection: gc_task_thread of src/src/gc.c, and the two   *)
(* counters that atfsread, atfspread, atfswrite and atfspwrite add one to. *)
(* Nothing protects the counters: an increment is a load and a store, and  *)
(* the collector reads and resets them in between.  An unprotected load or *)
(* store of the collector may be repeated or moved by the compiler up to   *)
(* the next call, so that the two counters are taken in either order and   *)
(* a second use of one may be a second load.                               *)
(*                                                                         *)
(* g_list is the start of the free space and not the page list: its count  *)
(* is a word of the first page of data, and is what a file has put there.  *)
(***************************************************************************)
EXTENDS Integers, FiniteSets

CONSTANTS
  Thread,     \* the threads of the process that has the collector
  MaxCount    \* bound on the accesses of a kind between two resets

ASSUME TriggerAssumption == MaxCount \in Nat

Kind == {"write", "read"}
Word == {"scarce", "short", "ample"}   \* below READ_DOMINATION_THS,
                                       \* WRITE_DOMINATION_THS, or neither

VARIABLES
  times_cnt,  \* g_write_times_cnt and g_read_times_cnt
  word,       \* g_list->count
  pc,         \* where each thread is: "idle", or between the load and the store
  reg,        \* reg[t]: what t has loaded
  gc,         \* where the collector is
  todo,       \* the counters that it has still to go through there
  access,     \* access[k]: what went into access_times
  times,      \* write_times and read_times
  since,      \* since[k]: increments of a kind since its counter was reset
  raced,      \* raced[k]: what an increment has overlapped since then
  torn        \* whether a counter has changed since the collector woke up

counters == <<times_cnt, since, raced>>
threads == <<pc, reg>>
collector == <<gc, todo, access, times>>
vars == <<counters, word, threads, collector, torn>>

Nought == [k \in Kind |-> 0]

Init ==
  /\ times_cnt = Nought
  /\ word \in Word
  /\ pc = [t \in Thread |-> "idle"]
  /\ reg = [t \in Thread |-> 0]
  /\ gc = "sleep"
  /\ todo = {}
  /\ access = Nought
  /\ times = Nought
  /\ since = Nought
  /\ raced = [k \in Kind |-> {}]
  /\ torn = FALSE

-----------------------------------------------------------------------------
(* ++g_write_times_cnt and ++g_read_times_cnt.                             *)
LoadCount(t) ==
  /\ pc[t] = "idle"
  /\ \E k \in Kind :
       /\ since[k] < MaxCount /\ times_cnt[k] < MaxCount
       /\ pc' = [pc EXCEPT ![t] = k]
       /\ reg' = [reg EXCEPT ![t] = times_cnt[k]]
  /\ UNCHANGED <<counters, word, collector, torn>>

Pending(k) == {t \in Thread : pc[t] = k}

StoreCount(t) ==
  /\ pc[t] \in Kind
  /\ LET k == pc[t]
     IN  /\ times_cnt' = [times_cnt EXCEPT ![k] = reg[t] + 1]
         /\ since' = [since EXCEPT ![k] = @ + 1]
         /\ raced' = [raced EXCEPT ![k] = @ \cup IF Pending(k) # {t} THEN {"access"} ELSE {}]
  /\ pc' = [pc EXCEPT ![t] = "idle"]
  /\ reg' = [reg EXCEPT ![t] = 0]
  /\ torn' = TRUE
  /\ UNCHANGED <<word, collector>>

(* A write to the first page of data.                                      *)
FillFirstPage ==
  /\ word' \in Word \ {word}
  /\ UNCHANGED <<counters, threads, collector, torn>>

-----------------------------------------------------------------------------
(* gc_task_thread.                                                         *)
At(label) == gc = label /\ todo = {}

Begin(label) == gc' = label /\ todo' = Kind

WakeUp ==
  /\ At("sleep")
  /\ Begin("sum")
  /\ torn' = FALSE
  /\ UNCHANGED <<counters, word, threads, access, times>>

Sum(k) ==
  /\ gc = "sum" /\ k \in todo
  /\ access' = [access EXCEPT ![k] = times_cnt[k]]
  /\ IF todo = {k} THEN Begin("split") ELSE gc' = gc /\ todo' = todo \ {k}
  /\ UNCHANGED <<counters, word, threads, times, torn>>

Split(k) ==
  /\ gc = "split" /\ k \in todo
  /\ \E n \in {access[k], times_cnt[k]} : times' = [times EXCEPT ![k] = n]
  /\ IF todo = {k} THEN gc' = "decide" /\ todo' = {} ELSE gc' = gc /\ todo' = todo \ {k}
  /\ UNCHANGED <<counters, word, threads, access, torn>>

(* DOMINATION_RATE is 0.75; a smaller part of the pages has to be free for *)
(* reads to be worth a collection than for writes.                         *)
Scarce(k) == word \in IF k = "write" THEN {"scarce", "short"} ELSE {"scarce"}

MutantDominates(k, n, total) == 4 * n > 3 * total

Dominates(k, n, total) == 4 * n >= 3 * total

Total(c) == c["write"] + c["read"]

Triggered == \E k \in Kind : Dominates(k, times[k], Total(access)) /\ Scarce(k)

Forget == access' = Nought /\ times' = Nought

MutantDecideBreaks ==   \* leaves the loop when nothing has been accessed
  /\ At("decide")
  /\ IF Total(access) # 0 /\ Triggered THEN Begin("reset")
     ELSE gc' = (IF Total(access) = 0 THEN "over" ELSE "sleep") /\ todo' = todo
  /\ Forget
  /\ UNCHANGED <<counters, word, threads, torn>>

Decide ==
  /\ At("decide")
  /\ IF Total(access) # 0 /\ Triggered THEN Begin("reset") ELSE gc' = "sleep" /\ todo' = todo
  /\ Forget
  /\ UNCHANGED <<counters, word, threads, torn>>

MutantResetOne(k) ==
  /\ gc = "reset" /\ k \in todo
  /\ times_cnt' = [times_cnt EXCEPT ![k] = 0]
  /\ since' = [since EXCEPT ![k] = 0]
  /\ raced' = [raced EXCEPT ![k] = IF Pending(k) # {} THEN {"reset"} ELSE {}]
  /\ todo' = todo \ {k}
  /\ gc' = "collect"
  /\ UNCHANGED <<word, threads, access, times, torn>>

MutantResetForgetsReads(k) ==
  /\ gc = "reset" /\ k \in todo
  /\ times_cnt' = [times_cnt EXCEPT !["write"] = 0]
  /\ since' = [since EXCEPT ![k] = 0]
  /\ raced' = [raced EXCEPT ![k] = IF Pending(k) # {} THEN {"reset"} ELSE {}]
  /\ todo' = todo \ {k}
  /\ gc' = IF todo' = {} THEN "collect" ELSE gc
  /\ UNCHANGED <<word, threads, access, times, torn>>

Reset(k) ==
  /\ gc = "reset" /\ k \in todo
  /\ times_cnt' = [times_cnt EXCEPT ![k] = 0]
  /\ since' = [since EXCEPT ![k] = 0]
  /\ raced' = [raced EXCEPT ![k] = IF Pending(k) # {} THEN {"reset"} ELSE {}]
  /\ todo' = todo \ {k}
  /\ gc' = IF todo' = {} THEN "collect" ELSE gc
  /\ UNCHANGED <<word, threads, access, times, torn>>

Collect ==   \* start_gc_task
  /\ At("collect")
  /\ gc' = "sleep"
  /\ UNCHANGED <<counters, word, threads, todo, access, times, torn>>

GcTaskThread ==
  \/ WakeUp
  \/ \E k \in Kind : Sum(k) \/ Split(k) \/ Reset(k)
  \/ Decide
  \/ Collect

Next ==
  \/ \E t \in Thread : LoadCount(t) \/ StoreCount(t)
  \/ FillFirstPage
  \/ GcTaskThread

Spec == Init /\ [][Next]_vars /\ WF_vars(GcTaskThread)

-----------------------------------------------------------------------------
TypeOK ==
  /\ times_cnt \in [Kind -> Nat] /\ since \in [Kind -> Nat]
  /\ word \in Word
  /\ pc \in [Thread -> Kind \cup {"idle"}] /\ reg \in [Thread -> Nat]
  /\ gc \in {"sleep", "sum", "split", "decide", "reset", "collect"}
  /\ todo \subseteq Kind
  /\ gc \in {"sum", "split", "reset"} <=> todo # {}
  /\ access \in [Kind -> Nat] /\ times \in [Kind -> Nat]
  /\ raced \in [Kind -> SUBSET {"access", "reset"}]
  /\ torn \in BOOLEAN

(* A counter is exact unless an increment has overlapped another one or a  *)
(* reset, falls behind if it was another increment, and can be ahead of    *)
(* the accesses only if it was a reset, which the store then undoes.       *)
CountsDriftOnlyByRace ==
  \A k \in Kind :
    /\ raced[k] = {} => times_cnt[k] = since[k]
    /\ "reset" \notin raced[k] => times_cnt[k] <= since[k]

(* The rest of the inductive invariant.  What a thread between its load    *)
(* and its store will write is still the counter if nothing has raced, and *)
(* at most the accesses if no reset has.  What the collector has taken so  *)
(* far is still the counter if no access has come in since it woke up.     *)
LoadsFresh ==
  \A t \in Thread : \A k \in {pc[t]} \cap Kind :
    /\ raced[k] = {} => reg[t] = times_cnt[k]
    /\ "reset" \notin raced[k] => reg[t] <= since[k]

SnapshotFresh ==
  ~torn =>
    /\ gc = "sum" => \A k \in Kind \ todo : access[k] = times_cnt[k]
    /\ gc \in {"split", "decide"} => access = times_cnt
    /\ gc \in {"split", "decide"} => \A k \in Kind \ todo : times[k] = times_cnt[k]

IInv ==
  /\ TypeOK
  /\ CountsDriftOnlyByRace
  /\ LoadsFresh
  /\ SnapshotFresh

(* A collection is due when one kind of access dominates and the word is   *)
(* below the threshold for it.                                             *)
Due == \E k \in Kind : 4 * times_cnt[k] >= 3 * Total(times_cnt) /\ times_cnt[k] > 0 /\ Scarce(k)

(* The collector decides by counters that it has taken at different times, *)
(* some of them twice; it decides rightly if no access has come in since.  *)
DecidesRightly == [][At("decide") /\ gc' # gc /\ ~torn => (gc' = "reset" <=> Due)]_vars

(* Once it is due a collection comes, or is not due any more, when no more *)
(* than MaxCount accesses come between two resets: increments that undo a  *)
(* reset, or that come while the collector looks, only delay it.           *)
NeverIgnored == Due ~> (gc = "collect" \/ ~Due)
=============================================================================
