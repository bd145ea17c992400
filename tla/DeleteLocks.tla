---------------------------- MODULE DeleteLocks -----------------------------
(***************************************************************************)
(* workloadDeleteLocks, the reference-counted map of mutexes that          *)
(* serialises the DELETE requests of one process on one workload scope.    *)
(*                                                                         *)
(* The map lives under its own mutex l.mu, which is held only inside the   *)
(* straight-line sections modelled as one step here; the per-scope mutex   *)
(* entry.mu is taken after l.mu is released, so a goroutine can hold a     *)
(* pointer to an entry for a long time before it locks it.  Entries are    *)
(* heap objects: a free one (nobody points to it) stands for a fresh       *)
(* allocation, so the map may bind a scope to different entries over time. *)
(***************************************************************************)
EXTENDS Integers, FiniteSets

CONSTANTS
  Thread,     \* goroutines serving DELETE requests
  Key,        \* workload scopes (lockKey)
  Entry,      \* workloadDeleteLock objects the heap can hold
  NoThread,   \* entry.mu is free
  NoEntry,    \* the map has no entry for the scope
  NoKey       \* the goroutine serves no request

ASSUME FiniteThreads == IsFiniteSet(Thread)
ASSUME NullsAreNull == /\ NoThread \notin Thread
                       /\ NoEntry \notin Entry
                       /\ NoKey \notin Key

VARIABLES
  locks,    \* locks[k]: the map of l, NoEntry where the key is absent
  refs,     \* refs[e]: entry.refs
  owner,    \* owner[e]: the goroutine holding entry.mu
  pc,       \* idle, waiting (entry.mu.Lock), inside, leaving (l.mu.Lock)
  key,      \* the scope the goroutine locks
  entry     \* the goroutine's pointer to the entry

vars == <<locks, refs, owner, pc, key, entry>>

(* Every variable keeps its type; a reference count is never negative.     *)
TypeOK ==
  /\ locks \in [Key -> Entry \cup {NoEntry}]
  /\ refs \in [Entry -> Nat]
  /\ owner \in [Entry -> Thread \cup {NoThread}]
  /\ pc \in [Thread -> {"idle", "waiting", "inside", "leaving"}]
  /\ key \in [Thread -> Key \cup {NoKey}]
  /\ entry \in [Thread -> Entry \cup {NoEntry}]

Init ==
  /\ locks = [k \in Key |-> NoEntry]
  /\ refs = [e \in Entry |-> 0]
  /\ owner = [e \in Entry |-> NoThread]
  /\ pc = [t \in Thread |-> "idle"]
  /\ key = [t \in Thread |-> NoKey]
  /\ entry = [t \in Thread |-> NoEntry]

(***************************************************************************)
(* An object nobody can reach: neither the map nor a goroutine points to   *)
(* it, so &workloadDeleteLock{} may return it.                             *)
(***************************************************************************)
Free(e) == /\ \A k \in Key : locks[k] # e
           /\ \A t \in Thread : entry[t] # e

(* Mutant of Register: the reference is counted only on a new entry.       *)
Register_CountsFirst(t, k) ==
  /\ pc[t] = "idle"
  /\ \E e \in Entry :
       /\ IF locks[k] = NoEntry THEN Free(e) ELSE e = locks[k]
       /\ locks' = [locks EXCEPT ![k] = e]
       /\ refs' = [refs EXCEPT ![e] = IF locks[k] = NoEntry THEN 1 ELSE @]
       /\ owner' = [owner EXCEPT ![e] = IF locks[k] = NoEntry THEN NoThread ELSE @]
       /\ entry' = [entry EXCEPT ![t] = e]
  /\ key' = [key EXCEPT ![t] = k]
  /\ pc' = [pc EXCEPT ![t] = "waiting"]

(* lock: look up or allocate the scope's entry and count a reference, all  *)
(* under l.mu.                                                             *)
Register(t, k) ==
  /\ pc[t] = "idle"
  /\ \E e \in Entry :
       /\ IF locks[k] = NoEntry THEN Free(e) ELSE e = locks[k]
       /\ locks' = [locks EXCEPT ![k] = e]
       /\ refs' = [refs EXCEPT ![e] = (IF locks[k] = NoEntry THEN 0 ELSE @) + 1]
       /\ owner' = [owner EXCEPT ![e] = IF locks[k] = NoEntry THEN NoThread ELSE @]
       /\ entry' = [entry EXCEPT ![t] = e]
  /\ key' = [key EXCEPT ![t] = k]
  /\ pc' = [pc EXCEPT ![t] = "waiting"]

(* Mutant of Acquire: entry.mu is a mutex copied by value.                 *)
Acquire_OwnCopy(t) ==
  /\ pc[t] = "waiting"
  /\ owner' = [owner EXCEPT ![entry[t]] = t]
  /\ pc' = [pc EXCEPT ![t] = "inside"]
  /\ UNCHANGED <<locks, refs, key, entry>>

(* lock: entry.mu.Lock() returns.                                          *)
Acquire(t) ==
  /\ pc[t] = "waiting"
  /\ owner[entry[t]] = NoThread
  /\ owner' = [owner EXCEPT ![entry[t]] = t]
  /\ pc' = [pc EXCEPT ![t] = "inside"]
  /\ UNCHANGED <<locks, refs, key, entry>>

(* Mutant of Unlock: the closure only drops the reference.                 *)
Unlock_StaysLocked(t) ==
  /\ pc[t] = "inside"
  /\ pc' = [pc EXCEPT ![t] = "leaving"]
  /\ UNCHANGED <<locks, refs, owner, key, entry>>

(* The unlock closure: entry.mu.Unlock(), before l.mu is taken.            *)
Unlock(t) ==
  /\ pc[t] = "inside"
  /\ owner' = [owner EXCEPT ![entry[t]] = NoThread]
  /\ pc' = [pc EXCEPT ![t] = "leaving"]
  /\ UNCHANGED <<locks, refs, key, entry>>

(* Mutant of Unregister: the map entry goes with the first to leave.       *)
Unregister_DropsAlways(t) ==
  /\ pc[t] = "leaving"
  /\ refs' = [refs EXCEPT ![entry[t]] = @ - 1]
  /\ locks' = [locks EXCEPT ![key[t]] = NoEntry]
  /\ pc' = [pc EXCEPT ![t] = "idle"]
  /\ key' = [key EXCEPT ![t] = NoKey]
  /\ entry' = [entry EXCEPT ![t] = NoEntry]
  /\ UNCHANGED owner

(* Mutant of Unregister: an off-by-one in the test of the count.           *)
Unregister_DropsBelowZero(t) ==
  /\ pc[t] = "leaving"
  /\ refs' = [refs EXCEPT ![entry[t]] = @ - 1]
  /\ locks' = IF refs[entry[t]] = 0 THEN [locks EXCEPT ![key[t]] = NoEntry] ELSE locks
  /\ pc' = [pc EXCEPT ![t] = "idle"]
  /\ key' = [key EXCEPT ![t] = NoKey]
  /\ entry' = [entry EXCEPT ![t] = NoEntry]
  /\ UNCHANGED owner

(* The unlock closure under l.mu: drop the reference and, with the last    *)
(* one, the map's entry.                                                   *)
Unregister(t) ==
  /\ pc[t] = "leaving"
  /\ refs' = [refs EXCEPT ![entry[t]] = @ - 1]
  /\ locks' = IF refs[entry[t]] = 1 THEN [locks EXCEPT ![key[t]] = NoEntry] ELSE locks
  /\ pc' = [pc EXCEPT ![t] = "idle"]
  /\ key' = [key EXCEPT ![t] = NoKey]
  /\ entry' = [entry EXCEPT ![t] = NoEntry]
  /\ UNCHANGED owner

Next == \E t \in Thread : \/ \E k \in Key : Register(t, k)
                          \/ Acquire(t)
                          \/ Unlock(t)
                          \/ Unregister(t)

Spec == Init /\ [][Next]_vars

(***************************************************************************)
(* Fairness.  sync.Mutex hands a waiter the mutex after at most a bounded  *)
(* wait (starvation mode), which is strong fairness of Acquire; a DELETE   *)
(* handler runs its deferred unlock because every call it makes is bounded *)
(* by a timeout.  Nothing obliges a client to send another DELETE.         *)
(***************************************************************************)
Fairness == \A t \in Thread : /\ SF_vars(Acquire(t))
                              /\ WF_vars(Unlock(t))
                              /\ WF_vars(Unregister(t))

FairSpec == Spec /\ Fairness

-----------------------------------------------------------------------------
Busy(t) == pc[t] # "idle"

Users(e) == {t \in Thread : entry[t] = e}

(* Two DELETE requests of one process for the same workload are never both *)
(* past lock(): the section handleDeletePod runs in is exclusive per scope,*)
(* whatever entries the map has bound to the scope meanwhile.              *)
MutualExclusion ==
  \A t, u \in Thread : pc[t] = "inside" /\ pc[u] = "inside" /\ key[t] = key[u] => t = u

(* The map binds a scope to the entry its users point to, so a request     *)
(* that arrives late queues behind the ones already there instead of       *)
(* locking a fresh object.                                                 *)
NoOrphanEntry == \A t \in Thread : Busy(t) => locks[key[t]] = entry[t]

(* entry.refs counts the requests between lock() and the end of unlock().  *)
RefsCountUsers ==
  \A k \in Key : locks[k] # NoEntry =>
     /\ refs[locks[k]] = Cardinality(Users(locks[k]))
     /\ refs[locks[k]] > 0

(* The map does not grow with the workloads ever deleted: a scope is in    *)
(* the map only while a request for it is in flight.                       *)
NoLeak == \A k \in Key : locks[k] # NoEntry => \E t \in Thread : Busy(t) /\ key[t] = k

(* Every DELETE that asked for the lock gets into its section.             *)
EventuallyInside == \A t \in Thread : pc[t] = "waiting" ~> pc[t] = "inside"

-----------------------------------------------------------------------------
(* The lock the handler relies on: the holder of a scope is the goroutine  *)
(* that owns the entry the map has for it.                                 *)
holder == [k \in Key |-> IF \E t \in Thread : pc[t] = "inside" /\ key[t] = k
                         THEN CHOOSE t \in Thread : pc[t] = "inside" /\ key[t] = k
                         ELSE NoThread]

Abstract == INSTANCE KeyedMutex

(* The refcounted map of mutexes implements one mutex per scope.           *)
ImplementsKeyedMutex == Abstract!Spec
=============================================================================
