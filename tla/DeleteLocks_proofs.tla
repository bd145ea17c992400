------------------------- MODULE DeleteLocks_proofs -------------------------
(***************************************************************************)
(* For any number of requests, scopes and heap objects: the lock map of    *)
(* handleDeletePod gives mutual exclusion per workload scope, counts its   *)
(* references exactly, never leaks an entry, and implements KeyedMutex.    *)
(***************************************************************************)
EXTENDS DeleteLocks, FiniteSetTheorems, TLAPS

(* A busy goroutine has a scope and an entry; an idle one points nowhere.  *)
Pointing == \A t \in Thread : IF Busy(t) THEN key[t] \in Key /\ entry[t] \in Entry
                                         ELSE entry[t] = NoEntry

(* Two scopes never share an entry.                                        *)
NotShared == \A k, l \in Key : locks[k] # NoEntry /\ locks[k] = locks[l] => k = l

(* Whoever is inside owns the mutex of its entry.                          *)
InsideOwns == \A t \in Thread : pc[t] = "inside" => owner[entry[t]] = t

(* The inductive invariant.  NoOrphanEntry is what excludes two entries    *)
(* for one scope; to survive the removal of an entry it needs the exact    *)
(* reference count, and the count needs Pointing and NotShared to say      *)
(* which scope an entry's users belong to.                                 *)
IInv == /\ TypeOK
        /\ Pointing
        /\ NoOrphanEntry
        /\ NotShared
        /\ RefsCountUsers
        /\ InsideOwns

LEMMA UsersFinite == ASSUME NEW e PROVE IsFiniteSet(Users(e)) /\ Cardinality(Users(e)) \in Nat
  <1>1. IsFiniteSet(Users(e))
    BY FiniteThreads, FS_Subset DEF Users
  <1>2. QED
    BY <1>1, FS_CardinalityType

(* Initially nothing is locked or registered.                              *)
LEMMA InitInv == Init => IInv
  BY NullsAreNull DEF Init, IInv, TypeOK, Pointing, NoOrphanEntry, NotShared, RefsCountUsers,
     InsideOwns, Busy

(* Registering keeps the invariant: the new user is counted on the entry   *)
(* it found, or is the only user of the one it allocated.                  *)
LEMMA RegisterInv == ASSUME IInv, NEW t \in Thread, NEW k \in Key, Register(t, k) PROVE IInv'
  <1> USE NullsAreNull
  <1>1. PICK e \in Entry :
          /\ IF locks[k] = NoEntry THEN Free(e) ELSE e = locks[k]
          /\ locks' = [locks EXCEPT ![k] = e]
          /\ refs' = [refs EXCEPT ![e] = (IF locks[k] = NoEntry THEN 0 ELSE @) + 1]
          /\ owner' = [owner EXCEPT ![e] = IF locks[k] = NoEntry THEN NoThread ELSE @]
          /\ entry' = [entry EXCEPT ![t] = e]
          /\ key' = [key EXCEPT ![t] = k]
          /\ pc' = [pc EXCEPT ![t] = "waiting"]
          /\ pc[t] = "idle"
    BY DEF Register
  <1>2. TypeOK'
    BY <1>1 DEF IInv, TypeOK
  <1>3. Pointing'
    BY <1>1 DEF IInv, TypeOK, Pointing, Busy
  <1>4. NoOrphanEntry'
    BY <1>1 DEF IInv, TypeOK, Pointing, NoOrphanEntry, Busy, Free
  <1>5. NotShared'
    BY <1>1 DEF IInv, TypeOK, NotShared, Free
  <1>6. RefsCountUsers'
    <2> SUFFICES ASSUME NEW l \in Key, NEW m, m = locks'[l], m # NoEntry
                 PROVE  refs'[m] = Cardinality(Users(m)') /\ refs'[m] > 0
      BY DEF RefsCountUsers, Users
    <2>1. CASE l = k
      <3>1. Users(e)' = Users(e) \cup {t} /\ t \notin Users(e)
        BY <1>1 DEF IInv, TypeOK, Pointing, Busy, Users
      <3>2. Cardinality(Users(e)') = Cardinality(Users(e)) + 1
        BY <3>1, UsersFinite, FS_AddElement
      <3>3. m = e /\ refs'[e] = (IF locks[k] = NoEntry THEN 0 ELSE refs[e]) + 1
        BY <1>1, <2>1 DEF IInv, TypeOK
      <3>4. CASE locks[k] = NoEntry
        <4>1. Users(e) = {}
          BY <1>1, <3>4 DEF Free, Users
        <4>2. QED
          BY <3>2, <3>3, <3>4, <4>1, FS_EmptySet
      <3>5. CASE locks[k] # NoEntry
        <4>1. refs[e] = Cardinality(Users(e)) /\ refs[e] > 0 /\ refs[e] \in Int
          BY <1>1, <3>5 DEF IInv, TypeOK, RefsCountUsers
        <4>2. QED
          BY <3>2, <3>3, <3>5, <4>1
      <3>6. QED
        BY <3>4, <3>5
    <2>2. CASE l # k
      <3>1. m = locks[l] /\ m # e /\ m \in Entry
        BY <1>1, <2>2 DEF IInv, TypeOK, NotShared, Free
      <3>2. Users(m)' = Users(m)
        BY <1>1, <3>1 DEF IInv, TypeOK, Pointing, Busy, Users
      <3>3. refs'[m] = refs[m]
        BY <1>1, <3>1 DEF IInv, TypeOK
      <3>4. QED
        BY <3>1, <3>2, <3>3 DEF IInv, RefsCountUsers
    <2>3. QED
      BY <2>1, <2>2
  <1>7. InsideOwns'
    BY <1>1 DEF IInv, TypeOK, Pointing, NoOrphanEntry, InsideOwns, Busy, Free
  <1>8. QED
    BY <1>2, <1>3, <1>4, <1>5, <1>6, <1>7 DEF IInv

(* Locking and unlocking entry.mu move no pointer.                         *)
LEMMA AcquireUnlockInv ==
  ASSUME IInv, NEW t \in Thread, Acquire(t) \/ Unlock(t)
  PROVE  IInv'
  <1> USE NullsAreNull
  <1>0. /\ Busy(t) /\ UNCHANGED <<locks, refs, key, entry>>
        /\ \A e : Users(e)' = Users(e)
        /\ \A u \in Thread : Busy(u)' = Busy(u)
    BY DEF IInv, TypeOK, Acquire, Unlock, Busy, Users
  <1>1. TypeOK'
    BY DEF IInv, TypeOK, Acquire, Unlock
  <1>2. Pointing' /\ NoOrphanEntry' /\ NotShared' /\ RefsCountUsers'
    BY <1>0 DEF IInv, Pointing, NoOrphanEntry, NotShared, RefsCountUsers
  <1>3. InsideOwns'
    <2> SUFFICES ASSUME NEW u \in Thread, pc'[u] = "inside" PROVE owner'[entry'[u]] = u
      BY DEF InsideOwns
    <2>1. CASE Acquire(t)
      BY <2>1, <1>0 DEF IInv, TypeOK, Pointing, InsideOwns, Acquire, Busy
    <2>2. CASE Unlock(t)
      BY <2>2, <1>0 DEF IInv, TypeOK, Pointing, InsideOwns, Unlock, Busy
    <2>3. QED
      BY <2>1, <2>2
  <1>4. QED
    BY <1>1, <1>2, <1>3 DEF IInv

(* Dropping a reference: the entry leaves the map exactly when the         *)
(* departing goroutine was its only user, so nobody is orphaned.           *)
LEMMA UnregisterInv == ASSUME IInv, NEW t \in Thread, Unregister(t) PROVE IInv'
  <1> USE NullsAreNull
  <1>0. PICK k \in Key, e \in Entry :
          k = key[t] /\ e = entry[t] /\ locks[k] = e /\ Busy(t)
    BY DEF IInv, Pointing, NoOrphanEntry, Unregister, Busy
  <1>1. TypeOK'
    <2>1. refs[e] > 0 /\ e \in Entry
      BY <1>0 DEF IInv, TypeOK, RefsCountUsers, Pointing
    <2>2. refs[e] - 1 \in Nat
      BY <2>1 DEF IInv, TypeOK
    <2>3. refs' \in [Entry -> Nat]
      BY <1>0, <2>2 DEF IInv, TypeOK, Unregister
    <2>4. locks' \in [Key -> Entry \cup {NoEntry}]
      BY DEF IInv, TypeOK, Unregister
    <2>5. QED
      BY <2>3, <2>4 DEF IInv, TypeOK, Unregister
  <1>2. Pointing'
    BY DEF IInv, TypeOK, Pointing, Unregister, Busy
  <1>3. refs[e] = Cardinality(Users(e)) /\ t \in Users(e)
    BY <1>0 DEF IInv, RefsCountUsers, Users
  <1>4. /\ Users(e)' = Users(e) \ {t}
        /\ Cardinality(Users(e)') = refs[e] - 1
        /\ Cardinality(Users(e)') \in Nat
    <2>1. Users(e)' = Users(e) \ {t}
      BY <1>0 DEF IInv, TypeOK, Unregister, Users
    <2>2. QED
      BY <2>1, <1>3, UsersFinite, FS_RemoveElement, FS_CardinalityType
  <1>5. refs[e] = 1 => \A u \in Thread : entry[u] = e => u = t
    <2> SUFFICES ASSUME refs[e] = 1, NEW u \in Thread, entry[u] = e, u # t PROVE FALSE
      OBVIOUS
    <2>1. Cardinality(Users(e) \ {t}) = 0 /\ IsFiniteSet(Users(e) \ {t})
      BY <1>4, UsersFinite, FS_Subset
    <2>2. Users(e) \ {t} = {}
      BY <2>1, FS_EmptySet
    <2>3. QED
      BY <2>2 DEF Users
  <1>6. NoOrphanEntry'
    BY <1>0, <1>5 DEF IInv, TypeOK, Pointing, NoOrphanEntry, Unregister, Busy
  <1>7. NotShared'
    BY <1>0 DEF IInv, TypeOK, NotShared, Unregister
  <1>8. RefsCountUsers'
    <2> SUFFICES ASSUME NEW l \in Key, NEW m, m = locks'[l], m # NoEntry
                 PROVE  refs'[m] = Cardinality(Users(m)') /\ refs'[m] > 0
      BY DEF RefsCountUsers, Users
    <2>1. CASE l = k
      <3>1. refs[e] # 1 /\ m = e
        BY <1>0, <2>1 DEF IInv, TypeOK, Unregister
      <3>2. refs'[e] = refs[e] - 1 /\ refs[e] > 0 /\ refs[e] \in Int
        BY <1>0 DEF IInv, TypeOK, RefsCountUsers, Unregister
      <3>3. QED
        BY <1>4, <3>1, <3>2
    <2>2. CASE l # k
      <3>1. m = locks[l] /\ m # e /\ m \in Entry
        BY <1>0, <2>2 DEF IInv, TypeOK, NotShared, Unregister
      <3>2. Users(m)' = Users(m)
        BY <1>0, <3>1 DEF IInv, TypeOK, Unregister, Users
      <3>3. refs'[m] = refs[m]
        BY <1>0, <3>1 DEF IInv, TypeOK, Unregister
      <3>4. QED
        BY <3>1, <3>2, <3>3 DEF IInv, RefsCountUsers
    <2>3. QED
      BY <2>1, <2>2
  <1>9. InsideOwns'
    BY <1>0 DEF IInv, TypeOK, InsideOwns, Unregister
  <1>10. QED
    BY <1>1, <1>2, <1>6, <1>7, <1>8, <1>9 DEF IInv

LEMMA NextInv == IInv /\ [Next]_vars => IInv'
  <1> SUFFICES ASSUME IInv, [Next]_vars PROVE IInv'
    OBVIOUS
  <1>1. ASSUME NEW t \in Thread, NEW k \in Key, Register(t, k) PROVE IInv'
    BY <1>1, RegisterInv
  <1>2. ASSUME NEW t \in Thread, Acquire(t) \/ Unlock(t) PROVE IInv'
    BY <1>2, AcquireUnlockInv
  <1>3. ASSUME NEW t \in Thread, Unregister(t) PROVE IInv'
    BY <1>3, UnregisterInv
  <1>4. CASE UNCHANGED vars
    BY <1>4 DEF vars, IInv, TypeOK, Pointing, NoOrphanEntry, NotShared, RefsCountUsers,
       InsideOwns, Busy, Users
  <1>5. QED
    BY <1>1, <1>2, <1>3, <1>4 DEF Next

LEMMA Invariance == Spec => []IInv
  BY InitInv, NextInv, PTL DEF Spec

-----------------------------------------------------------------------------
(* Two users of one scope point to one entry, and only its owner is inside.*)
LEMMA InvMutex == IInv => MutualExclusion
  BY DEF IInv, NoOrphanEntry, InsideOwns, MutualExclusion, Busy

(* An entry in the map has a positive count, hence a user, and its users   *)
(* are requests for that scope.                                            *)
LEMMA InvNoLeak == IInv => NoLeak
  <1> SUFFICES ASSUME IInv, NEW k \in Key, locks[k] # NoEntry
               PROVE  \E t \in Thread : Busy(t) /\ key[t] = k
    BY DEF NoLeak
  <1>1. Users(locks[k]) # {}
    BY FS_EmptySet DEF IInv, RefsCountUsers
  <1>2. PICK t \in Thread : entry[t] = locks[k]
    BY <1>1 DEF Users
  <1>3. Busy(t) /\ key[t] \in Key /\ locks[key[t]] = entry[t]
    BY <1>2, NullsAreNull DEF IInv, Pointing, NoOrphanEntry
  <1>4. QED
    BY <1>2, <1>3 DEF IInv, NotShared

(* Requests of one process for one workload never run the delete section   *)
(* together, however many there are.                                       *)
THEOREM DeleteSerialized == Spec => []MutualExclusion
  BY Invariance, InvMutex, PTL

(* Every variable of the lock map keeps its type.                          *)
THEOREM TypeCorrect == Spec => []TypeOK
  <1>1. IInv => TypeOK
    BY DEF IInv
  <1>2. QED
    BY <1>1, Invariance, PTL

(* A request that is queued, inside or leaving uses the entry the map has  *)
(* for its scope.                                                          *)
THEOREM NoOrphans == Spec => []NoOrphanEntry
  <1>1. IInv => NoOrphanEntry
    BY DEF IInv
  <1>2. QED
    BY <1>1, Invariance, PTL

(* refs is the number of requests between lock() and unlock().             *)
THEOREM ReferenceCount == Spec => []RefsCountUsers
  <1>1. IInv => RefsCountUsers
    BY DEF IInv
  <1>2. QED
    BY <1>1, Invariance, PTL

(* The map holds no entry without a request in flight.                     *)
THEOREM NoEntryLeak == Spec => []NoLeak
  BY Invariance, InvNoLeak, PTL

-----------------------------------------------------------------------------
(* The lock map implements one mutex per scope, whose holder is the        *)
(* goroutine inside for it.                                                *)
InsideFor(t, k) == pc[t] = "inside" /\ key[t] = k

LEMMA HolderIsFunction ==
  /\ holder = [k \in Key |-> holder[k]]
  /\ holder' = [k \in Key |-> holder'[k]]
  BY DEF holder

(* A scope's holder changes only with who is inside for it.                *)
LEMMA HolderStays ==
  ASSUME NEW l \in Key, \A u \in Thread : InsideFor(u, l)' <=> InsideFor(u, l)
  PROVE  holder'[l] = holder[l]
  BY DEF holder, InsideFor

(* Nobody inside for a scope means nobody holds it, and whoever is inside  *)
(* is its holder.                                                          *)
LEMMA HolderIsInside ==
  ASSUME IInv, NEW k \in Key
  PROVE  /\ (\A u \in Thread : ~InsideFor(u, k)) => holder[k] = NoThread
         /\ \A t \in Thread : InsideFor(t, k) => holder[k] = t
  BY InvMutex DEF holder, InsideFor, MutualExclusion

(* Registering with an entry and unregistering from it are invisible.      *)
LEMMA BookkeepingIsInvisible ==
  ASSUME IInv, NEW t \in Thread, Unregister(t) \/ \E k \in Key : Register(t, k)
  PROVE  UNCHANGED holder
  <1>1. \A u \in Thread, l \in Key : InsideFor(u, l)' <=> InsideFor(u, l)
    BY DEF IInv, TypeOK, InsideFor, Register, Unregister
  <1>2. \A l \in Key : holder'[l] = holder[l]
    BY <1>1, HolderStays
  <1>3. QED
    BY <1>2, HolderIsFunction

(* Acquire enters the section of the goroutine's scope, which nobody is in *)
(* since its entry is the only one of that scope.                          *)
LEMMA AcquireEnters ==
  ASSUME IInv, NEW t \in Thread, Acquire(t)
  PROVE  \E k \in Key : Abstract!Enter(t, k)
  <1> USE NullsAreNull
  <1>1. PICK k \in Key : k = key[t] /\ locks[k] = entry[t] /\ entry[t] \in Entry
    BY DEF IInv, Pointing, NoOrphanEntry, Acquire, Busy
  <1>2. \A u \in Thread : ~InsideFor(u, k)
    BY <1>1 DEF IInv, NoOrphanEntry, InsideOwns, Acquire, Busy, InsideFor
  <1>3. /\ InsideFor(t, k)'
        /\ \A u \in Thread \ {t}, l \in Key : InsideFor(u, l)' <=> InsideFor(u, l)
    BY <1>1 DEF IInv, TypeOK, Acquire, InsideFor
  <1>4. \A l \in Key : l # k => ~InsideFor(t, l)' /\ ~InsideFor(t, l)
    BY <1>1 DEF IInv, TypeOK, Acquire, InsideFor
  <1>5. holder'[k] = t
    <2>1. \A u \in Thread : (pc'[u] = "inside" /\ key'[u] = k) <=> u = t
      BY <1>2, <1>3 DEF InsideFor
    <2>2. QED
      BY <2>1 DEF holder
  <1>6. \A l \in Key : l # k => holder'[l] = holder[l]
    BY <1>3, <1>4, HolderStays
  <1>7. holder[k] = NoThread
    BY <1>2, HolderIsInside
  <1>8. Abstract!Enter(t, k)
    BY <1>5, <1>6, <1>7, HolderIsFunction DEF Abstract!Enter
  <1>9. QED
    BY <1>8

(* Unlock leaves that section.                                             *)
LEMMA UnlockLeaves ==
  ASSUME IInv, NEW t \in Thread, Unlock(t)
  PROVE  \E k \in Key : Abstract!Leave(t, k)
  <1> USE NullsAreNull
  <1>1. PICK k \in Key : k = key[t] /\ InsideFor(t, k)
    BY DEF IInv, Pointing, Unlock, Busy, InsideFor
  <1>2. \A u \in Thread : InsideFor(u, k) => u = t
    BY <1>1, InvMutex DEF MutualExclusion, InsideFor
  <1>3. \A u \in Thread, l \in Key : InsideFor(u, l)' <=> u # t /\ InsideFor(u, l)
    BY DEF IInv, TypeOK, Unlock, InsideFor
  <1>4. holder'[k] = NoThread
    <2>1. \A u \in Thread : ~(pc'[u] = "inside" /\ key'[u] = k)
      BY <1>2, <1>3 DEF InsideFor
    <2>2. QED
      BY <2>1 DEF holder
  <1>5. \A l \in Key : l # k => holder'[l] = holder[l]
    <2>1. \A l \in Key : l # k => ~InsideFor(t, l)
      BY <1>1 DEF InsideFor
    <2>2. QED
      BY <1>3, <2>1, HolderStays
  <1>6. holder[k] = t
    BY <1>1, HolderIsInside
  <1>7. Abstract!Leave(t, k)
    BY <1>4, <1>5, <1>6, HolderIsFunction DEF Abstract!Leave
  <1>8. QED
    BY <1>7

(* Every behaviour of the lock map is one of KeyedMutex: each step enters  *)
(* a section, leaves one, or is invisible.                                 *)
THEOREM LocksImplementMutex == Spec => ImplementsKeyedMutex
  <1>1. ASSUME Init PROVE Abstract!Init
    BY <1>1, NullsAreNull DEF Init, Abstract!Init, holder
  <1>2. ASSUME IInv, Next PROVE Abstract!Next \/ UNCHANGED holder
    BY <1>2, BookkeepingIsInvisible, AcquireEnters, UnlockLeaves DEF Next, Abstract!Next
  <1>3. UNCHANGED vars => UNCHANGED holder
    BY DEF vars, holder
  <1>4. IInv /\ [Next]_vars => [Abstract!Next]_holder
    BY <1>2, <1>3
  <1>5. QED
    BY <1>1, <1>4, Invariance, PTL DEF Spec, Abstract!Spec, ImplementsKeyedMutex
=============================================================================
