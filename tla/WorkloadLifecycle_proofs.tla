---------------------- MODULE WorkloadLifecycle_proofs ----------------------
(***************************************************************************)
(* For any number of requests and processes, any overlap, any failures and *)
(* crashes: the workload terminal fact never claims what has not happened, *)
(* and AFSCP is told about each Pod's mount in the order MountRelease      *)
(* prescribes.                                                             *)
(***************************************************************************)
EXTENDS WorkloadLifecycle, TLAPS

USE DEF NewPod, Drift, Confirmed, SameKey, Kept

-----------------------------------------------------------------------------
(* Values.                                                                 *)
LEMMA FactValue ==
  /\ NoFact \in Fact /\ NoFact.uid = 0
  /\ \A u, t \in Nat : FreshFact(u, t) \in Fact
  /\ \A f \in Fact : /\ f.uid \in Nat /\ f.stamp \in Nat
                     /\ f.rel \in BOOLEAN /\ f.del \in BOOLEAN /\ f.term \in BOOLEAN
                     /\ [f EXCEPT !.rel = TRUE] \in Fact
                     /\ [f EXCEPT !.del = TRUE] \in Fact
                     /\ [f EXCEPT !.term = TRUE] \in Fact
                     /\ \A t \in Nat : [f EXCEPT !.stamp = t] \in Fact
  BY DEF Fact, NoFact, FreshFact

LEMMA PodValue ==
  /\ NoPod \in Pod /\ NoPod.uid = 0
  /\ \A u \in Nat : [NoPod EXCEPT !.uid = u] \in Pod
  /\ \A x \in Pod : /\ x.uid \in Nat
                    /\ [x EXCEPT !.terminating = TRUE] \in Pod
                    /\ [x EXCEPT !.phase = "Running"] \in Pod
                    /\ [x EXCEPT !.phase = "Done"] \in Pod
  BY DEF Pod, NoPod

LEMMA SightValue == NoSight \in Sight /\ (pod \in Pod => Sighting \in Sight)
  BY DEF Sight, NoSight, Sighting, Pod

LEMMA PcValue ==
  /\ PutPcs \subseteq Pcs /\ DeletePcs \subseteq Pcs
  /\ "idle" \in Pcs /\ "idle" \notin PutPcs /\ "idle" \notin DeletePcs
  /\ {"mount", "create", "existing", "putGet", "putWrite", "rollback"} \subseteq PutPcs
  /\ {"lock", "load", "confirm", "look", "saveGet", "saveWrite",
      "flush", "release", "remove", "wait", "status"} \subseteq DeletePcs
  BY DEF Pcs, PutPcs, DeletePcs

LEMMA StageValue ==
  ASSUME NEW f, NEW s, NEW fl
  PROVE  StageAt(f, s, fl) \in {"flush", "release", "remove", "status"}
  BY DEF StageAt

-----------------------------------------------------------------------------
(* Type correctness.                                                       *)
LocalsOK ==
  /\ holder \in [Replica -> Req \cup {NoReq}]
  /\ pc \in [Req -> Pcs]
  /\ mem \in [Req -> Fact]
  /\ seen \in [Req -> Sight]
  /\ synced \in [Req -> BOOLEAN]
  /\ base \in [Req -> Bases]
  /\ out \in [Req -> Answers]
  /\ IdleIsClean

SharedOK ==
  /\ pod \in Pod /\ born \in Nat
  /\ fact \in Fact /\ clock \in Nat
  /\ released \subseteq Nat
  /\ reported \subseteq [uid : Nat, stamp : Nat]
  /\ puts \in Nat /\ faults \in Nat

LEMMA TypeParts == TypeOK <=> LocalsOK /\ SharedOK
  BY DEF TypeOK, LocalsOK, SharedOK

(* A step that answers leaves clean locals.                                *)
LEMMA AnswerType ==
  ASSUME LocalsOK, NEW r \in Req, NEW a \in Answers, Answer(r, a)
  PROVE  LocalsOK'
  BY FactValue, SightValue, PcValue DEF LocalsOK, IdleIsClean, Answer, Bases

(* A step of r touches the locals of no other request, but that a Save      *)
(* outdates the others' reads.                                             *)
Moved(r) ==
  /\ mem' \in [Req -> Fact]
  /\ seen' \in [Req -> Sight]
  /\ synced' \in [Req -> BOOLEAN]
  /\ base' \in [Req -> Bases]
  /\ \A q \in Req \ {r} : /\ mem'[q] = mem[q] /\ seen'[q] = seen[q]
                          /\ synced'[q] = synced[q]
                          /\ base[q] = "none" => base'[q] = "none"

(* A step of r changes r's copies only.                                    *)
LEMMA MovedType ==
  ASSUME LocalsOK, NEW r \in Req,
         NEW m \in Fact, mem' = [mem EXCEPT ![r] = m] \/ mem' = mem,
         NEW s \in Sight, seen' = [seen EXCEPT ![r] = s] \/ seen' = seen,
         NEW fl \in BOOLEAN, synced' = [synced EXCEPT ![r] = fl] \/ synced' = synced,
         NEW b \in Bases, base' = [base EXCEPT ![r] = b] \/ base' = base
  PROVE  Moved(r)
  BY DEF LocalsOK, Moved

(* A step that goes on to another call of the same handler.                *)
LEMMA GotoType ==
  ASSUME LocalsOK, NEW r \in Req, NEW l \in PutPcs \cup DeletePcs, Goto(r, l), Moved(r)
  PROVE  LocalsOK'
  <1>1. pc' \in [Req -> Pcs] /\ pc'[r] # "idle" /\ \A q \in Req \ {r} : pc'[q] = pc[q]
    BY PcValue DEF LocalsOK, Goto
  <1>2. IdleIsClean'
    BY <1>1 DEF LocalsOK, IdleIsClean, Moved
  <1>3. QED
    BY <1>1, <1>2 DEF LocalsOK, Goto, Moved

LEMMA StoreType ==
  ASSUME LocalsOK, NEW r \in Req, NEW f \in Fact, Store(r, f)
  PROVE  /\ fact' \in Fact
         /\ base' \in [Req -> Bases]
         /\ base'[r] = "none"
         /\ \A q \in Req : base[q] = "none" => base'[q] = "none"
  BY DEF LocalsOK, Store, Bases

(* A Save after which the handler answers.                                 *)
LEMMA SavedType ==
  ASSUME LocalsOK, NEW r \in Req, NEW f \in Fact, NEW a \in Answers, Store(r, f),
         pc' = [pc EXCEPT ![r] = "idle"],
         out' = [out EXCEPT ![r] = a],
         mem' = [mem EXCEPT ![r] = NoFact],
         seen' = [seen EXCEPT ![r] = NoSight],
         synced' = [synced EXCEPT ![r] = FALSE],
         holder' \in [Replica -> Req \cup {NoReq}]
  PROVE  LocalsOK'
  <1>1. /\ pc' \in [Req -> Pcs] /\ out' \in [Req -> Answers] /\ mem' \in [Req -> Fact]
        /\ seen' \in [Req -> Sight] /\ synced' \in [Req -> BOOLEAN]
    BY FactValue, SightValue, PcValue DEF LocalsOK
  <1>2. IdleIsClean'
    BY StoreType DEF LocalsOK, IdleIsClean
  <1>3. QED
    BY <1>1, <1>2, StoreType DEF LocalsOK

LEMMA InitType == Init => TypeOK
  <1> SUFFICES ASSUME Init PROVE TypeOK
    OBVIOUS
  <1>1. SharedOK
    BY FactValue, PodValue DEF Init, SharedOK
  <1>2. LocalsOK
    BY FactValue, SightValue, PcValue DEF Init, LocalsOK, IdleIsClean, Bases, Answers
  <1>3. QED
    BY <1>1, <1>2, TypeParts

LEMMA PutType == ASSUME TypeOK, NEW r \in Req, StartPut(r) \/ PutStep(r) PROVE SharedOK' /\ LocalsOK'
  <1>0. SharedOK /\ LocalsOK /\ {"refused", "error", "conflict", "created", "exists", "none"} \subseteq Answers
    BY TypeParts DEF Answers
  <1>1. CASE StartPut(r)
    <2>1. LocalsOK'
      BY <1>0, <1>1, PcValue DEF LocalsOK, IdleIsClean, StartPut, Idle
    <2>2. SharedOK'
      BY <1>0, <1>1 DEF SharedOK, StartPut, k8s, store, afscp
    <2>3. QED
      BY <2>1, <2>2
  <1>2. CASE ResolveMount(r)
    <2>1. SharedOK'
      BY <1>0, <1>2 DEF SharedOK, ResolveMount, k8s, store, afscp
    <2>2. CASE Answer(r, "refused")
      BY <1>0, <2>1, <2>2, AnswerType
    <2>3. CASE Goto(r, "create") /\ UNCHANGED <<mem, seen, synced, base>>
      <3>1. Moved(r)
        BY <1>0, <2>3 DEF LocalsOK, Moved
      <3>2. QED
        BY <1>0, <2>1, <2>3, <3>1, GotoType, PcValue
    <2>4. QED
      BY <1>2, <2>2, <2>3 DEF ResolveMount
  <1>3. CASE CreatePod(r)
    <2>1. SharedOK'
      BY <1>0, <1>3, PodValue DEF SharedOK, CreatePod, store, afscp
    <2>2. Moved(r)
      <3>1. born + 1 \in Nat /\ 0 \in Nat
        BY <1>0 DEF SharedOK
      <3>2. FreshFact(born + 1, 0) \in Fact
        BY <3>1, FactValue
      <3>3. mem' = [mem EXCEPT ![r] = FreshFact(born + 1, 0)] \/ mem' = mem
        BY <1>3 DEF CreatePod
      <3>4. UNCHANGED <<seen, synced, base>>
        BY <1>3 DEF CreatePod
      <3>5. QED
        BY <1>0, <3>2, <3>3, <3>4, MovedType, SightValue DEF Bases
    <2>3. QED
      BY <1>0, <1>3, <2>1, <2>2, GotoType, PcValue DEF CreatePod
  <1>4. CASE ReuseExisting(r)
    <2>1. SharedOK'
      BY <1>0, <1>4 DEF SharedOK, ReuseExisting, k8s, store, afscp
    <2>2. CASE Goto(r, "putGet")
      <3>1. Moved(r)
        <4>1. ~Answer(r, "conflict") /\ ~Answer(r, "error")
          BY <1>0, <2>2, PcValue DEF Goto, Answer, LocalsOK
        <4>2. /\ mem' = [mem EXCEPT ![r] = FreshFact(pod.uid, 0)]
              /\ seen' = [seen EXCEPT ![r] = Sighting]
              /\ UNCHANGED <<synced, base>>
          BY <1>4, <4>1 DEF ReuseExisting
        <4>3. FreshFact(pod.uid, 0) \in Fact /\ Sighting \in Sight
          BY <1>0, FactValue, PodValue, SightValue DEF SharedOK
        <4>4. QED
          BY <1>0, <4>2, <4>3, MovedType DEF Bases
      <3>2. QED
        BY <1>0, <2>1, <2>2, <3>1, GotoType, PcValue
    <2>3. CASE Answer(r, "conflict") \/ Answer(r, "error")
      BY <1>0, <2>1, <2>3, AnswerType
    <2>4. QED
      BY <1>4, <2>2, <2>3 DEF ReuseExisting
  <1>5. CASE PutGet(r)
    <2>1. SharedOK'
      BY <1>0, <1>5 DEF SharedOK, PutGet, k8s, afscp
    <2>2. mem' = [mem EXCEPT ![r] = [mem[r] EXCEPT !.stamp = clock + 1]]
      BY <1>5 DEF PutGet
    <2>3. Moved(r)
      <3>1. [mem[r] EXCEPT !.stamp = clock + 1] \in Fact
        <4>1. clock + 1 \in Nat /\ mem[r] \in Fact
          BY <1>0 DEF SharedOK, LocalsOK
        <4>2. QED
          BY <4>1 DEF Fact
      <3>2. PICK b \in Bases : base' = [base EXCEPT ![r] = b]
        BY <1>5 DEF PutGet, ReadBase, Bases
      <3>3. UNCHANGED <<seen, synced>>
        BY <1>5 DEF PutGet
      <3>4. QED
        BY <1>0, <2>2, <3>1, <3>2, <3>3, MovedType, SightValue
    <2>4. QED
      BY <1>0, <1>5, <2>1, <2>3, GotoType, PcValue DEF PutGet
  <1>6. CASE PutWrite(r)
    <2>1. mem[r] \in Fact
      BY <1>0 DEF LocalsOK
    <2>2. SharedOK'
      BY <1>0, <1>6, <2>1, StoreType DEF SharedOK, PutWrite, k8s, afscp
    <2>3. CASE SaveFits(r)
      <3>1. Store(r, mem[r])
        BY <1>6, <2>3 DEF PutWrite
      <3>2. LocalsOK'
        BY <1>0, <1>6, <2>1, <2>3, <3>1, SavedType DEF PutWrite, LocalsOK
      <3>3. QED
        BY <2>2, <3>2
    <2>4. CASE ~SaveFits(r)
      <3>1. SaveFailed(r)
        BY <1>6, <2>4 DEF PutWrite
      <3>2. CASE Answer(r, "error")
        BY <1>0, <2>2, <3>2, AnswerType
      <3>3. CASE Goto(r, "rollback") /\ UNCHANGED <<mem, seen, synced, base>>
        <4>1. Moved(r)
          BY <1>0, <3>3 DEF LocalsOK, Moved
        <4>2. QED
          BY <1>0, <2>2, <3>3, <4>1, GotoType, PcValue
      <3>4. QED
        BY <3>1, <3>2, <3>3 DEF SaveFailed
    <2>5. QED
      BY <2>3, <2>4
  <1>7. CASE Rollback(r)
    <2>1. SharedOK'
      BY <1>0, <1>7, PodValue DEF SharedOK, Rollback, store, afscp
    <2>2. LocalsOK'
      <3>1. Answer(r, "error")
        BY <1>7 DEF Rollback
      <3>2. QED
        BY <1>0, <3>1, AnswerType
    <2>3. QED
      BY <2>1, <2>2
  <1>8. QED
    BY <1>1, <1>2, <1>3, <1>4, <1>5, <1>6, <1>7 DEF PutStep

(* Proceed changes no other request's locals.                              *)
LEMMA ProceedType ==
  ASSUME LocalsOK, NEW r \in Req, NEW f \in Fact, NEW s, NEW fl, Proceed(r, f, s, fl),
         seen' \in [Req -> Sight], synced' \in [Req -> BOOLEAN], base' \in [Req -> Bases],
         \A q \in Req \ {r} : /\ seen'[q] = seen[q] /\ synced'[q] = synced[q]
                              /\ base[q] = "none" => base'[q] = "none"
  PROVE  LocalsOK'
  <1>1. mem' \in [Req -> Fact] /\ \A q \in Req \ {r} : mem'[q] = mem[q]
    <2>1. PICK m \in Fact : mem' = [mem EXCEPT ![r] = m]
      BY FactValue DEF Proceed
    <2>2. QED
      BY <2>1 DEF LocalsOK
  <1>2. PICK l \in DeletePcs : Goto(r, l)
    <2>1. StageAt(f, s, fl) \in DeletePcs
      BY StageValue, PcValue
    <2>2. QED
      BY <2>1, PcValue DEF Proceed
  <1>3. QED
    BY <1>1, <1>2, GotoType DEF Moved

LEMMA DeleteType == ASSUME TypeOK, NEW r \in Req, StartDelete(r) \/ DeleteStep(r) PROVE SharedOK' /\ LocalsOK'
  <1>0. SharedOK /\ LocalsOK /\ {"deleted", "incomplete", "error", "none"} \subseteq Answers
    BY TypeParts DEF Answers
  <1>a. mem[r] \in Fact /\ seen[r] \in Sight /\ synced[r] \in BOOLEAN
    BY <1>0 DEF LocalsOK
  <1>b. pod \in Pod /\ fact \in Fact
    BY <1>0 DEF SharedOK
  <1>1. CASE StartDelete(r)
    <2>1. LocalsOK'
      BY <1>0, <1>1, PcValue DEF LocalsOK, IdleIsClean, StartDelete, Idle
    <2>2. SharedOK'
      BY <1>0, <1>1 DEF SharedOK, StartDelete, k8s, store, afscp
    <2>3. QED
      BY <2>1, <2>2
  <1>2. CASE Lock(r)
    <2>1. LocalsOK'
      BY <1>0, <1>2, PcValue DEF LocalsOK, IdleIsClean, Lock
    <2>2. SharedOK'
      BY <1>0, <1>2 DEF SharedOK, Lock, k8s, store, afscp
    <2>3. QED
      BY <2>1, <2>2
  <1>3. CASE LoadFact(r)
    <2>1. SharedOK'
      BY <1>0, <1>3 DEF SharedOK, LoadFact, k8s, store, afscp
    <2>2. PICK l \in DeletePcs : Goto(r, l)
      <3>1. StageAt(fact, NoSight, FALSE) \in DeletePcs
        BY StageValue, PcValue
      <3>2. QED
        BY <1>3, <3>1, PcValue DEF LoadFact
    <2>3. Moved(r)
      BY <1>0, <1>b, <1>3 DEF LocalsOK, Moved, LoadFact
    <2>4. QED
      BY <1>0, <2>1, <2>2, <2>3, GotoType
  <1>4. CASE ConfirmTerminal(r)
    <2>1. SharedOK'
      BY <1>0, <1>4 DEF SharedOK, ConfirmTerminal, k8s, store, afscp
    <2>2. Answer(r, "deleted") \/ Answer(r, "incomplete")
      BY <1>4 DEF ConfirmTerminal
    <2>3. QED
      BY <1>0, <2>1, <2>2, AnswerType
  <1>5. CASE LookAtPod(r)
    <2>1. SharedOK'
      <3>1. clock' = clock \/ clock' = clock + 1
        BY <1>5 DEF LookAtPod
      <3>2. UNCHANGED <<k8s, fact, afscp, puts, faults>>
        BY <1>5 DEF LookAtPod
      <3>3. QED
        BY <1>0, <3>1, <3>2 DEF SharedOK, k8s, afscp
    <2>2. CASE mem[r].uid # 0
      <3>1. Proceed(r, mem[r], Sighting, FALSE) /\ seen' = [seen EXCEPT ![r] = Sighting]
            /\ UNCHANGED <<synced, base>>
        BY <1>5, <2>2 DEF LookAtPod
      <3>2. seen' \in [Req -> Sight] /\ \A q \in Req \ {r} : seen'[q] = seen[q]
        BY <1>0, <1>b, <3>1, SightValue DEF LocalsOK
      <3>3. synced' \in [Req -> BOOLEAN] /\ base' \in [Req -> Bases]
        BY <1>0, <3>1 DEF LocalsOK
      <3>4. LocalsOK'
        BY <1>0, <1>a, <3>1, <3>2, <3>3, ProceedType
      <3>5. QED
        BY <2>1, <3>4
    <2>3. CASE mem[r].uid = 0 /\ pod.uid # 0
      <3>1. Moved(r)
        <4>1. /\ mem' = [mem EXCEPT ![r] = FreshFact(pod.uid, clock + 1)]
              /\ seen' = [seen EXCEPT ![r] = Sighting]
              /\ UNCHANGED <<synced, base>>
          BY <1>5, <2>3 DEF LookAtPod
        <4>2. clock + 1 \in Nat /\ pod.uid \in Nat
          BY <1>0, <1>b DEF SharedOK, Pod
        <4>3. FreshFact(pod.uid, clock + 1) \in Fact
          BY <4>2 DEF FreshFact, Fact
        <4>4. QED
          BY <1>0, <1>b, <4>1, <4>3, MovedType, SightValue DEF Bases
      <3>2. Goto(r, "saveGet")
        BY <1>5, <2>3 DEF LookAtPod
      <3>3. QED
        BY <1>0, <2>1, <3>1, <3>2, GotoType, PcValue
    <2>4. CASE mem[r].uid = 0 /\ pod.uid = 0
      <3>1. Answer(r, "incomplete")
        BY <1>5, <2>4 DEF LookAtPod
      <3>2. QED
        BY <1>0, <2>1, <3>1, AnswerType
    <2>5. QED
      BY <2>2, <2>3, <2>4
  <1>6. CASE SaveGet(r)
    <2>1. SharedOK'
      BY <1>0, <1>6 DEF SharedOK, SaveGet, k8s, store, afscp
    <2>2. Moved(r)
      BY <1>0, <1>6 DEF LocalsOK, Moved, SaveGet, ReadBase, Bases
    <2>3. QED
      BY <1>0, <1>6, <2>1, <2>2, GotoType, PcValue DEF SaveGet
  <1>7. CASE SaveWrite(r)
    <2>1. SharedOK'
      BY <1>0, <1>a, <1>7, StoreType DEF SharedOK, SaveWrite, k8s, afscp
    <2>2. CASE SaveFits(r) /\ ~Terminal(mem[r])
      <3>1. Store(r, mem[r]) /\ Proceed(r, mem[r], seen[r], synced[r]) /\ UNCHANGED <<seen, synced>>
        BY <1>7, <2>2 DEF SaveWrite
      <3>2. seen' \in [Req -> Sight] /\ synced' \in [Req -> BOOLEAN]
        BY <1>0, <3>1 DEF LocalsOK
      <3>3. base' \in [Req -> Bases] /\ \A q \in Req : base[q] = "none" => base'[q] = "none"
        BY <1>0, <1>a, <3>1, StoreType
      <3>4. LocalsOK'
        BY <1>0, <1>a, <3>1, <3>2, <3>3, ProceedType
      <3>5. QED
        BY <2>1, <3>4
    <2>3. CASE SaveFits(r) /\ Terminal(mem[r])
      <3>1. Store(r, mem[r])
        BY <1>7, <2>3 DEF SaveWrite
      <3>2. holder' \in [Replica -> Req \cup {NoReq}]
        BY <1>0, <1>7, <2>3, ReqAssumption DEF LocalsOK, SaveWrite
      <3>3. LocalsOK'
        BY <1>0, <1>a, <1>7, <2>3, <3>1, <3>2, SavedType DEF SaveWrite
      <3>4. QED
        BY <2>1, <3>3
    <2>4. CASE ~SaveFits(r)
      <3>1. Answer(r, "error")
        BY <1>7, <2>4 DEF SaveWrite
      <3>2. QED
        BY <1>0, <2>1, <3>1, AnswerType
    <2>5. QED
      BY <2>2, <2>3, <2>4
  <1>8. CASE Flush(r)
    <2>1. SharedOK'
      BY <1>0, <1>8, PodValue DEF SharedOK, Flush, k8s, store, afscp
    <2>2. CASE pod.phase = "Running"
      <3>1. Moved(r)
        BY <1>0, <1>8, <2>2 DEF LocalsOK, Moved, Flush
      <3>2. PICK l \in DeletePcs : Goto(r, l)
        BY <1>8, <2>2, PcValue DEF Flush
      <3>3. QED
        BY <1>0, <2>1, <3>1, <3>2, GotoType
    <2>3. CASE pod.phase # "Running"
      <3>1. Answer(r, "error")
        BY <1>8, <2>3 DEF Flush
      <3>2. QED
        BY <1>0, <2>1, <3>1, AnswerType
    <2>4. QED
      BY <2>2, <2>3
  <1>9. CASE Release(r)
    <2>1. SharedOK'
      BY <1>0, <1>a, <1>9, FactValue DEF SharedOK, Release, ReleaseMount, k8s, store
    <2>2. mem' = [mem EXCEPT ![r] = [mem[r] EXCEPT !.rel = TRUE]]
      BY <1>9 DEF Release
    <2>3. Moved(r)
      BY <1>0, <1>a, <1>9, <2>2, FactValue DEF LocalsOK, Moved, Release
    <2>4. QED
      BY <1>0, <1>9, <2>1, <2>3, GotoType, PcValue DEF Release
  <1>10. CASE RemovePod(r)
    <2>1. SharedOK'
      BY <1>0, <1>10, PodValue DEF SharedOK, RemovePod, store, afscp
    <2>2. Moved(r)
      BY <1>0, <1>10 DEF LocalsOK, Moved, RemovePod
    <2>3. QED
      BY <1>0, <1>10, <2>1, <2>2, GotoType, PcValue DEF RemovePod
  <1>11. CASE AwaitPodGone(r)
    <2>1. SharedOK'
      BY <1>0, <1>11 DEF SharedOK, AwaitPodGone, k8s, store, afscp
    <2>2. CASE pod.uid = 0
      <3>1. mem' = [mem EXCEPT ![r] = [mem[r] EXCEPT !.del = TRUE]] /\ Goto(r, "saveGet")
        BY <1>11, <2>2 DEF AwaitPodGone
      <3>2. Moved(r)
        BY <1>0, <1>a, <1>11, <2>2, <3>1, FactValue DEF LocalsOK, Moved, AwaitPodGone
      <3>3. QED
        BY <1>0, <2>1, <3>1, <3>2, GotoType, PcValue
    <2>3. CASE pod.uid # 0
      <3>1. Answer(r, "error")
        BY <1>11, <2>3 DEF AwaitPodGone
      <3>2. QED
        BY <1>0, <2>1, <3>1, AnswerType
    <2>4. QED
      BY <2>2, <2>3
  <1>12. CASE ReportReleased(r)
    <2>1. SharedOK'
      <3>1. [uid |-> mem[r].uid, stamp |-> mem[r].stamp] \in [uid : Nat, stamp : Nat]
        BY <1>a, FactValue
      <3>2. reported' \subseteq [uid : Nat, stamp : Nat]
        BY <1>0, <1>12, <3>1 DEF SharedOK, ReportReleased, AcceptStatus
      <3>3. UNCHANGED <<k8s, store, released, puts, faults>>
        BY <1>12 DEF ReportReleased
      <3>4. QED
        BY <1>0, <3>2, <3>3 DEF SharedOK, k8s, store
    <2>2. CASE Answer(r, "error")
      BY <1>0, <2>1, <2>2, AnswerType
    <2>3. CASE ~Answer(r, "error")
      <3>1. /\ mem' = [mem EXCEPT ![r] = [mem[r] EXCEPT !.term = TRUE]]
            /\ Goto(r, "saveGet") /\ UNCHANGED <<seen, synced, base>>
        BY <1>12, <2>3 DEF ReportReleased
      <3>2. Moved(r)
        BY <1>0, <1>a, <3>1, FactValue DEF LocalsOK, Moved
      <3>3. QED
        BY <1>0, <2>1, <3>1, <3>2, GotoType, PcValue
    <2>4. QED
      BY <2>2, <2>3
  <1>13. QED
    BY <1>1, <1>2, <1>3, <1>4, <1>5, <1>6, <1>7, <1>8, <1>9, <1>10, <1>11, <1>12 DEF DeleteStep, DeleteCall

LEMMA FailType == ASSUME TypeOK, NEW r \in Req, Fail(r) PROVE SharedOK' /\ LocalsOK'
  <1>0. SharedOK /\ LocalsOK /\ "error" \in Answers
    BY TypeParts DEF Answers
  <1>1. SharedOK'
    BY <1>0 DEF SharedOK, Fail, Fault, k8s, store, afscp
  <1>2. CASE Answer(r, "error")
    BY <1>0, <1>1, <1>2, AnswerType
  <1>3. CASE Goto(r, "rollback") /\ UNCHANGED <<mem, seen, synced, base>>
    <2>1. Moved(r)
      BY <1>0, <1>3 DEF LocalsOK, Moved
    <2>2. QED
      BY <1>0, <1>1, <1>3, <2>1, GotoType, PcValue
  <1>4. QED
    BY <1>2, <1>3 DEF Fail, SaveFailed

LEMMA LostAnswerType == ASSUME TypeOK, NEW r \in Req, LostAnswer(r) PROVE SharedOK' /\ LocalsOK'
  <1>0. SharedOK /\ LocalsOK /\ {"error", "incomplete"} \subseteq Answers
    BY TypeParts DEF Answers
  <1>a. mem[r] \in Fact
    BY <1>0 DEF LocalsOK
  <1>1. CASE pc[r] = "create"
    <2>1. SharedOK'
      BY <1>0, <1>1, PodValue DEF SharedOK, LostAnswer, Fault, store, afscp
    <2>2. Answer(r, "error")
      BY <1>1 DEF LostAnswer
    <2>3. QED
      BY <1>0, <2>1, <2>2, AnswerType
  <1>2. CASE pc[r] = "putWrite"
    <2>1. Store(r, mem[r]) /\ Goto(r, "rollback") /\ UNCHANGED <<mem, seen, synced>>
      BY <1>2 DEF LostAnswer
    <2>2. SharedOK'
      BY <1>0, <1>a, <1>2, <2>1, StoreType DEF SharedOK, LostAnswer, Fault, k8s, afscp
    <2>3. Moved(r)
      BY <1>0, <1>a, <2>1, StoreType DEF LocalsOK, Moved
    <2>4. QED
      BY <1>0, <2>1, <2>2, <2>3, GotoType, PcValue
  <1>3. CASE pc[r] = "release" \/ pc[r] = "status"
    <2>1. SharedOK'
      <3>1. mem[r].uid \in Nat
            /\ [uid |-> mem[r].uid, stamp |-> mem[r].stamp] \in [uid : Nat, stamp : Nat]
        BY <1>a, FactValue
      <3>2. reported' \subseteq [uid : Nat, stamp : Nat] /\ released' \subseteq Nat
        BY <1>0, <1>3, <3>1 DEF SharedOK, LostAnswer, ReleaseMount, AcceptStatus
      <3>3. UNCHANGED <<k8s, fact, clock, puts>> /\ faults' = faults + 1
        BY <1>3 DEF LostAnswer, Fault
      <3>4. QED
        BY <1>0, <3>2, <3>3 DEF SharedOK, k8s
    <2>2. Answer(r, "incomplete")
      BY <1>3 DEF LostAnswer
    <2>3. QED
      BY <1>0, <2>1, <2>2, AnswerType
  <1>4. QED
    BY <1>1, <1>2, <1>3 DEF LostAnswer

LEMMA CrashType == ASSUME TypeOK, NEW p \in Replica, Crash(p) PROVE SharedOK' /\ LocalsOK'
  <1>0. SharedOK /\ LocalsOK /\ "none" \in Answers
    BY TypeParts DEF Answers
  <1>1. SharedOK'
    BY <1>0 DEF SharedOK, Crash, Fault, k8s, store, afscp
  <1>2. LocalsOK'
    BY <1>0, FactValue, SightValue, PcValue DEF LocalsOK, IdleIsClean, Crash, Bases
  <1>3. QED
    BY <1>1, <1>2

LEMMA PodType ==
  ASSUME TypeOK, PodStarts \/ PodExits \/ PodGone \/ PodEvicted
  PROVE  SharedOK' /\ LocalsOK'
  <1>0. SharedOK /\ LocalsOK
    BY TypeParts
  <1>1. LocalsOK'
    BY <1>0 DEF LocalsOK, IdleIsClean, PodStarts, PodExits, PodGone, PodEvicted, locals
  <1>2. /\ pod' \in Pod /\ faults' \in Nat
        /\ UNCHANGED <<born, store, afscp, puts>>
    <2>1. CASE PodStarts
      BY <1>0, <2>1, PodValue DEF SharedOK, PodStarts
    <2>2. CASE PodExits
      BY <1>0, <2>2, PodValue DEF SharedOK, PodExits
    <2>3. CASE PodGone
      BY <1>0, <2>3, PodValue DEF SharedOK, PodGone
    <2>4. CASE PodEvicted
      BY <1>0, <2>4, PodValue DEF SharedOK, PodEvicted, Fault
    <2>5. QED
      BY <2>1, <2>2, <2>3, <2>4
  <1>3. SharedOK'
    BY <1>0, <1>2 DEF SharedOK, store, afscp
  <1>4. QED
    BY <1>1, <1>3

LEMMA NextType == TypeOK /\ [Next]_vars => TypeOK'
  <1> SUFFICES ASSUME TypeOK, [Next]_vars PROVE TypeOK'
    OBVIOUS
  <1>1. CASE UNCHANGED vars
    BY <1>1 DEF vars, k8s, store, afscp, locals, TypeOK, IdleIsClean
  <1>2. QED
    BY <1>1, PutType, DeleteType, FailType, LostAnswerType, CrashType, PodType
    DEF Next, Kubernetes, TypeOK, SharedOK, LocalsOK

(* Every variable keeps its type, and a slot between two requests carries  *)
(* nothing over from the last one.                                         *)
THEOREM TypeCorrect == Spec => []TypeOK
  BY InitType, NextType, PTL DEF Spec

-----------------------------------------------------------------------------
(* Facts are backed.  Sound is stable: uids only grow, and what AFSCP has  *)
(* recorded stays recorded.                                                *)
Grows ==
  /\ born <= born'
  /\ pod'.uid # pod.uid => pod'.uid = 0 \/ pod'.uid > born
  /\ pod'.uid <= born'
  /\ released \subseteq released'
  /\ reported \subseteq reported'

Others(r) == \A q \in Req \ {r} : pc'[q] = pc[q] /\ mem'[q] = mem[q] /\ seen'[q] = seen[q]

LEMMA SoundStays ==
  ASSUME born \in Nat, born' \in Nat, pod \in Pod, pod' \in Pod, Grows, NEW f \in Fact, Sound(f)
  PROVE  Sound(f)'
  <1>1. f.uid \in Nat /\ pod.uid \in Nat /\ pod'.uid \in Nat
    BY DEF Fact, Pod
  <1>2. f.uid <= born'
    BY <1>1 DEF Sound, Backed, Grows
  <1>3. f.rel => Confirmed(f.uid)'
    BY DEF Sound, Backed, Grows
  <1>4. f.del => f.uid # pod'.uid /\ f.uid # 0
    BY <1>1 DEF Sound, Backed, Grows
  <1>5. f.term => \E x \in reported' : x.uid = f.uid
    BY DEF Sound, Backed, Grows
  <1>6. QED
    BY <1>2, <1>3, <1>4, <1>5 DEF Sound, Backed

(* What a step leaves alone stays sound.                                   *)
LEMMA FactStays ==
  ASSUME FactInv, TypeOK', Grows, fact' = fact
  PROVE  Sound(fact)'
  <1>1. PICK f \in Fact : f = fact
    BY DEF FactInv, TypeOK
  <1>2. Sound(f)'
    BY <1>1, SoundStays DEF FactInv, TypeOK
  <1>3. QED
    BY <1>1, <1>2 DEF Sound, Backed

LEMMA CopyStays ==
  ASSUME FactInv, TypeOK', Grows, NEW q \in Req,
         pc'[q] = pc[q], mem'[q] = mem[q], seen'[q] = seen[q]
  PROVE  CopySound(q)'
  <1>1. PICK f \in Fact : f = mem[q]
    BY DEF FactInv, TypeOK
  <1>2. Sound(f)
    BY <1>1 DEF FactInv, CopySound
  <1>3. Sound(f)'
    BY <1>2, SoundStays DEF FactInv, TypeOK
  <1>4. f.uid <= born /\ f.uid \in Nat /\ born \in Nat
    BY <1>2 DEF Sound, Backed, Fact, FactInv, TypeOK
  <1>5. pc[q] \in AfterLook => f.uid # 0 /\ (seen[q].uid = 0 => f.uid # pod.uid)
    BY <1>1 DEF FactInv, CopySound
  <1>6. pc[q] \in AfterLook => f.uid # 0 /\ (seen[q].uid = 0 => f.uid # pod'.uid)
    BY <1>4, <1>5 DEF Grows
  <1>7. pc[q] = "status" => f.rel /\ f.del
    BY <1>1 DEF FactInv, CopySound
  <1>8. Sound(mem[q])'
    BY <1>1, <1>3 DEF Sound, Backed
  <1>9. QED
    BY <1>1, <1>6, <1>7, <1>8 DEF CopySound

LEMMA StepInv ==
  ASSUME FactInv, TypeOK', Grows, NEW r \in Req, Others(r), CopySound(r)', Sound(fact)'
  PROVE  FactInv'
  <1>1. ASSUME NEW q \in Req PROVE CopySound(q)'
    BY CopyStays DEF Others
  <1>2. QED
    BY <1>1 DEF FactInv, Grows

(* A step that changes neither Kubernetes nor AFSCP.                       *)
Calm == UNCHANGED <<pod, born, released, reported>>

LEMMA CalmGrows == FactInv /\ Calm => Grows
  BY DEF FactInv, Calm, Grows, TypeOK

LEMMA AnswerOwn ==
  ASSUME FactInv, TypeOK', NEW r \in Req, NEW a, Answer(r, a)
  PROVE  CopySound(r)' /\ Others(r)
  <1>1. mem'[r] = NoFact /\ pc'[r] = "idle" /\ born' \in Nat /\ Others(r)
    BY DEF FactInv, TypeOK, Answer, Others
  <1>2. Sound(mem[r])'
    BY <1>1 DEF Sound, Backed, NoFact
  <1>3. QED
    BY <1>1, <1>2 DEF CopySound, AfterLook

(* A step to a call that is not one of AfterLook's.                        *)
LEMMA EarlyOwn ==
  ASSUME NEW r \in Req, Sound(mem[r])', pc'[r] \notin AfterLook
  PROVE  CopySound(r)'
  BY DEF CopySound, AfterLook

LEMMA SaveFailedOwn ==
  ASSUME FactInv, TypeOK', Calm, NEW r \in Req, SaveFailed(r)
  PROVE  CopySound(r)' /\ Others(r)
  <1>1. CASE Answer(r, "error")
    BY <1>1, AnswerOwn
  <1>2. CASE Goto(r, "rollback") /\ UNCHANGED <<mem, seen, synced, base>>
    <2>1. pc'[r] = "rollback" /\ Others(r)
      BY <1>2 DEF FactInv, TypeOK, Goto, Others
    <2>2. Sound(mem[r])'
      BY <1>2 DEF FactInv, CopySound, Sound, Backed, Calm
    <2>3. QED
      BY <2>1, <2>2, EarlyOwn DEF AfterLook
  <1>3. QED
    BY <1>1, <1>2 DEF SaveFailed

(* Going on from a fact about a Pod that, if it was not seen, is gone.     *)
LEMMA ProceedOwn ==
  ASSUME FactInv, Calm, NEW r \in Req, NEW f \in Fact, NEW s, NEW fl,
         Proceed(r, f, s, fl), Sound(f), f.uid # 0, s.uid = 0 => f.uid # pod.uid,
         seen'[r].uid = s.uid, \A q \in Req \ {r} : seen'[q] = seen[q]
  PROVE  CopySound(r)' /\ Others(r)
  <1>0. pc \in [Req -> Pcs] /\ mem \in [Req -> Fact]
    BY DEF FactInv, TypeOK
  <1>1. CASE f.rel /\ ~f.del /\ s.uid = 0
    <2>1. /\ mem' = [mem EXCEPT ![r] = [f EXCEPT !.del = TRUE]]
          /\ pc' = [pc EXCEPT ![r] = "saveGet"]
      BY <1>1 DEF Proceed, Goto
    <2>2. mem'[r] = [f EXCEPT !.del = TRUE] /\ pc'[r] = "saveGet" /\ Others(r)
      BY <1>0, <2>1 DEF Others
    <2>3. mem'[r].uid = f.uid /\ mem'[r].rel = f.rel /\ mem'[r].term = f.term
      BY <2>2 DEF Fact
    <2>4. Sound(mem[r])'
      BY <1>1, <2>3 DEF Sound, Backed, Calm
    <2>5. QED
      BY <1>1, <2>2, <2>3, <2>4 DEF CopySound, Calm
  <1>2. CASE ~(f.rel /\ ~f.del /\ s.uid = 0)
    <2>1. mem' = [mem EXCEPT ![r] = f] /\ pc' = [pc EXCEPT ![r] = StageAt(f, s, fl)]
      BY <1>2 DEF Proceed, Goto
    <2>2. mem'[r] = f /\ pc'[r] = StageAt(f, s, fl) /\ Others(r)
      BY <1>0, <2>1 DEF Others
    <2>3. Sound(mem[r])'
      BY <2>2 DEF Sound, Backed, Calm
    <2>4. pc'[r] = "status" => f.rel /\ f.del
      BY <2>2 DEF StageAt
    <2>5. QED
      BY <2>2, <2>3, <2>4 DEF CopySound, Calm
  <1>3. QED
    BY <1>1, <1>2

LEMMA PutInv ==
  ASSUME FactInv, TypeOK', NEW r \in Req, StartPut(r) \/ PutStep(r)
  PROVE  FactInv'
  <1>0. /\ pod \in Pod /\ pod.uid \in Nat /\ born \in Nat /\ pod.uid <= born
        /\ pc \in [Req -> Pcs] /\ mem \in [Req -> Fact] /\ seen \in [Req -> Sight]
        /\ mem[r] \in Fact /\ Sound(fact) /\ Sound(mem[r])
    BY DEF FactInv, TypeOK, CopySound, Pod
  <1>1. CASE StartPut(r)
    <2>1. Calm /\ fact' = fact /\ mem' = mem /\ Others(r) /\ pc'[r] = "mount"
      BY <1>0, <1>1 DEF StartPut, Calm, Others, k8s, store, afscp
    <2>2. Sound(mem[r])'
      BY <1>0, <2>1 DEF Sound, Backed, Calm
    <2>3. QED
      BY <2>1, <2>2, CalmGrows, EarlyOwn, FactStays, StepInv DEF AfterLook
  <1>2. CASE ResolveMount(r)
    <2>1. Calm /\ fact' = fact
      BY <1>2 DEF ResolveMount, Calm, k8s, store, afscp
    <2>2. CopySound(r)' /\ Others(r)
      <3>1. CASE Answer(r, "refused")
        BY <3>1, AnswerOwn
      <3>2. CASE Goto(r, "create") /\ UNCHANGED <<mem, seen, synced, base>>
        <4>1. pc'[r] = "create" /\ Others(r)
          BY <1>0, <3>2 DEF Goto, Others
        <4>2. Sound(mem[r])'
          BY <1>0, <2>1, <3>2 DEF Sound, Backed, Calm
        <4>3. QED
          BY <4>1, <4>2, EarlyOwn DEF AfterLook
      <3>3. QED
        BY <1>2, <3>1, <3>2 DEF ResolveMount
    <2>3. QED
      BY <2>1, <2>2, CalmGrows, FactStays, StepInv
  <1>3. CASE CreatePod(r)
    <2>1. Grows /\ fact' = fact
      BY <1>0, <1>3, PodValue DEF CreatePod, Grows, store, afscp, NoPod, Pod
    <2>2. Others(r) /\ pc'[r] \in {"putGet", "existing"}
      BY <1>0, <1>3 DEF CreatePod, Goto, Others
    <2>3. Sound(mem[r])'
      <3>1. CASE pod.uid = 0
        <4>1. mem'[r] = FreshFact(born + 1, 0) /\ born' = born + 1
          BY <1>0, <1>3, <3>1 DEF CreatePod
        <4>2. QED
          BY <1>0, <4>1 DEF Sound, Backed, FreshFact
      <3>2. CASE pod.uid # 0
        <4>1. mem' = mem /\ pod' = pod /\ born' = born /\ UNCHANGED <<released, reported>>
          BY <1>3, <3>2 DEF CreatePod, afscp
        <4>2. QED
          BY <1>0, <4>1 DEF Sound, Backed
      <3>3. QED
        BY <3>1, <3>2
    <2>4. QED
      BY <2>1, <2>2, <2>3, EarlyOwn, FactStays, StepInv DEF AfterLook
  <1>4. CASE ReuseExisting(r)
    <2>1. Calm /\ fact' = fact
      BY <1>4 DEF ReuseExisting, Calm, k8s, store, afscp
    <2>2. CopySound(r)' /\ Others(r)
      <3>1. CASE Answer(r, "conflict") \/ Answer(r, "error")
        BY <3>1, AnswerOwn
      <3>2. CASE ~(Answer(r, "conflict") \/ Answer(r, "error"))
        <4>1. /\ mem' = [mem EXCEPT ![r] = FreshFact(pod.uid, 0)]
              /\ seen' = [seen EXCEPT ![r] = Sighting]
              /\ Goto(r, "putGet")
          BY <1>4, <3>2 DEF ReuseExisting
        <4>2. Others(r) /\ pc'[r] = "putGet" /\ mem'[r] = FreshFact(pod.uid, 0)
          BY <1>0, <4>1 DEF Others, Goto
        <4>3. Sound(mem[r])'
          BY <1>0, <2>1, <4>2 DEF Sound, Backed, FreshFact, Calm
        <4>4. QED
          BY <4>2, <4>3, EarlyOwn DEF AfterLook
      <3>3. QED
        BY <3>1, <3>2
    <2>3. QED
      BY <2>1, <2>2, CalmGrows, FactStays, StepInv
  <1>5. CASE PutGet(r)
    <2>1. Calm /\ fact' = fact
      BY <1>5 DEF PutGet, Calm, k8s, afscp
    <2>2. Others(r) /\ pc'[r] = "putWrite" /\ mem'[r] = [mem[r] EXCEPT !.stamp = clock + 1]
      BY <1>0, <1>5 DEF PutGet, Goto, Others
    <2>3. /\ mem'[r].uid = mem[r].uid /\ mem'[r].rel = mem[r].rel
          /\ mem'[r].del = mem[r].del /\ mem'[r].term = mem[r].term
      BY <1>0, <2>2 DEF Fact
    <2>4. Sound(mem[r])'
      BY <1>0, <2>1, <2>3 DEF Sound, Backed, Calm
    <2>5. QED
      BY <2>1, <2>2, <2>4, CalmGrows, EarlyOwn, FactStays, StepInv DEF AfterLook
  <1>6. CASE PutWrite(r)
    <2>1. Calm
      BY <1>6 DEF PutWrite, Calm, k8s, afscp
    <2>2. CASE SaveFits(r)
      <3>1. fact' = mem[r] /\ mem' = [mem EXCEPT ![r] = NoFact] /\ pc' = [pc EXCEPT ![r] = "idle"]
            /\ seen' = [seen EXCEPT ![r] = NoSight]
        BY <1>6, <2>2 DEF PutWrite, Store
      <3>2. Others(r) /\ pc'[r] = "idle" /\ mem'[r] = NoFact
        BY <1>0, <3>1 DEF Others
      <3>3. Sound(fact)'
        BY <1>0, <2>1, <3>1 DEF Sound, Backed, Calm
      <3>4. Sound(mem[r])'
        BY <1>0, <2>1, <3>2 DEF Sound, Backed, Calm, NoFact
      <3>5. QED
        BY <2>1, <3>2, <3>3, <3>4, CalmGrows, EarlyOwn, StepInv DEF AfterLook
    <2>3. CASE ~SaveFits(r)
      <3>1. SaveFailed(r) /\ fact' = fact
        BY <1>6, <2>3 DEF PutWrite
      <3>2. CopySound(r)' /\ Others(r)
        BY <2>1, <3>1, SaveFailedOwn
      <3>3. QED
        BY <2>1, <3>1, <3>2, CalmGrows, FactStays, StepInv
    <2>4. QED
      BY <2>2, <2>3
  <1>7. CASE Rollback(r)
    <2>1. Grows /\ fact' = fact
      BY <1>0, <1>7 DEF Rollback, Grows, store, afscp, NoPod
    <2>2. CopySound(r)' /\ Others(r)
      BY <1>7, AnswerOwn DEF Rollback
    <2>3. QED
      BY <2>1, <2>2, FactStays, StepInv
  <1>8. QED
    BY <1>1, <1>2, <1>3, <1>4, <1>5, <1>6, <1>7 DEF PutStep

LEMMA DeleteInv ==
  ASSUME FactInv, TypeOK', NEW r \in Req, StartDelete(r) \/ DeleteStep(r)
  PROVE  FactInv'
  <1>0. /\ pod \in Pod /\ pod.uid \in Nat /\ born \in Nat /\ pod.uid <= born
        /\ pc \in [Req -> Pcs] /\ mem \in [Req -> Fact] /\ seen \in [Req -> Sight]
        /\ mem[r] \in Fact /\ Sound(fact) /\ Sound(mem[r]) /\ fact \in Fact
    BY DEF FactInv, TypeOK, CopySound, Pod
  <1>a. pc[r] \in AfterLook => mem[r].uid # 0 /\ (seen[r].uid = 0 => mem[r].uid # pod.uid)
    BY DEF FactInv, CopySound
  <1>b. CASE StartDelete(r) \/ Lock(r)
    <2>1. Calm /\ fact' = fact /\ mem' = mem /\ Others(r) /\ pc'[r] \in {"lock", "load"}
      BY <1>0, <1>b DEF StartDelete, Lock, Calm, Others, k8s, store, afscp
    <2>2. Sound(mem[r])'
      BY <1>0, <2>1 DEF Sound, Backed, Calm
    <2>3. QED
      BY <2>1, <2>2, CalmGrows, EarlyOwn, FactStays, StepInv DEF AfterLook
  <1>3. CASE LoadFact(r)
    <2>1. Calm /\ fact' = fact /\ Others(r) /\ mem'[r] = fact
      BY <1>0, <1>3 DEF LoadFact, Calm, Others, Goto, k8s, store, afscp
    <2>2. Sound(mem[r])'
      BY <1>0, <2>1 DEF Sound, Backed, Calm
    <2>3. CASE Terminal(fact) \/ fact.uid = 0 \/ ~fact.del
      <3>1. pc'[r] \in {"confirm", "look"}
        BY <1>0, <1>3, <2>3 DEF LoadFact, Goto
      <3>2. QED
        BY <2>1, <2>2, <3>1, CalmGrows, EarlyOwn, FactStays, StepInv DEF AfterLook
    <2>4. CASE ~(Terminal(fact) \/ fact.uid = 0 \/ ~fact.del)
      <3>1. fact.uid # 0 /\ fact.del /\ fact.uid # pod.uid
        BY <1>0, <2>4 DEF Sound, Backed
      <3>2. pc'[r] = StageAt(fact, NoSight, FALSE)
        BY <1>0, <1>3, <2>4 DEF LoadFact, Goto
      <3>3. pc'[r] = "status" => fact.rel
        BY <3>2 DEF StageAt, NeedsFlush, NoSight
      <3>4. CopySound(r)'
        BY <2>1, <2>2, <3>1, <3>3 DEF CopySound, Calm
      <3>5. QED
        BY <2>1, <3>4, CalmGrows, FactStays, StepInv
    <2>5. QED
      BY <2>3, <2>4
  <1>4. CASE ConfirmTerminal(r)
    <2>1. Calm /\ fact' = fact
      BY <1>4 DEF ConfirmTerminal, Calm, k8s, store, afscp
    <2>2. CopySound(r)' /\ Others(r)
      BY <1>4, AnswerOwn DEF ConfirmTerminal
    <2>3. QED
      BY <2>1, <2>2, CalmGrows, FactStays, StepInv
  <1>5. CASE LookAtPod(r)
    <2>1. Calm /\ fact' = fact
      BY <1>5 DEF LookAtPod, Calm, k8s, afscp
    <2>2. CopySound(r)' /\ Others(r)
      <3>1. CASE mem[r].uid # 0
        <4>1. Proceed(r, mem[r], Sighting, FALSE) /\ seen' = [seen EXCEPT ![r] = Sighting]
          BY <1>5, <3>1 DEF LookAtPod
        <4>2. seen'[r].uid = pod.uid /\ \A q \in Req \ {r} : seen'[q] = seen[q]
          BY <1>0, <4>1 DEF Sighting
        <4>3. Sighting.uid = 0 => mem[r].uid # pod.uid
          BY <3>1 DEF Sighting
        <4>4. QED
          BY <1>0, <2>1, <3>1, <4>1, <4>2, <4>3, ProceedOwn
      <3>2. CASE mem[r].uid = 0 /\ pod.uid # 0
        <4>1. /\ mem' = [mem EXCEPT ![r] = FreshFact(pod.uid, clock + 1)]
              /\ seen' = [seen EXCEPT ![r] = Sighting]
              /\ Goto(r, "saveGet")
          BY <1>5, <3>2 DEF LookAtPod
        <4>2. /\ Others(r) /\ pc'[r] = "saveGet" /\ mem'[r] = FreshFact(pod.uid, clock + 1)
              /\ seen'[r] = Sighting
          BY <1>0, <4>1 DEF Others, Goto
        <4>3. Sound(mem[r])'
          BY <1>0, <2>1, <4>2 DEF Sound, Backed, FreshFact, Calm
        <4>4. mem'[r].uid # 0 /\ seen'[r].uid # 0
          BY <3>2, <4>2 DEF FreshFact, Sighting
        <4>5. QED
          BY <4>2, <4>3, <4>4 DEF CopySound
      <3>3. CASE mem[r].uid = 0 /\ pod.uid = 0
        BY <1>5, <3>3, AnswerOwn DEF LookAtPod
      <3>4. QED
        BY <3>1, <3>2, <3>3
    <2>3. QED
      BY <2>1, <2>2, CalmGrows, FactStays, StepInv
  <1>6. CASE SaveGet(r)
    <2>1. Calm /\ fact' = fact /\ mem' = mem /\ seen' = seen /\ Others(r) /\ pc'[r] = "saveWrite"
      BY <1>0, <1>6 DEF SaveGet, Calm, Others, Goto, k8s, store, afscp
    <2>2. Sound(mem[r])'
      BY <1>0, <2>1 DEF Sound, Backed, Calm
    <2>3. CopySound(r)'
      BY <1>a, <1>6, <2>1, <2>2 DEF CopySound, Calm, SaveGet, AfterLook
    <2>4. QED
      BY <2>1, <2>3, CalmGrows, FactStays, StepInv
  <1>7. CASE SaveWrite(r)
    <2>1. Calm
      BY <1>7 DEF SaveWrite, Calm, k8s, afscp
    <2>2. CASE ~SaveFits(r)
      <3>1. fact' = fact /\ CopySound(r)' /\ Others(r)
        BY <1>7, <2>2, AnswerOwn DEF SaveWrite
      <3>2. QED
        BY <2>1, <3>1, CalmGrows, FactStays, StepInv
    <2>3. CASE SaveFits(r)
      <3>1. fact' = mem[r]
        BY <1>7, <2>3 DEF SaveWrite, Store
      <3>2. Sound(fact)'
        BY <1>0, <2>1, <3>1 DEF Sound, Backed, Calm
      <3>3. CopySound(r)' /\ Others(r)
        <4>1. CASE Terminal(mem[r])
          <5>1. /\ mem' = [mem EXCEPT ![r] = NoFact] /\ pc' = [pc EXCEPT ![r] = "idle"]
                /\ seen' = [seen EXCEPT ![r] = NoSight]
            BY <1>7, <2>3, <4>1 DEF SaveWrite
          <5>2. Others(r) /\ pc'[r] = "idle" /\ mem'[r] = NoFact
            BY <1>0, <5>1 DEF Others
          <5>3. Sound(mem[r])'
            BY <1>0, <2>1, <5>2 DEF Sound, Backed, Calm, NoFact
          <5>4. QED
            BY <5>2, <5>3, EarlyOwn DEF AfterLook
        <4>2. CASE ~Terminal(mem[r])
          <5>1. Proceed(r, mem[r], seen[r], synced[r]) /\ seen' = seen
            BY <1>7, <2>3, <4>2 DEF SaveWrite
          <5>2. mem[r].uid # 0 /\ (seen[r].uid = 0 => mem[r].uid # pod.uid)
            BY <1>a, <1>7 DEF SaveWrite, AfterLook
          <5>3. QED
            BY <1>0, <2>1, <5>1, <5>2, ProceedOwn
        <4>3. QED
          BY <4>1, <4>2
      <3>4. QED
        BY <2>1, <3>2, <3>3, CalmGrows, StepInv
    <2>4. QED
      BY <2>2, <2>3
  <1>8. CASE Flush(r)
    <2>1. Calm /\ fact' = fact
      BY <1>8 DEF Flush, Calm, k8s, store, afscp
    <2>2. CASE pod.phase = "Running"
      <3>1. /\ mem' = mem /\ seen' = seen /\ Others(r) /\ pc'[r] \in {"remove", "release"}
        BY <1>0, <1>8, <2>2 DEF Flush, Others, Goto
      <3>2. Sound(mem[r])'
        BY <1>0, <2>1, <3>1 DEF Sound, Backed, Calm
      <3>3. CopySound(r)'
        BY <1>a, <1>8, <2>1, <3>1, <3>2 DEF CopySound, Calm, Flush, AfterLook
      <3>4. QED
        BY <2>1, <3>1, <3>3, CalmGrows, FactStays, StepInv
    <2>3. CASE pod.phase # "Running"
      <3>1. CopySound(r)' /\ Others(r)
        BY <1>8, <2>3, AnswerOwn DEF Flush
      <3>2. QED
        BY <2>1, <3>1, CalmGrows, FactStays, StepInv
    <2>4. QED
      BY <2>2, <2>3
  <1>9. CASE Release(r)
    <2>1. Grows /\ fact' = fact
      BY <1>0, <1>9 DEF Release, ReleaseMount, Grows, k8s, store
    <2>2. /\ Others(r) /\ pc'[r] = "saveGet" /\ seen' = seen
          /\ mem'[r] = [mem[r] EXCEPT !.rel = TRUE]
      BY <1>0, <1>9 DEF Release, Goto, Others
    <2>3. /\ mem'[r].uid = mem[r].uid /\ mem'[r].del = mem[r].del /\ mem'[r].term = mem[r].term
      BY <1>0, <2>2 DEF Fact
    <2>4. UNCHANGED <<pod, born, reported>> /\ \E v \in released' : SameKey("release", v, mem[r].uid)
      BY <1>9 DEF Release, ReleaseMount, k8s
    <2>5. Sound(mem[r])'
      BY <1>0, <2>3, <2>4 DEF Sound, Backed
    <2>6. CopySound(r)'
      BY <1>a, <1>9, <2>2, <2>3, <2>4, <2>5 DEF CopySound, Release, AfterLook
    <2>7. QED
      BY <2>1, <2>2, <2>6, FactStays, StepInv
  <1>10. CASE RemovePod(r)
    <2>1. pod'.uid = pod.uid
      BY <1>0, <1>10 DEF RemovePod, Pod
    <2>2. UNCHANGED <<born, fact, released, reported, mem, seen>> /\ Others(r) /\ pc'[r] = "wait"
      BY <1>0, <1>10 DEF RemovePod, Goto, Others, store, afscp
    <2>3. Grows
      BY <1>0, <2>1, <2>2 DEF Grows
    <2>4. Sound(mem[r])'
      BY <1>0, <2>1, <2>2 DEF Sound, Backed
    <2>5. CopySound(r)'
      BY <1>a, <1>10, <2>1, <2>2, <2>4 DEF CopySound, RemovePod, AfterLook
    <2>6. QED
      BY <2>2, <2>3, <2>5, FactStays, StepInv
  <1>11. CASE AwaitPodGone(r)
    <2>1. Calm /\ fact' = fact
      BY <1>11 DEF AwaitPodGone, Calm, k8s, store, afscp
    <2>2. CASE pod.uid = 0
      <3>1. /\ Others(r) /\ pc'[r] = "saveGet" /\ seen' = seen
            /\ mem'[r] = [mem[r] EXCEPT !.del = TRUE]
        BY <1>0, <1>11, <2>2 DEF AwaitPodGone, Goto, Others
      <3>2. /\ mem'[r].uid = mem[r].uid /\ mem'[r].rel = mem[r].rel /\ mem'[r].term = mem[r].term
        BY <1>0, <3>1 DEF Fact
      <3>3. mem[r].uid # 0 /\ mem[r].uid # pod.uid
        BY <1>a, <1>11, <2>2 DEF AwaitPodGone, AfterLook
      <3>4. Sound(mem[r])'
        BY <1>0, <2>1, <3>2, <3>3 DEF Sound, Backed, Calm
      <3>5. CopySound(r)'
        BY <2>1, <3>1, <3>2, <3>3, <3>4 DEF CopySound, Calm
      <3>6. QED
        BY <2>1, <3>1, <3>5, CalmGrows, FactStays, StepInv
    <2>3. CASE pod.uid # 0
      <3>1. CopySound(r)' /\ Others(r)
        BY <1>11, <2>3, AnswerOwn DEF AwaitPodGone
      <3>2. QED
        BY <2>1, <3>1, CalmGrows, FactStays, StepInv
    <2>4. QED
      BY <2>2, <2>3
  <1>12. CASE ReportReleased(r)
    <2>1. Grows /\ fact' = fact
      BY <1>0, <1>12 DEF ReportReleased, AcceptStatus, Grows, k8s, store
    <2>2. CASE Answer(r, "error")
      BY <2>1, <2>2, AnswerOwn, FactStays, StepInv
    <2>3. CASE ~Answer(r, "error")
      <3>1. AcceptStatus(r) /\ mem' = [mem EXCEPT ![r].term = TRUE] /\ Goto(r, "saveGet")
            /\ UNCHANGED <<pod, born, released, seen>>
        BY <1>12, <2>3 DEF ReportReleased, k8s
      <3>2. /\ Others(r) /\ pc'[r] = "saveGet" /\ seen' = seen
            /\ mem'[r] = [mem[r] EXCEPT !.term = TRUE]
        BY <1>0, <3>1 DEF Goto, Others
      <3>3. /\ mem'[r].uid = mem[r].uid /\ mem'[r].rel = mem[r].rel /\ mem'[r].del = mem[r].del
        BY <1>0, <3>2 DEF Fact
      <3>4. [uid |-> mem[r].uid, stamp |-> mem[r].stamp] \in reported'
        BY <3>1 DEF AcceptStatus
      <3>5. \E x \in reported' : x.uid = mem[r].uid
        BY <3>4
      <3>6. Sound(mem[r])'
        BY <1>0, <3>1, <3>3, <3>5 DEF Sound, Backed
      <3>7. CopySound(r)'
        BY <1>a, <1>12, <3>1, <3>2, <3>3, <3>6 DEF CopySound, ReportReleased, AfterLook
      <3>8. QED
        BY <2>1, <3>2, <3>7, FactStays, StepInv
    <2>4. QED
      BY <2>2, <2>3
  <1>13. QED
    BY <1>b, <1>3, <1>4, <1>5, <1>6, <1>7, <1>8, <1>9, <1>10, <1>11, <1>12 DEF DeleteStep, DeleteCall

LEMMA FailInv ==
  ASSUME FactInv, TypeOK', NEW r \in Req, Fail(r)
  PROVE  FactInv'
  <1>1. Calm /\ fact' = fact
    BY DEF Fail, Calm, k8s, store, afscp
  <1>2. CopySound(r)' /\ Others(r)
    BY <1>1, AnswerOwn, SaveFailedOwn DEF Fail
  <1>3. QED
    BY <1>1, <1>2, CalmGrows, FactStays, StepInv

LEMMA LostAnswerInv ==
  ASSUME FactInv, TypeOK', NEW r \in Req, LostAnswer(r)
  PROVE  FactInv'
  <1>0. /\ pod \in Pod /\ pod.uid \in Nat /\ born \in Nat /\ pod.uid <= born
        /\ pc \in [Req -> Pcs] /\ mem[r] \in Fact /\ Sound(mem[r])
    BY DEF FactInv, TypeOK, CopySound, Pod
  <1>1. CASE pc[r] = "putWrite"
    <2>1. Calm /\ Store(r, mem[r]) /\ Goto(r, "rollback") /\ UNCHANGED <<mem, seen>>
      BY <1>1 DEF LostAnswer, Calm, k8s, afscp
    <2>2. pc'[r] = "rollback" /\ Others(r)
      BY <1>0, <2>1 DEF Goto, Others
    <2>3. Sound(fact)' /\ Sound(mem[r])'
      BY <1>0, <2>1 DEF Sound, Backed, Calm, Store
    <2>4. QED
      BY <2>1, <2>2, <2>3, CalmGrows, EarlyOwn, StepInv DEF AfterLook
  <1>2. CASE pc[r] \in {"create", "release", "status"}
    <2>1. CopySound(r)' /\ Others(r)
      BY <1>2, AnswerOwn DEF LostAnswer
    <2>2. fact' = fact
      BY <1>2 DEF LostAnswer, store
    <2>3. Grows
      <3>1. CASE pc[r] = "create"
        BY <1>0, <3>1, PodValue DEF LostAnswer, Grows, afscp, NoPod, Pod
      <3>2. CASE pc[r] \in {"release", "status"}
        BY <1>0, <3>2 DEF LostAnswer, ReleaseMount, AcceptStatus, Grows, k8s
      <3>3. QED
        BY <1>2, <3>1, <3>2
    <2>4. QED
      BY <2>1, <2>2, <2>3, FactStays, StepInv
  <1>3. QED
    BY <1>1, <1>2 DEF LostAnswer

(* A crash empties the locals of every request of the process.             *)
LEMMA CrashInv ==
  ASSUME FactInv, TypeOK', NEW p \in Replica, Crash(p)
  PROVE  FactInv'
  <1>1. Calm /\ fact' = fact
    BY DEF Crash, Calm, k8s, store, afscp
  <1>2. ASSUME NEW q \in Req PROVE CopySound(q)'
    <2>1. CASE ReplicaOf[q] = p
      <3>1. mem'[q] = NoFact /\ pc'[q] = "idle"
        BY <2>1 DEF Crash
      <3>2. Sound(mem[q])'
        BY <3>1 DEF Sound, Backed, NoFact, TypeOK
      <3>3. QED
        BY <3>1, <3>2, EarlyOwn DEF AfterLook
    <2>2. CASE ReplicaOf[q] # p
      <3>1. pc'[q] = pc[q] /\ mem'[q] = mem[q] /\ seen'[q] = seen[q]
        BY <2>2 DEF Crash
      <3>2. QED
        BY <1>1, <3>1, CalmGrows, CopyStays
    <2>3. QED
      BY <2>1, <2>2
  <1>3. QED
    BY <1>1, <1>2, CalmGrows, FactStays DEF FactInv, Grows

LEMMA PodInv ==
  ASSUME FactInv, TypeOK', PodStarts \/ PodExits \/ PodGone \/ PodEvicted
  PROVE  FactInv'
  <1>1. /\ pod'.uid = pod.uid \/ pod'.uid = 0
        /\ UNCHANGED <<born, fact, released, reported, pc, mem, seen>>
    BY DEF FactInv, TypeOK, Pod, PodStarts, PodExits, PodGone, PodEvicted, NoPod, locals,
       store, afscp
  <1>2. Grows
    BY <1>1 DEF FactInv, TypeOK, Grows
  <1>3. \A q \in Req : CopySound(q)'
    BY <1>1, <1>2, CopyStays
  <1>4. QED
    BY <1>1, <1>2, <1>3, FactStays DEF FactInv, Grows

LEMMA InitInv == Init => FactInv
  <1> SUFFICES ASSUME Init PROVE FactInv
    OBVIOUS
  <1>1. Sound(NoFact) /\ pod.uid = 0 /\ born = 0
    BY DEF Init, Sound, Backed, NoFact, NoPod
  <1>2. fact = NoFact /\ \A q \in Req : mem[q] = NoFact /\ pc[q] = "idle"
    BY DEF Init
  <1>3. QED
    BY <1>1, <1>2, InitType DEF FactInv, CopySound, AfterLook

LEMMA NextInv == FactInv /\ [Next]_vars => FactInv'
  <1> SUFFICES ASSUME FactInv, [Next]_vars PROVE FactInv'
    OBVIOUS
  <1>0. TypeOK'
    BY NextType DEF FactInv
  <1>1. CASE UNCHANGED vars
    <2>1. Calm /\ UNCHANGED <<fact, pc, mem, seen>>
      BY <1>1 DEF vars, k8s, store, afscp, locals, Calm
    <2>2. \A q \in Req : CopySound(q)'
      BY <1>0, <2>1, CalmGrows, CopyStays
    <2>3. QED
      BY <1>0, <2>1, <2>2, CalmGrows, FactStays DEF FactInv, Grows
  <1>2. CASE Next
    BY <1>0, <1>2, PutInv, DeleteInv, FailInv, LostAnswerInv, CrashInv, PodInv DEF Next, Kubernetes
  <1>3. QED
    BY <1>1, <1>2

THEOREM Invariance == Spec => []FactInv
  BY InitInv, NextInv, PTL DEF Spec

(* The stored terminal fact claims only what has happened.                 *)
THEOREM FactsAreBacked == Spec => []FactBacked
  <1>1. FactInv => FactBacked
    BY DEF FactInv, Sound, FactBacked
  <1>2. QED
    BY <1>1, Invariance, PTL

-----------------------------------------------------------------------------
(* Refinement, when the key of a release reaches the Pod's uid.  Each step *)
(* either leaves the mount's history alone or is one of MountRelease's.    *)
ReleaseKeyed == "release" \in KeyedByUid

LEMMA ConfirmedIsReleased == ReleaseKeyed => \A u : Confirmed(u) => u \in released
  BY DEF ReleaseKeyed

Idles == UNCHANGED <<pod.uid, born, released, reported>>

LEMMA IdlesStutters == Idles => UNCHANGED MountOrder!vars
  BY DEF Idles, MountOrder!vars

LEMMA LaunchStep ==
  ASSUME pod.uid = 0, born \in Nat, pod' = [NoPod EXCEPT !.uid = born + 1], born' = born + 1,
         UNCHANGED <<released, reported>>
  PROVE  MountOrder!Next
  <1>1. pod'.uid = born + 1
    BY DEF NoPod
  <1>2. MountOrder!Launch
    BY <1>1 DEF MountOrder!Launch
  <1>3. QED
    BY <1>2 DEF MountOrder!Next

LEMMA VanishStep ==
  ASSUME pod'.uid = 0, UNCHANGED <<born, released, reported>>
  PROVE  [MountOrder!Next]_(MountOrder!vars)
  <1>1. CASE pod.uid = 0
    BY <1>1 DEF MountOrder!vars
  <1>2. CASE pod.uid # 0
    <2>1. MountOrder!Vanish
      BY <1>2 DEF MountOrder!Vanish
    <2>2. QED
      BY <2>1 DEF MountOrder!Next
  <1>3. QED
    BY <1>1, <1>2

LEMMA ReleaseStep ==
  ASSUME FactInv, NEW r \in Req, pc[r] = "release", ReleaseMount(mem[r].uid),
         UNCHANGED <<pod, born, reported>>
  PROVE  [MountOrder!Next]_(MountOrder!vars)
  <1>1. mem[r].uid \in 1..born
    <2>1. mem[r].uid # 0 /\ Sound(mem[r]) /\ mem[r] \in Fact /\ born \in Nat
      BY DEF FactInv, CopySound, AfterLook, TypeOK
    <2>2. QED
      BY <2>1 DEF Sound, Backed, Fact
  <1>2. CASE Confirmed(mem[r].uid)
    BY <1>2, IdlesStutters DEF ReleaseMount, Idles
  <1>3. CASE ~Confirmed(mem[r].uid)
    <2>1. MountOrder!Release
      BY <1>1, <1>3 DEF MountOrder!Release, ReleaseMount
    <2>2. QED
      BY <2>1 DEF MountOrder!Next
  <1>4. QED
    BY <1>2, <1>3

LEMMA ReportStep ==
  ASSUME FactInv, ReleaseKeyed, NEW r \in Req, pc[r] = "status",
         reported' = reported \cup {[uid |-> mem[r].uid, stamp |-> mem[r].stamp]},
         UNCHANGED <<pod, born, released>>
  PROVE  MountOrder!Next
  <1>1. mem[r].uid \in released /\ mem[r].uid # pod.uid
    BY ConfirmedIsReleased DEF FactInv, CopySound, Sound, Backed
  <1>2. {x.uid : x \in reported'} = {x.uid : x \in reported} \cup {mem[r].uid}
    <2>1. PICK e : e = [uid |-> mem[r].uid, stamp |-> mem[r].stamp]
      OBVIOUS
    <2>2. e.uid = mem[r].uid
      BY <2>1
    <2>3. reported' = reported \cup {e}
      BY <2>1
    <2>4. {x.uid : x \in reported'} = {x.uid : x \in reported} \cup {e.uid}
      BY <2>3
    <2>5. QED
      BY <2>2, <2>4
  <1>3. MountOrder!Report
    BY <1>1, <1>2 DEF MountOrder!Report
  <1>4. QED
    BY <1>3 DEF MountOrder!Next

LEMMA StepRefines ==
  ASSUME FactInv, ReleaseKeyed, [Next]_vars
  PROVE  [MountOrder!Next]_(MountOrder!vars)
  <1>0. pod \in Pod /\ born \in Nat
    BY DEF FactInv, TypeOK
  <1>1. CASE UNCHANGED vars
    <2>1. Idles
      BY <1>1 DEF vars, k8s, afscp, Idles
    <2>2. QED
      BY <2>1, IdlesStutters
  <1>2. ASSUME NEW r \in Req, StartPut(r) \/ PutStep(r)
        PROVE  [MountOrder!Next]_(MountOrder!vars)
    <2>1. CASE StartPut(r) \/ ResolveMount(r) \/ ReuseExisting(r) \/ PutGet(r) \/ PutWrite(r)
      <3>1. Idles
        BY <2>1 DEF StartPut, ResolveMount, ReuseExisting, PutGet, PutWrite, k8s, afscp, Idles
      <3>2. QED
        BY <3>1, IdlesStutters
    <2>2. CASE CreatePod(r)
      <3>1. CASE pod.uid = 0
        BY <1>0, <2>2, <3>1, LaunchStep DEF CreatePod, afscp
      <3>2. CASE pod.uid # 0
        <4>1. Idles
          BY <2>2, <3>2 DEF CreatePod, afscp, Idles
        <4>2. QED
          BY <4>1, IdlesStutters
      <3>3. QED
        BY <3>1, <3>2
    <2>3. CASE Rollback(r)
      BY <2>3, VanishStep, PodValue DEF Rollback, afscp
    <2>4. QED
      BY <1>2, <2>1, <2>2, <2>3 DEF PutStep
  <1>3. ASSUME NEW r \in Req, StartDelete(r) \/ DeleteStep(r)
        PROVE  [MountOrder!Next]_(MountOrder!vars)
    <2>1. CASE Release(r)
      BY <2>1, ReleaseStep DEF Release, k8s
    <2>2. CASE ReportReleased(r)
      <3>1. CASE AcceptStatus(r)
        BY <2>2, <3>1, ReportStep DEF ReportReleased, AcceptStatus, k8s
      <3>2. CASE ~AcceptStatus(r)
        <4>1. Idles
          BY <2>2, <3>2 DEF ReportReleased, k8s, Idles
        <4>2. QED
          BY <4>1, IdlesStutters
      <3>3. QED
        BY <3>1, <3>2
    <2>3. CASE RemovePod(r)
      <3>1. Idles
        BY <1>0, <2>3 DEF RemovePod, afscp, Idles, Pod
      <3>2. QED
        BY <3>1, IdlesStutters
    <2>4. CASE Flush(r)
      <3>1. Idles
        BY <2>4 DEF Flush, k8s, afscp, Idles
      <3>2. QED
        BY <3>1, IdlesStutters
    <2>5. CASE \/ StartDelete(r) \/ Lock(r) \/ LoadFact(r) \/ ConfirmTerminal(r) \/ LookAtPod(r)
               \/ SaveGet(r) \/ SaveWrite(r) \/ AwaitPodGone(r)
      <3>1. Idles
        BY <2>5 DEF StartDelete, Lock, LoadFact, ConfirmTerminal, LookAtPod, SaveGet, SaveWrite,
           AwaitPodGone, k8s, afscp, Idles
      <3>2. QED
        BY <3>1, IdlesStutters
    <2>6. QED
      BY <1>3, <2>1, <2>2, <2>3, <2>4, <2>5 DEF DeleteStep, DeleteCall
  <1>4. ASSUME NEW r \in Req, Fail(r)
        PROVE  [MountOrder!Next]_(MountOrder!vars)
    <2>1. Idles
      BY <1>4 DEF Fail, k8s, afscp, Idles
    <2>2. QED
      BY <2>1, IdlesStutters
  <1>5. ASSUME NEW r \in Req, LostAnswer(r)
        PROVE  [MountOrder!Next]_(MountOrder!vars)
    <2>1. CASE pc[r] = "create"
      BY <1>0, <1>5, <2>1, LaunchStep DEF LostAnswer, afscp
    <2>2. CASE pc[r] = "putWrite"
      <3>1. Idles
        BY <1>5, <2>2 DEF LostAnswer, k8s, afscp, Idles
      <3>2. QED
        BY <3>1, IdlesStutters
    <2>3. CASE pc[r] = "release"
      BY <1>5, <2>3, ReleaseStep DEF LostAnswer, k8s
    <2>4. CASE pc[r] = "status"
      BY <1>5, <2>4, ReportStep DEF LostAnswer, AcceptStatus, k8s
    <2>5. QED
      BY <1>5, <2>1, <2>2, <2>3, <2>4 DEF LostAnswer
  <1>6. ASSUME NEW p \in Replica, Crash(p)
        PROVE  [MountOrder!Next]_(MountOrder!vars)
    <2>1. Idles
      BY <1>6 DEF Crash, k8s, afscp, Idles
    <2>2. QED
      BY <2>1, IdlesStutters
  <1>7. CASE PodStarts \/ PodExits
    <2>1. Idles
      BY <1>0, <1>7 DEF PodStarts, PodExits, afscp, Idles, Pod
    <2>2. QED
      BY <2>1, IdlesStutters
  <1>8. CASE PodGone \/ PodEvicted
    <2>1. pod'.uid = 0 /\ UNCHANGED <<born, released, reported>>
      BY <1>8, PodValue DEF PodGone, PodEvicted, afscp
    <2>2. QED
      BY <2>1, VanishStep
  <1>9. QED
    BY <1>1, <1>2, <1>3, <1>4, <1>5, <1>6, <1>7, <1>8 DEF Next, Kubernetes

(* AFSCP is told about every Pod's mount in the order MountRelease allows, *)
(* if the uid is among the bytes the release's key keeps.                  *)
THEOREM ReleasesInOrder ==
  ASSUME "release" \in KeyedByUid
  PROVE  Spec => ImplementsMountRelease
  <1>0. ReleaseKeyed
    BY DEF ReleaseKeyed
  <1>1. Init => MountOrder!Init
    BY DEF Init, MountOrder!Init, NoPod
  <1>2. FactInv /\ [Next]_vars => [MountOrder!Next]_(MountOrder!vars)
    BY <1>0, StepRefines
  <1>3. QED
    BY <1>1, <1>2, Invariance, PTL DEF Spec, ImplementsMountRelease, MountOrder!Spec

-----------------------------------------------------------------------------
(* The delete lock.                                                        *)

(* What a mutex per process allows.                                        *)
MutexStep ==
  \/ holder' = holder
  \/ \E r \in Req, p \in Replica :
       \/ holder[p] = NoReq /\ holder' = [holder EXCEPT ![p] = r]
       \/ holder[p] = r /\ holder' = [holder EXCEPT ![p] = NoReq]

LEMMA SectionIsHolder ==
  ASSUME TypeOK, SectionInv
  PROVE  Section = holder
  <1>1. ASSUME NEW p \in Replica PROVE Section[p] = holder[p]
    <2>1. CASE holder[p] = NoReq
      <3>1. InsideOf(p) = {}
        BY <2>1, ReqAssumption DEF SectionInv, InsideOf
      <3>2. QED
        BY <2>1, <3>1 DEF Section
    <2>2. CASE holder[p] # NoReq
      <3>1. holder[p] \in Req
        BY <2>2 DEF TypeOK
      <3>2. InsideOf(p) = {holder[p]}
        BY <3>1 DEF SectionInv, InsideOf
      <3>3. (CHOOSE r \in InsideOf(p) : TRUE) = holder[p]
        BY <3>2
      <3>4. QED
        BY <3>2, <3>3 DEF Section
    <2>3. QED
      BY <2>1, <2>2
  <1>2. QED
    BY <1>1 DEF Section, TypeOK

(* A step of r that neither takes nor frees the lock, nor enters or leaves *)
(* the section.                                                            *)
Passes(r) == /\ holder' = holder
             /\ \A q \in Req \ {r} : pc'[q] = pc[q]
             /\ Inside(r)' = Inside(r)

LEMMA PassesSection ==
  ASSUME SectionInv, NEW r \in Req, Passes(r)
  PROVE  SectionInv' /\ MutexStep
  BY DEF SectionInv, InsideOf, Inside, Passes, MutexStep

LEMMA GotoPasses ==
  ASSUME TypeOK, NEW r \in Req, NEW l, Goto(r, l),
         Inside(r) <=> l \in DeletePcs \ {"lock"}
  PROVE  Passes(r)
  <1>1. pc'[r] = l /\ \A q \in Req \ {r} : pc'[q] = pc[q]
    BY DEF TypeOK, Goto
  <1>2. QED
    BY <1>1 DEF Goto, Passes, Inside

(* A request that ends frees the lock if it holds it.                      *)
Frees(r) == /\ pc'[r] = "idle"
            /\ \A q \in Req \ {r} : pc'[q] = pc[q]
            /\ holder' = [p \in Replica |-> IF holder[p] = r THEN NoReq ELSE holder[p]]

LEMMA FreesSection ==
  ASSUME TypeOK, SectionInv, NEW r \in Req, Frees(r)
  PROVE  SectionInv' /\ MutexStep
  <1>1. r # NoReq /\ ~Inside(r)'
    BY ReqAssumption, PcValue DEF Frees, Inside
  <1>2. SectionInv'
    BY <1>1, ReqAssumption DEF SectionInv, InsideOf, Inside, Frees
  <1>3. MutexStep
    <2>1. CASE \A p \in Replica : holder[p] # r
      <3>1. holder' = holder
        BY <2>1 DEF Frees, TypeOK
      <3>2. QED
        BY <3>1 DEF MutexStep
    <2>2. CASE \E p \in Replica : holder[p] = r
      <3>1. PICK p \in Replica : holder[p] = r
        BY <2>2
      <3>2. \A q \in Replica : holder[q] = r => q = p
        BY <3>1 DEF SectionInv, InsideOf
      <3>3. holder' = [holder EXCEPT ![p] = NoReq]
        BY <3>1, <3>2 DEF Frees, TypeOK
      <3>4. QED
        BY <3>1, <3>3 DEF MutexStep
    <2>3. QED
      BY <2>1, <2>2
  <1>4. QED
    BY <1>2, <1>3

LEMMA AnswerFrees ==
  ASSUME TypeOK, NEW r \in Req, NEW a, Answer(r, a)
  PROVE  Frees(r)
  BY DEF TypeOK, Answer, Frees

(* PUTs are never inside.                                                  *)
LEMMA PutSection ==
  ASSUME TypeOK, SectionInv, NEW r \in Req, StartPut(r) \/ PutStep(r)
  PROVE  SectionInv' /\ MutexStep
  <1>1. CASE \E a : Answer(r, a)
    BY <1>1, AnswerFrees, FreesSection
  <1>2. ~Inside(r)
    BY PcValue DEF StartPut, PutStep, ResolveMount, CreatePod, ReuseExisting, PutGet, PutWrite,
       Rollback, Idle, Inside, DeletePcs
  <1>3. CASE \E l \in PutPcs : Goto(r, l)
    BY <1>2, <1>3, GotoPasses, PassesSection DEF PutPcs, DeletePcs
  <1>4. CASE holder' = holder /\ \E l \in {"mount", "idle"} : pc' = [pc EXCEPT ![r] = l]
    <2>1. Passes(r)
      BY <1>2, <1>4 DEF TypeOK, Passes, Inside, DeletePcs
    <2>2. QED
      BY <2>1, PassesSection
  <1>5. QED
    BY <1>1, <1>3, <1>4 DEF StartPut, PutStep, ResolveMount, CreatePod, ReuseExisting, PutGet,
       PutWrite, SaveFailed, Rollback, PutPcs

LEMMA ProceedPasses ==
  ASSUME TypeOK, NEW r \in Req, Inside(r), NEW f, NEW s, NEW fl, Proceed(r, f, s, fl)
  PROVE  Passes(r)
  <1>1. PICK l : Goto(r, l) /\ l \in {"saveGet", "flush", "release", "remove", "status"}
    BY StageValue DEF Proceed
  <1>2. QED
    BY <1>1, GotoPasses DEF DeletePcs

LEMMA DeleteSection ==
  ASSUME TypeOK, SectionInv, NEW r \in Req, StartDelete(r) \/ DeleteStep(r)
  PROVE  SectionInv' /\ MutexStep
  <1>1. CASE StartDelete(r)
    <2>1. Passes(r)
      BY <1>1 DEF StartDelete, Idle, TypeOK, Passes, Inside, DeletePcs
    <2>2. QED
      BY <2>1, PassesSection
  <1>2. CASE Lock(r)
    <2>1. ReplicaOf[r] \in Replica /\ r # NoReq
      BY ReqAssumption
    <2>2. /\ holder[ReplicaOf[r]] = NoReq
          /\ holder' = [holder EXCEPT ![ReplicaOf[r]] = r]
          /\ Inside(r)' /\ \A q \in Req \ {r} : pc'[q] = pc[q]
      BY <1>2 DEF Lock, TypeOK, Inside, DeletePcs
    <2>3. MutexStep
      BY <2>1, <2>2 DEF MutexStep
    <2>4. SectionInv'
      BY <2>1, <2>2, ReqAssumption DEF SectionInv, InsideOf, Inside, TypeOK
    <2>5. QED
      BY <2>3, <2>4
  <1>3. ASSUME DeleteStep(r), ~Lock(r) PROVE Inside(r)
    BY <1>3 DEF DeleteStep, DeleteCall, LoadFact, ConfirmTerminal, LookAtPod, SaveGet, SaveWrite,
       Flush, Release, RemovePod, AwaitPodGone, ReportReleased, Inside, DeletePcs
  <1>4. CASE \E a : Answer(r, a)
    BY <1>4, AnswerFrees, FreesSection
  <1>5. CASE Inside(r) /\ \E l \in DeletePcs \ {"lock"} : Goto(r, l)
    BY <1>5, GotoPasses, PassesSection
  <1>6. CASE Inside(r) /\ \E f, s, fl : Proceed(r, f, s, fl)
    BY <1>6, ProceedPasses, PassesSection
  <1>7. CASE LoadFact(r)
    <2>1. Inside(r) /\ \E l \in {"confirm", "look", "flush", "release", "remove", "status"} : Goto(r, l)
      BY <1>7, StageValue DEF LoadFact, Inside, DeletePcs
    <2>2. QED
      BY <1>5, <2>1 DEF DeletePcs
  <1>8. CASE SaveWrite(r) /\ SaveFits(r) /\ Terminal(mem[r])
    <2>1. Inside(r) /\ ReplicaOf[r] \in Replica
      BY <1>8, ReqAssumption DEF SaveWrite, Inside, DeletePcs
    <2>2. /\ pc'[r] = "idle" /\ \A q \in Req \ {r} : pc'[q] = pc[q]
          /\ holder' = [holder EXCEPT ![ReplicaOf[r]] = NoReq]
      BY <1>8 DEF SaveWrite, SaveFits, TypeOK
    <2>3. \A p \in Replica : holder[p] = r <=> p = ReplicaOf[r]
      BY <2>1 DEF SectionInv, InsideOf
    <2>4. holder' = [p \in Replica |-> IF holder[p] = r THEN NoReq ELSE holder[p]]
      BY <2>2, <2>3 DEF TypeOK
    <2>5. QED
      BY <2>2, <2>4, FreesSection DEF Frees
  <1>9. CASE SaveWrite(r)
    BY <1>3, <1>4, <1>6, <1>8, <1>9 DEF SaveWrite, DeleteStep, DeleteCall, Lock
  <1>10. CASE LookAtPod(r)
    BY <1>3, <1>4, <1>5, <1>6, <1>10 DEF LookAtPod, DeleteStep, DeleteCall, Lock, DeletePcs
  <1>11. CASE \/ ConfirmTerminal(r) \/ SaveGet(r) \/ Flush(r) \/ Release(r) \/ RemovePod(r)
              \/ AwaitPodGone(r) \/ ReportReleased(r)
    BY <1>4, <1>5, <1>11 DEF ConfirmTerminal, SaveGet, Flush, Release, RemovePod, AwaitPodGone,
       ReportReleased, Inside, DeletePcs
  <1>12. QED
    BY <1>1, <1>2, <1>7, <1>9, <1>10, <1>11 DEF DeleteStep, DeleteCall

LEMMA FaultSection ==
  ASSUME TypeOK, SectionInv, NEW r \in Req, Fail(r) \/ LostAnswer(r)
  PROVE  SectionInv' /\ MutexStep
  <1>1. CASE \E a : Answer(r, a)
    BY <1>1, AnswerFrees, FreesSection
  <1>2. CASE pc[r] \in {"putGet", "putWrite"} /\ Goto(r, "rollback")
    BY <1>2, GotoPasses, PassesSection DEF Inside, DeletePcs
  <1>3. QED
    BY <1>1, <1>2 DEF Fail, SaveFailed, LostAnswer

(* A process that dies loses its section with its lock.                    *)
LEMMA CrashSection ==
  ASSUME TypeOK, SectionInv, NEW p \in Replica, Crash(p)
  PROVE  SectionInv' /\ MutexStep
  <1>1. /\ holder' = [holder EXCEPT ![p] = NoReq]
        /\ \A r \in Req : pc'[r] = IF ReplicaOf[r] = p THEN "idle" ELSE pc[r]
    BY DEF Crash
  <1>2. SectionInv'
    BY <1>1, ReqAssumption, PcValue DEF SectionInv, InsideOf, Inside, TypeOK
  <1>3. CASE holder[p] = NoReq
    <2>1. holder' = holder
      BY <1>1, <1>3 DEF TypeOK
    <2>2. QED
      BY <1>2, <2>1 DEF MutexStep
  <1>4. CASE holder[p] \in Req
    BY <1>1, <1>2, <1>4 DEF MutexStep
  <1>5. QED
    BY <1>3, <1>4 DEF TypeOK

LEMMA SectionNext ==
  ASSUME TypeOK, SectionInv, [Next]_vars
  PROVE  SectionInv' /\ MutexStep
  <1>1. CASE UNCHANGED vars \/ Kubernetes
    <2>1. UNCHANGED <<pc, holder>>
      BY <1>1 DEF vars, Kubernetes, PodStarts, PodExits, PodGone, PodEvicted, locals
    <2>2. QED
      BY <2>1 DEF SectionInv, InsideOf, Inside, MutexStep
  <1>2. QED
    BY <1>1, PutSection, DeleteSection, FaultSection, CrashSection DEF Next

LEMMA SectionInit == Init => SectionInv
  BY ReqAssumption, PcValue DEF Init, SectionInv, InsideOf, Inside

(* The lock is held by exactly the requests that are past it.              *)
THEOREM SectionInvariance == Spec => []SectionInv
  <1>1. TypeOK /\ SectionInv /\ [Next]_vars => SectionInv'
    BY SectionNext
  <1>2. QED
    BY SectionInit, <1>1, TypeCorrect, PTL DEF Spec

(* For any number of requests and processes, the DELETEs of one process    *)
(* exclude each other, from their load of the fact to their answer.        *)
THEOREM DeletesExclude == Spec => ImplementsDeleteMutex
  <1>1. Init => DeleteMutex!Init
    <2>1. Init => Section = holder
      BY SectionInit, InitType, SectionIsHolder
    <2>2. QED
      BY <2>1 DEF Init, DeleteMutex!Init
  <1>2. TypeOK /\ SectionInv => Section = holder
    BY SectionIsHolder
  <1>3. TypeOK /\ SectionInv /\ Section = holder /\ (Section = holder)' /\ [Next]_vars
          => [DeleteMutex!Next]_Section
    <2>1. TypeOK /\ SectionInv /\ [Next]_vars => MutexStep
      BY SectionNext
    <2>2. Section = holder /\ (Section = holder)' /\ MutexStep => [DeleteMutex!Next]_Section
      BY DEF MutexStep, DeleteMutex!Next, DeleteMutex!Enter, DeleteMutex!Leave
    <2>3. QED
      BY <2>1, <2>2
  <1>4. QED
    BY <1>1, <1>2, <1>3, TypeCorrect, SectionInvariance, PTL
       DEF Spec, ImplementsDeleteMutex, DeleteMutex!Spec
=============================================================================
