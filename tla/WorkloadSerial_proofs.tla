------------------------ MODULE WorkloadSerial_proofs ------------------------
(***************************************************************************)
(* What PUTs that run beside no other request (PutsAlone), and do not end  *)
(* with a Pod the stored fact does not name (PutsSettle), buy a workload,  *)
(* for any number of requests and processes and whatever fails or crashes  *)
(* otherwise: a live Pod is the one its fact is about and, if the keys of  *)
(* the AFSCP mutations reach its uid, it is removed only after its release *)
(* and its released status is never refused as a conflict.  With one       *)
(* DELETE past the lock at a time (OneInside), which one process sees to   *)
(* by its lock (OneServer), no DELETE takes back another's progress and    *)
(* "deleted" means closed.  PUTs whose calls do not fail settle            *)
(* (CompletePutsSettle).                                                   *)
(***************************************************************************)
EXTENDS WorkloadSession_proofs

USE DEF NewPod, Drift, Confirmed, SameKey, Kept

-----------------------------------------------------------------------------
(* Who may run beside whom.                                                *)
NobodyPuts == \A q \in Req : pc[q] \notin PutPcs

LEMMA DeleteMeansNobodyPuts ==
  ASSUME SerialInv, NEW r \in Req, pc[r] \in DeletePcs
  PROVE  NobodyPuts
  <1>1. ASSUME NEW q \in Req, pc[q] \in PutPcs PROVE FALSE
    <2>1. q # r /\ ~Idle(r)
      BY <1>1, PcValue DEF PutPcs, DeletePcs, Idle
    <2>2. QED
      BY <1>1, <2>1 DEF SerialInv, PutTurn
  <1>2. QED
    BY <1>1 DEF NobodyPuts

LEMMA PutMeansAlone ==
  ASSUME SerialInv, NEW r \in Req, pc[r] \in PutPcs
  PROVE  \A q \in Req \ {r} : Idle(q)
  BY DEF SerialInv, PutTurn

(* Facts about the types, as numbers and records.                          *)
LEMMA Shapes ==
  ASSUME FactInv
  PROVE  /\ pod \in Pod /\ pod.uid \in Nat /\ pod.terminating \in BOOLEAN /\ born \in Nat
         /\ pod.uid <= born
         /\ fact \in Fact /\ fact.uid \in Nat /\ fact.stamp \in Nat
         /\ pc \in [Req -> Pcs] /\ mem \in [Req -> Fact] /\ seen \in [Req -> Sight]
         /\ base \in [Req -> Bases] /\ out \in [Req -> Answers]
         /\ synced \in [Req -> BOOLEAN]
         /\ holder \in [Replica -> Req \cup {NoReq}]
         /\ reported \subseteq [uid : Nat, stamp : Nat]
         /\ \A r \in Req : mem[r] \in Fact
  BY DEF FactInv, TypeOK, Pod, Fact

-----------------------------------------------------------------------------
(* What a step leaves alone stays as SerialInv says.                       *)
KeepsFact == fact'.uid = fact.uid /\ fact'.stamp = fact.stamp

KeepsPod == /\ pod'.uid \in {0, pod.uid}
            /\ pod'.terminating => pod.terminating /\ pod'.uid = pod.uid
            /\ born' = born
            /\ released \subseteq released'

LEMMA ReleaseStays ==
  ASSUME RemovalConfirmed, KeepsPod
  PROVE  RemovalConfirmed'
  BY DEF RemovalConfirmed, KeepsPod

LEMMA ReportsStay ==
  ASSUME ReportsAgree, KeepsFact, reported' = reported, born' = born,
         pod'.uid \in {0, pod.uid}, born \in Nat
  PROVE  ReportsAgree'
  BY DEF ReportsAgree, KeepsFact

(* A step of a DELETE.                                                     *)
LEMMA DeleteKeeps ==
  ASSUME SerialInv, FactInv', NEW r \in Req, NobodyPuts, Others(r), pc'[r] \notin PutPcs,
         pod'.uid \in {0, pod.uid}, KeepsFact,
         DeleteTurn(r)', RemovalConfirmed', ReportsAgree'
  PROVE  SerialInv'
  <1>1. Tracked'
    BY DEF SerialInv, NobodyPuts, Tracked, KeepsFact
  <1>2. ASSUME NEW q \in Req PROVE PutTurn(q)'
    <2>1. pc'[q] \notin PutPcs
      BY DEF NobodyPuts, Others
    <2>2. QED
      BY <2>1 DEF PutTurn
  <1>3. ASSUME NEW q \in Req PROVE DeleteTurn(q)'
    <2>1. CASE q = r
      BY <2>1
    <2>2. CASE q # r
      BY <2>2 DEF SerialInv, DeleteTurn, Others, KeepsFact
    <2>3. QED
      BY <2>1, <2>2
  <1>4. QED
    BY <1>1, <1>2, <1>3 DEF SerialInv

(* A step of a PUT, and the start of one.                                  *)
LEMMA PutKeeps ==
  ASSUME SerialInv, FactInv', NEW r \in Req, \A q \in Req \ {r} : Idle(q), Others(r),
         PutTurn(r)', DeleteTurn(r)', pc'[r] \notin PutPcs => Tracked',
         RemovalConfirmed', ReportsAgree'
  PROVE  SerialInv'
  <1>1. ASSUME NEW q \in Req PROVE PutTurn(q)' /\ DeleteTurn(q)'
    <2>1. CASE q = r
      BY <2>1
    <2>2. CASE q # r
      <3>1. pc'[q] = "idle"
        BY <2>2 DEF Others, Idle
      <3>2. QED
        BY <3>1, PcValue DEF PutTurn, DeleteTurn, Loaded, AfterLook
    <2>3. QED
      BY <2>1, <2>2
  <1>2. QED
    BY <1>1 DEF SerialInv

(* A request that is idle has no turn to keep.                             *)
LEMMA IdleTurns ==
  ASSUME NEW r \in Req, pc'[r] = "idle"
  PROVE  PutTurn(r)' /\ DeleteTurn(r)'
  BY PcValue DEF PutTurn, DeleteTurn, Loaded, AfterLook

-----------------------------------------------------------------------------
(* PUT.                                                                    *)
LEMMA CalmKeeps ==
  ASSUME SerialInv, Calm, fact' = fact
  PROVE  KeepsFact /\ RemovalConfirmed' /\ ReportsAgree'
  <1>1. KeepsFact /\ KeepsPod
    BY Shapes DEF SerialInv, Calm, KeepsFact, KeepsPod
  <1>2. QED
    BY <1>1, ReleaseStays, ReportsStay, Shapes DEF SerialInv, Calm

LEMMA StartPutSerial ==
  ASSUME SerialInv, PutsAlone, FactInv', NEW r \in Req, StartPut(r)
  PROVE  SerialInv'
  <1>0. FactInv /\ \A q \in Req : Idle(q)
    BY DEF SerialInv, StartPut, PutsAlone
  <1>1. Calm /\ fact' = fact /\ mem' = mem /\ base' = base /\ Others(r) /\ pc'[r] = "mount"
    BY <1>0, Shapes DEF StartPut, Calm, Others, k8s, store, afscp
  <1>2. Tracked /\ Tracked'
    BY <1>0, <1>1, PcValue DEF SerialInv, Tracked, Calm, Idle
  <1>3. \A q \in Req \ {r} : Idle(q)'
    BY <1>0, <1>1 DEF Others, Idle
  <1>4. base'[r] # "stale"
    BY <1>0, <1>1 DEF FactInv, TypeOK, IdleIsClean, Idle
  <1>5. PutTurn(r)' /\ DeleteTurn(r)'
    BY <1>1, <1>2, <1>3, <1>4 DEF PutTurn, DeleteTurn, Loaded, AfterLook
  <1>6. QED
    BY <1>0, <1>1, <1>2, <1>5, CalmKeeps, PutKeeps

LEMMA PutSerial ==
  ASSUME SerialInv, FactInv', NEW r \in Req, PutStep(r)
  PROVE  SerialInv'
  <1>0. /\ FactInv /\ pc[r] \in PutPcs /\ \A q \in Req \ {r} : Idle(q)
        /\ PutTurn(r) /\ base[r] # "stale"
    <2>1. pc[r] \in PutPcs
      BY PcValue DEF PutStep, ResolveMount, CreatePod, ReuseExisting, PutGet, PutWrite, Rollback
    <2>2. QED
      BY <2>1, PutMeansAlone DEF SerialInv, PutTurn
  <1>a. ASSUME Others(r) PROVE \A q \in Req \ {r} : Idle(q)'
    BY <1>0, <1>a DEF Others, Idle
  <1>b. ASSUME NEW a, Answer(r, a), Calm, fact' = fact, Tracked
        PROVE  SerialInv'
    <2>1. pc'[r] = "idle" /\ Others(r)
      BY <1>0, <1>b, Shapes DEF Answer, Others
    <2>2. Tracked'
      BY <1>b DEF Calm, Tracked
    <2>3. QED
      BY <1>0, <1>b, <2>1, <2>2, CalmKeeps, IdleTurns, PutKeeps
  <1>1. CASE ResolveMount(r)
    <2>1. Calm /\ fact' = fact /\ Tracked
      BY <1>0, <1>1 DEF ResolveMount, Calm, k8s, store, afscp, PutTurn
    <2>2. CASE Answer(r, "refused")
      BY <1>b, <2>1, <2>2
    <2>3. CASE Goto(r, "create") /\ UNCHANGED <<mem, seen, synced, base>>
      <3>1. Others(r) /\ pc'[r] = "create" /\ base' = base
        BY <1>0, <2>3, Shapes DEF Goto, Others
      <3>2. PutTurn(r)' /\ DeleteTurn(r)'
        BY <1>0, <1>a, <2>1, <3>1 DEF PutTurn, DeleteTurn, Loaded, AfterLook, Tracked, Calm
      <3>3. QED
        BY <1>0, <2>1, <3>1, <3>2, CalmKeeps, PutKeeps DEF PutPcs
    <2>4. QED
      BY <1>1, <2>2, <2>3 DEF ResolveMount
  <1>2. CASE CreatePod(r)
    <2>1. CASE pod.uid # 0
      <3>1. /\ Calm /\ fact' = fact /\ mem' = mem /\ base' = base
            /\ Others(r) /\ pc'[r] = "existing"
        BY <1>0, <1>2, <2>1, Shapes DEF CreatePod, Goto, Others, Calm, store, afscp
      <3>2. PutTurn(r)' /\ DeleteTurn(r)'
        BY <1>0, <1>2, <1>a, <3>1 DEF CreatePod, PutTurn, DeleteTurn, Loaded, AfterLook, Tracked, Calm
      <3>3. QED
        BY <1>0, <3>1, <3>2, CalmKeeps, PutKeeps DEF PutPcs
    <2>2. CASE pod.uid = 0
      <3>1. /\ pod' = [NoPod EXCEPT !.uid = born + 1] /\ born' = born + 1
            /\ fact' = fact /\ released' = released /\ reported' = reported /\ base' = base
            /\ mem'[r] = FreshFact(born + 1, 0) /\ Others(r) /\ pc'[r] = "putGet"
        BY <1>0, <1>2, <2>2, Shapes DEF CreatePod, Goto, Others, store, afscp
      <3>2. pod'.uid = born + 1 /\ pod'.terminating = FALSE /\ mem'[r].uid = born + 1
        BY <3>1 DEF NoPod, FreshFact
      <3>3. \A x \in reported' : x.uid \in 1..born' /\ x.uid # born + 1
        BY <1>0, <3>1, Shapes DEF SerialInv, ReportsAgree
      <3>4. ReportsAgree'
        BY <3>1, <3>2, <3>3 DEF SerialInv, ReportsAgree
      <3>5. PutTurn(r)' /\ DeleteTurn(r)'
        BY <1>0, <1>a, <3>1, <3>2, <3>3 DEF PutTurn, DeleteTurn, Loaded, AfterLook
      <3>6. RemovalConfirmed'
        BY <3>2 DEF RemovalConfirmed
      <3>7. QED
        BY <1>0, <3>1, <3>4, <3>5, <3>6, PutKeeps DEF PutPcs
    <2>3. QED
      BY <2>1, <2>2
  <1>3. CASE ReuseExisting(r)
    <2>1. Calm /\ fact' = fact /\ Tracked
      BY <1>0, <1>3 DEF ReuseExisting, Calm, k8s, store, afscp, PutTurn
    <2>2. CASE Answer(r, "conflict") \/ Answer(r, "error")
      BY <1>b, <2>1, <2>2
    <2>3. CASE ~(Answer(r, "conflict") \/ Answer(r, "error"))
      <3>1. /\ mem'[r] = FreshFact(pod.uid, 0) /\ base' = base
            /\ Others(r) /\ pc'[r] = "putGet"
        BY <1>0, <1>3, <2>3, Shapes DEF ReuseExisting, Goto, Others
      <3>2. mem'[r].uid = pod.uid
        BY <3>1 DEF FreshFact
      <3>3. \A x \in reported' : x.uid # pod.uid
        BY <2>1 DEF SerialInv, ReportsAgree, Calm
      <3>4. PutTurn(r)' /\ DeleteTurn(r)'
        BY <1>0, <1>a, <2>1, <3>1, <3>2, <3>3 DEF PutTurn, DeleteTurn, Loaded, AfterLook, Calm
      <3>5. QED
        BY <1>0, <2>1, <3>1, <3>4, CalmKeeps, PutKeeps DEF PutPcs
    <2>4. QED
      BY <2>2, <2>3
  <1>4. CASE PutGet(r)
    <2>1. Calm /\ fact' = fact
      BY <1>4 DEF PutGet, Calm, k8s, afscp
    <2>2. /\ mem'[r] = [mem[r] EXCEPT !.stamp = clock + 1] /\ Others(r) /\ pc'[r] = "putWrite"
          /\ base'[r] # "stale"
      BY <1>0, <1>4, Shapes DEF PutGet, Goto, Others, ReadBase
    <2>3. mem'[r].uid = mem[r].uid
      BY <1>0, <2>2, Shapes DEF Fact
    <2>4. PutTurn(r)' /\ DeleteTurn(r)'
      BY <1>0, <1>4, <1>a, <2>1, <2>2, <2>3 DEF PutGet, PutTurn, DeleteTurn, Loaded, AfterLook, Calm
    <2>5. QED
      BY <1>0, <2>1, <2>2, <2>4, CalmKeeps, PutKeeps DEF PutPcs
  <1>5. CASE PutWrite(r)
    <2>1. /\ pc'[r] = "idle" /\ Others(r) /\ fact' = mem[r] /\ Calm
      BY <1>0, <1>5, Shapes DEF PutWrite, SaveFits, Store, Others, Calm, k8s, afscp
    <2>2. pod.uid \in {0, mem[r].uid} /\ \A x \in reported : x.uid # mem[r].uid
      BY <1>0, <1>5 DEF PutWrite, PutTurn
    <2>3. Tracked'
      BY <2>1, <2>2 DEF Tracked, Calm
    <2>4. ReportsAgree'
      BY <2>1, <2>2 DEF SerialInv, ReportsAgree, Calm
    <2>5. RemovalConfirmed'
      BY <2>1 DEF SerialInv, RemovalConfirmed, Calm
    <2>6. QED
      BY <1>0, <2>1, <2>3, <2>4, <2>5, IdleTurns, PutKeeps
  <1>6. CASE Rollback(r)
    <2>1. /\ pc'[r] = "idle" /\ Others(r) /\ pod' = NoPod
          /\ UNCHANGED <<born, fact, released, reported>>
      BY <1>0, <1>6, Shapes DEF Rollback, Answer, Others, store, afscp
    <2>2. pod'.uid = 0 /\ pod'.terminating = FALSE
      BY <2>1 DEF NoPod
    <2>3. KeepsFact /\ KeepsPod /\ Tracked'
      BY <2>1, <2>2 DEF KeepsFact, KeepsPod, Tracked
    <2>4. QED
      BY <1>0, <2>1, <2>2, <2>3, IdleTurns, PutKeeps, ReleaseStays, ReportsStay, Shapes
      DEF SerialInv
  <1>7. QED
    BY <1>1, <1>2, <1>3, <1>4, <1>5, <1>6 DEF PutStep

-----------------------------------------------------------------------------
(* DELETE.                                                                 *)
LEMMA StartDeleteSerial ==
  ASSUME SerialInv, PutsAlone, FactInv', NEW r \in Req, StartDelete(r)
  PROVE  SerialInv'
  <1>0. FactInv /\ NobodyPuts
    BY DEF SerialInv, StartDelete, PutsAlone, NobodyPuts
  <1>1. Calm /\ fact' = fact /\ Others(r) /\ pc'[r] = "lock"
    BY <1>0, Shapes DEF StartDelete, Calm, Others, k8s, store, afscp
  <1>2. DeleteTurn(r)' /\ pc'[r] \notin PutPcs
    BY <1>1 DEF DeleteTurn, Loaded, AfterLook, PutPcs
  <1>3. QED
    BY <1>0, <1>1, <1>2, CalmKeeps, DeleteKeeps, Shapes DEF Calm

(* A DELETE's step with a copy of the fact of the same Pod and stamp.      *)
SameFact(f) == f.uid = fact.uid /\ f.stamp = fact.stamp

LEMMA ProceedSerial ==
  ASSUME FactInv, NEW r \in Req, NEW f \in Fact, NEW s, NEW fl, Proceed(r, f, s, fl),
         \A q \in Req \ {r} : seen'[q] = seen[q], SameFact(f), KeepsFact
  PROVE  DeleteTurn(r)' /\ pc'[r] \notin PutPcs /\ Others(r)
  <1>1. CASE f.rel /\ ~f.del /\ s.uid = 0
    <2>1. mem'[r] = [f EXCEPT !.del = TRUE] /\ pc'[r] = "saveGet" /\ Others(r)
      BY <1>1, Shapes DEF Proceed, Goto, Others
    <2>2. mem'[r].uid = f.uid /\ mem'[r].stamp = f.stamp
      BY <2>1 DEF Fact
    <2>3. QED
      BY <2>1, <2>2 DEF DeleteTurn, SameFact, KeepsFact, PutPcs
  <1>2. CASE ~(f.rel /\ ~f.del /\ s.uid = 0)
    <2>1. mem'[r] = f /\ pc'[r] = StageAt(f, s, fl) /\ Others(r)
      BY <1>2, Shapes DEF Proceed, Goto, Others
    <2>2. pc'[r] \in {"remove", "wait"} => f.rel
      BY <2>1 DEF StageAt
    <2>3. pc'[r] \notin PutPcs
      BY <2>1, StageValue DEF PutPcs
    <2>4. QED
      BY <2>1, <2>2, <2>3 DEF DeleteTurn, SameFact, KeepsFact
  <1>3. QED
    BY <1>1, <1>2

(* What a DELETE knows once it has loaded the fact.                        *)
LEMMA LoadedKnows ==
  ASSUME SerialInv, NEW r \in Req, pc[r] \in Loaded
  PROVE  SameFact(mem[r]) /\ mem[r] \in Fact /\ NobodyPuts /\ Tracked
  <1>1. pc[r] \in DeletePcs
    BY DEF Loaded, AfterLook, DeletePcs
  <1>2. NobodyPuts
    BY <1>1, DeleteMeansNobodyPuts
  <1>3. QED
    BY <1>2, Shapes DEF SerialInv, DeleteTurn, SameFact, NobodyPuts

(* AFSCP accepts a status under the observed_at of the fact.               *)
LEMMA ReportSerial ==
  ASSUME SerialInv, NEW r \in Req, pc[r] = "status",
         reported' = reported \cup {[uid |-> mem[r].uid, stamp |-> mem[r].stamp]},
         UNCHANGED <<pod, born, fact>>
  PROVE  ReportsAgree'
  <1>0. /\ FactInv /\ SameFact(mem[r]) /\ mem[r].uid \in 1..born /\ mem[r].uid # pod.uid
    <2>1. FactInv /\ SameFact(mem[r]) /\ mem[r].uid # 0 /\ mem[r].uid # pod.uid
      BY LoadedKnows DEF SerialInv, Loaded, AfterLook, FactInv, CopySound, Sound, Backed
    <2>2. mem[r].uid <= born /\ mem[r].uid \in Nat /\ born \in Nat
      BY <2>1, Shapes DEF FactInv, CopySound, Sound, Backed, Fact
    <2>3. QED
      BY <2>1, <2>2
  <1>1. PICK e : e = [uid |-> mem[r].uid, stamp |-> mem[r].stamp]
    OBVIOUS
  <1>2. e.uid = fact.uid /\ e.stamp = fact.stamp /\ e.uid \in 1..born /\ e.uid # pod.uid
    BY <1>0, <1>1 DEF SameFact
  <1>3. reported' = reported \cup {e}
    BY <1>1
  <1>4. QED
    BY <1>2, <1>3 DEF SerialInv, ReportsAgree

LEMMA DeleteAnswers ==
  ASSUME SerialInv, FactInv', NEW r \in Req, pc[r] \in DeletePcs, NEW a, Answer(r, a),
         Calm, fact' = fact
  PROVE  SerialInv'
  <1>1. FactInv /\ pc'[r] = "idle" /\ Others(r) /\ NobodyPuts
    BY Shapes, DeleteMeansNobodyPuts DEF SerialInv, Answer, Others
  <1>2. QED
    BY <1>1, CalmKeeps, DeleteKeeps, IdleTurns, PcValue, Shapes DEF Calm

LEMMA DeleteSerial ==
  ASSUME SerialInv, FactInv', NEW r \in Req, DeleteStep(r)
  PROVE  SerialInv'
  <1>0. FactInv /\ pc[r] \in DeletePcs /\ NobodyPuts /\ mem[r] \in Fact
    <2>1. pc[r] \in DeletePcs
      BY PcValue DEF DeleteStep, DeleteCall, Lock, LoadFact, ConfirmTerminal, LookAtPod, SaveGet,
         SaveWrite, Flush, Release, RemovePod, AwaitPodGone, ReportReleased
    <2>2. QED
      BY <2>1, DeleteMeansNobodyPuts, Shapes DEF SerialInv
  <1>a. pc[r] \in Loaded => SameFact(mem[r])
    BY LoadedKnows
  (* A step that leaves the shared state and the fact alone.               *)
  <1>b. ASSUME Calm, KeepsFact, Others(r), DeleteTurn(r)', pc'[r] \notin PutPcs
        PROVE  SerialInv'
    <2>1. KeepsPod /\ reported' = reported
      BY <1>0, <1>b, Shapes DEF Calm, KeepsPod
    <2>2. RemovalConfirmed' /\ ReportsAgree'
      BY <1>0, <1>b, <2>1, ReleaseStays, ReportsStay, Shapes DEF SerialInv, KeepsPod
    <2>3. QED
      BY <1>0, <1>b, <2>1, <2>2, DeleteKeeps DEF KeepsPod
  <1>1. CASE Lock(r)
    <2>1. Calm /\ KeepsFact /\ Others(r) /\ pc'[r] = "load"
      BY <1>0, <1>1, Shapes DEF Lock, Calm, KeepsFact, Others, k8s, store, afscp
    <2>2. QED
      BY <1>b, <2>1 DEF DeleteTurn, Loaded, AfterLook, PutPcs
  <1>2. CASE LoadFact(r)
    <2>1. Calm /\ KeepsFact /\ Others(r) /\ mem'[r] = fact
          /\ pc'[r] \in {"confirm", "look", StageAt(fact, NoSight, FALSE)}
      BY <1>0, <1>2, Shapes DEF LoadFact, Goto, Calm, KeepsFact, Others, k8s, store, afscp
    <2>2. pc'[r] = "remove" => fact.rel
      BY <2>1 DEF StageAt
    <2>3. pc'[r] \notin PutPcs \cup {"wait"}
      BY <2>1, StageValue DEF PutPcs
    <2>4. QED
      BY <1>b, <2>1, <2>2, <2>3 DEF DeleteTurn, KeepsFact
  <1>3. CASE ConfirmTerminal(r)
    BY <1>0, <1>3, DeleteAnswers DEF ConfirmTerminal, Calm, k8s, store, afscp
  <1>4. CASE LookAtPod(r)
    <2>1. Calm /\ KeepsFact /\ fact' = fact
      BY <1>4 DEF LookAtPod, Calm, KeepsFact, k8s, afscp
    <2>2. CASE mem[r].uid # 0
      <3>1. Proceed(r, mem[r], Sighting, FALSE) /\ \A q \in Req \ {r} : seen'[q] = seen[q]
        BY <1>0, <1>4, <2>2, Shapes DEF LookAtPod
      <3>2. SameFact(mem[r])
        BY <1>4, <1>a DEF LookAtPod, Loaded
      <3>3. QED
        BY <1>0, <1>b, <2>1, <3>1, <3>2, ProceedSerial
    <2>3. CASE mem[r].uid = 0
      (* Without a fact there is no Pod.                                   *)
      <3>1. pod.uid = 0
        BY <1>4, <2>3, LoadedKnows DEF LookAtPod, Loaded, SameFact, Tracked
      <3>2. QED
        BY <1>0, <1>4, <2>1, <2>3, <3>1, DeleteAnswers DEF LookAtPod
    <2>4. QED
      BY <2>2, <2>3
  <1>5. CASE SaveGet(r)
    <2>1. Calm /\ KeepsFact /\ Others(r) /\ pc'[r] = "saveWrite" /\ mem' = mem
      BY <1>0, <1>5, Shapes DEF SaveGet, Goto, Calm, KeepsFact, Others, k8s, store, afscp
    <2>2. SameFact(mem[r])
      BY <1>5, <1>a DEF SaveGet, Loaded, AfterLook
    <2>3. QED
      BY <1>b, <2>1, <2>2 DEF DeleteTurn, SameFact, KeepsFact, PutPcs
  <1>6. CASE SaveWrite(r)
    <2>1. Calm /\ SameFact(mem[r])
      BY <1>6, <1>a DEF SaveWrite, Calm, k8s, afscp, Loaded, AfterLook
    <2>2. CASE SaveFits(r) /\ ~Terminal(mem[r])
      <3>1. /\ Proceed(r, mem[r], seen[r], synced[r]) /\ fact' = mem[r]
            /\ \A q \in Req \ {r} : seen'[q] = seen[q]
        BY <1>6, <2>2 DEF SaveWrite, Store
      <3>2. KeepsFact
        BY <2>1, <3>1 DEF KeepsFact, SameFact
      <3>3. QED
        BY <1>0, <1>b, <2>1, <3>1, <3>2, ProceedSerial
    <2>3. CASE SaveFits(r) /\ Terminal(mem[r])
      <3>1. fact' = mem[r] /\ pc'[r] = "idle" /\ Others(r)
        BY <1>0, <1>6, <2>3, Shapes DEF SaveWrite, Store, Others
      <3>2. KeepsFact
        BY <2>1, <3>1 DEF KeepsFact, SameFact
      <3>3. QED
        BY <1>b, <2>1, <3>1, <3>2, IdleTurns, PcValue
    <2>4. CASE ~SaveFits(r)
      BY <1>0, <1>6, <2>1, <2>4, DeleteAnswers DEF SaveWrite
    <2>5. QED
      BY <2>2, <2>3, <2>4
  <1>7. CASE Flush(r)
    <2>1. Calm /\ KeepsFact /\ fact' = fact /\ SameFact(mem[r])
      BY <1>7, <1>a DEF Flush, Calm, KeepsFact, k8s, store, afscp, Loaded, AfterLook
    <2>2. CASE pod.phase = "Running"
      <3>1. /\ Others(r) /\ mem' = mem
            /\ pc'[r] = IF mem[r].rel THEN "remove" ELSE "release"
        BY <1>0, <1>7, <2>2, Shapes DEF Flush, Goto, Others
      <3>2. QED
        BY <1>b, <2>1, <3>1 DEF DeleteTurn, SameFact, PutPcs
    <2>3. CASE pod.phase # "Running"
      BY <1>0, <1>7, <2>1, <2>3, DeleteAnswers DEF Flush
    <2>4. QED
      BY <2>2, <2>3
  <1>8. CASE Release(r)
    <2>1. /\ KeepsFact /\ KeepsPod /\ reported' = reported /\ Others(r) /\ pc'[r] = "saveGet"
          /\ mem'[r] = [mem[r] EXCEPT !.rel = TRUE]
      BY <1>0, <1>8, Shapes DEF Release, ReleaseMount, Goto, KeepsFact, KeepsPod, Others, k8s, store
    <2>2. mem'[r].uid = mem[r].uid /\ mem'[r].stamp = mem[r].stamp
      BY <1>0, <2>1 DEF Fact
    <2>3. DeleteTurn(r)'
      BY <1>8, <1>a, <2>1, <2>2 DEF Release, Loaded, AfterLook, DeleteTurn, SameFact, KeepsFact
    <2>4. RemovalConfirmed' /\ ReportsAgree'
      BY <1>0, <2>1, ReleaseStays, ReportsStay, Shapes DEF SerialInv, KeepsPod
    <2>5. QED
      BY <1>0, <2>1, <2>3, <2>4, DeleteKeeps DEF KeepsPod, PutPcs
  <1>9. CASE RemovePod(r)
    <2>1. /\ KeepsFact /\ UNCHANGED <<born, released, reported>> /\ mem' = mem
          /\ Others(r) /\ pc'[r] = "wait"
      BY <1>0, <1>9, Shapes DEF RemovePod, Goto, KeepsFact, Others, store, afscp
    <2>2. pod'.uid = pod.uid /\ (pod.uid = 0 => pod' = pod)
      BY <1>0, <1>9, Shapes DEF RemovePod, Pod
    (* The Pod it removes is the one whose release it has on record.       *)
    <2>3. SameFact(mem[r]) /\ Tracked /\ mem[r].rel /\ Confirmed(mem[r].uid)
      BY <1>0, <1>9, LoadedKnows
      DEF RemovePod, Loaded, AfterLook, SerialInv, DeleteTurn, FactInv, CopySound, Sound, Backed
    <2>4. RemovalConfirmed'
      BY <2>1, <2>2, <2>3 DEF SerialInv, RemovalConfirmed, Tracked, SameFact
    <2>5. ReportsAgree'
      BY <1>0, <2>1, <2>2, ReportsStay, Shapes DEF SerialInv
    <2>6. DeleteTurn(r)'
      BY <2>1, <2>3 DEF DeleteTurn, SameFact, KeepsFact
    <2>7. QED
      BY <1>0, <2>1, <2>2, <2>4, <2>5, <2>6, DeleteKeeps DEF PutPcs
  <1>10. CASE AwaitPodGone(r)
    <2>1. Calm /\ KeepsFact /\ fact' = fact
      BY <1>10 DEF AwaitPodGone, Calm, KeepsFact, k8s, store, afscp
    <2>2. CASE pod.uid = 0
      <3>1. /\ Others(r) /\ pc'[r] = "saveGet" /\ mem'[r] = [mem[r] EXCEPT !.del = TRUE]
        BY <1>0, <1>10, <2>2, Shapes DEF AwaitPodGone, Goto, Others
      <3>2. mem'[r].uid = mem[r].uid /\ mem'[r].stamp = mem[r].stamp
        BY <1>0, <3>1 DEF Fact
      <3>3. DeleteTurn(r)'
        BY <1>10, <1>a, <2>1, <3>1, <3>2 DEF AwaitPodGone, Loaded, AfterLook, DeleteTurn, SameFact
      <3>4. QED
        BY <1>b, <2>1, <3>1, <3>3 DEF PutPcs
    <2>3. CASE pod.uid # 0
      BY <1>0, <1>10, <2>1, <2>3, DeleteAnswers DEF AwaitPodGone
    <2>4. QED
      BY <2>2, <2>3
  <1>11. CASE ReportReleased(r)
    <2>1. CASE Answer(r, "error")
      <3>1. Calm /\ fact' = fact
        BY <1>0, <1>11, <2>1, Shapes DEF ReportReleased, Goto, Answer, Calm, k8s, store
      <3>2. QED
        BY <1>0, <2>1, <3>1, DeleteAnswers
    <2>2. CASE ~Answer(r, "error")
      <3>1. /\ KeepsFact /\ KeepsPod /\ Others(r) /\ pc'[r] = "saveGet"
            /\ UNCHANGED <<pod, born, fact>>
            /\ mem'[r] = [mem[r] EXCEPT !.term = TRUE]
        BY <1>0, <1>11, <2>2, Shapes DEF ReportReleased, Goto, KeepsFact, KeepsPod, Others, k8s, store
      <3>2. mem'[r].uid = mem[r].uid /\ mem'[r].stamp = mem[r].stamp
        BY <1>0, <3>1 DEF Fact
      <3>3. DeleteTurn(r)'
        BY <1>11, <1>a, <3>1, <3>2 DEF ReportReleased, Loaded, AfterLook, DeleteTurn, SameFact
      <3>4. ReportsAgree'
        BY <1>11, <2>2, <3>1, ReportSerial DEF ReportReleased, AcceptStatus
      <3>5. QED
        BY <1>0, <3>1, <3>3, <3>4, DeleteKeeps, ReleaseStays DEF SerialInv, KeepsPod, PutPcs
    <2>3. QED
      BY <2>1, <2>2
  <1>12. QED
    BY <1>1, <1>2, <1>3, <1>4, <1>5, <1>6, <1>7, <1>8, <1>9, <1>10, <1>11 DEF DeleteStep, DeleteCall

-----------------------------------------------------------------------------
(* Faults and Kubernetes.                                                  *)
(* A PUT that ends badly has settled.                                      *)
LEMMA EndsSettled ==
  ASSUME SerialInv, Settled, FactInv', NEW r \in Req, pc[r] \in PutPcs, NEW a, Answer(r, a),
         RemovalConfirmed', ReportsAgree'
  PROVE  SerialInv'
  <1>1. FactInv /\ \A q \in Req \ {r} : Idle(q)
    BY PutMeansAlone DEF SerialInv
  <1>2. pc'[r] = "idle" /\ Others(r)
    BY <1>1, Shapes DEF Answer, Others
  <1>3. Tracked'
    BY <1>2 DEF Settled
  <1>4. QED
    BY <1>1, <1>2, <1>3, IdleTurns, PutKeeps

(* A PUT that goes to undo its create.                                     *)
LEMMA UndoSerial ==
  ASSUME SerialInv, FactInv', NEW r \in Req, pc[r] \in PutPcs, Goto(r, "rollback"),
         mem' = mem, seen' = seen, base'[r] # "stale", RemovalConfirmed', ReportsAgree'
  PROVE  SerialInv'
  <1>1. FactInv /\ \A q \in Req \ {r} : Idle(q)
    BY PutMeansAlone DEF SerialInv
  <1>2. pc'[r] = "rollback" /\ Others(r) /\ \A q \in Req \ {r} : Idle(q)'
    BY <1>1, Shapes DEF Goto, Others, Idle
  <1>3. PutTurn(r)'
    BY <1>2 DEF PutTurn, Idle
  <1>4. DeleteTurn(r)'
    BY <1>2 DEF DeleteTurn, Loaded, AfterLook
  <1>5. QED
    BY <1>1, <1>2, <1>3, <1>4, PcValue, PutKeeps

LEMMA FailSerial ==
  ASSUME SerialInv, Settled, FactInv', NEW r \in Req, Fail(r)
  PROVE  SerialInv'
  <1>0. FactInv /\ Calm /\ fact' = fact
    BY DEF SerialInv, Fail, Calm, k8s, store, afscp
  <1>1. CASE pc[r] \in PutPcs
    <2>1. RemovalConfirmed' /\ ReportsAgree' /\ base[r] # "stale"
      BY <1>0, <1>1, CalmKeeps DEF SerialInv, PutTurn
    <2>2. CASE \E a : Answer(r, a)
      BY <1>1, <2>1, <2>2, EndsSettled
    <2>3. CASE Goto(r, "rollback") /\ UNCHANGED <<mem, seen, base>>
      BY <1>1, <2>1, <2>3, UndoSerial
    <2>4. QED
      BY <2>2, <2>3 DEF Fail, SaveFailed
  <1>2. CASE pc[r] \notin PutPcs
    <2>1. pc[r] \in DeletePcs /\ pc[r] \notin {"putGet", "putWrite"}
      BY <1>0, <1>2, PcValue, Shapes DEF Fail, Pcs
    <2>2. Answer(r, "error")
      BY <2>1 DEF Fail
    <2>3. QED
      BY <1>0, <2>1, <2>2, DeleteAnswers
  <1>3. QED
    BY <1>1, <1>2

LEMMA LostAnswerSerial ==
  ASSUME SerialInv, Settled, FactInv', NEW r \in Req, LostAnswer(r)
  PROVE  SerialInv'
  <1>0. FactInv
    BY DEF SerialInv
  <1>1. CASE pc[r] = "create"
    <2>1. /\ pod' = [NoPod EXCEPT !.uid = born + 1] /\ born' = born + 1 /\ Answer(r, "error")
          /\ UNCHANGED <<fact, released, reported>>
      BY <1>1 DEF LostAnswer, afscp
    <2>2. pod'.uid = born + 1 /\ pod'.terminating = FALSE
      BY <2>1 DEF NoPod
    <2>3. \A x \in reported' : x.uid \in 1..born' /\ x.uid # born + 1
      BY <1>0, <2>1, Shapes DEF SerialInv, ReportsAgree
    <2>4. ReportsAgree' /\ RemovalConfirmed'
      BY <2>1, <2>2, <2>3 DEF SerialInv, ReportsAgree, RemovalConfirmed
    <2>5. QED
      BY <1>1, <2>1, <2>4, PcValue, EndsSettled
  <1>2. CASE pc[r] = "putWrite"
    <2>1. /\ fact' = mem[r] /\ base'[r] = "none" /\ Calm /\ mem' = mem /\ seen' = seen
          /\ Goto(r, "rollback")
      BY <1>0, <1>2 DEF LostAnswer, Store, Calm, k8s, afscp
    <2>2. \A x \in reported : x.uid # mem[r].uid
      BY <1>2, PcValue DEF SerialInv, PutTurn
    <2>3. ReportsAgree' /\ RemovalConfirmed'
      BY <2>1, <2>2 DEF SerialInv, ReportsAgree, RemovalConfirmed, Calm
    <2>4. QED
      BY <1>2, <2>1, <2>3, PcValue, UndoSerial
  <1>3. CASE pc[r] \in {"release", "status"}
    <2>1. NobodyPuts
      BY <1>3, DeleteMeansNobodyPuts, PcValue
    <2>2. Answer(r, "incomplete") /\ UNCHANGED <<pod, born, fact>> /\ released \subseteq released'
      BY <1>3 DEF LostAnswer, ReleaseMount, k8s
    <2>3. Others(r) /\ pc'[r] = "idle" /\ KeepsFact /\ KeepsPod
      BY <1>0, <2>2, Shapes DEF Answer, Others, KeepsFact, KeepsPod
    <2>4. ReportsAgree'
      <3>1. CASE pc[r] = "release"
        BY <1>0, <2>2, <2>3, <3>1, ReportsStay, Shapes DEF LostAnswer, SerialInv
      <3>2. CASE pc[r] = "status"
        BY <2>2, <3>2, ReportSerial DEF LostAnswer, AcceptStatus
      <3>3. QED
        BY <1>3, <3>1, <3>2
    <2>5. QED
      BY <2>1, <2>2, <2>3, <2>4, DeleteKeeps, IdleTurns, PcValue, ReleaseStays
      DEF SerialInv, KeepsPod
  <1>4. QED
    BY <1>1, <1>2, <1>3 DEF LostAnswer

(* A process that dies takes its DELETEs with it, or the one PUT.          *)
LEMMA CrashSerial ==
  ASSUME SerialInv, Settled, FactInv', NEW p \in Replica, Crash(p)
  PROVE  SerialInv'
  <1>0. /\ FactInv /\ Calm /\ fact' = fact
        /\ \A q \in Req : IF ReplicaOf[q] = p THEN pc'[q] = "idle"
                            ELSE pc'[q] = pc[q] /\ mem'[q] = mem[q]
    BY DEF SerialInv, Crash, Calm, k8s, store, afscp
  <1>1. CASE NobodyPuts
    <2>1. ASSUME NEW q \in Req PROVE PutTurn(q)' /\ DeleteTurn(q)'
      <3>1. CASE pc'[q] = "idle"
        BY <3>1, IdleTurns
      <3>2. CASE pc'[q] = pc[q] /\ mem'[q] = mem[q]
        BY <1>0, <1>1, <3>2 DEF SerialInv, NobodyPuts, PutTurn, DeleteTurn
      <3>3. QED
        BY <1>0, <3>1, <3>2
    <2>2. Tracked'
      BY <1>0, <1>1 DEF SerialInv, NobodyPuts, Tracked, Calm
    <2>3. QED
      BY <1>0, <2>1, <2>2, CalmKeeps DEF SerialInv
  <1>2. ASSUME NEW r \in Req, pc[r] \in PutPcs PROVE SerialInv'
    <2>1. \A q \in Req \ {r} : Idle(q)
      BY <1>2, PutMeansAlone
    <2>2. ReplicaOf[r] = p
      BY <2>1 DEF Crash
    <2>3. \A q \in Req : pc'[q] = "idle"
      BY <1>0, <2>1, <2>2 DEF Idle
    <2>4. Tracked'
      BY <1>2, <2>3 DEF Settled
    <2>5. QED
      BY <1>0, <2>3, <2>4, CalmKeeps, IdleTurns DEF SerialInv
  <1>3. QED
    BY <1>1, <1>2 DEF NobodyPuts

LEMMA PodSerial ==
  ASSUME SerialInv, FactInv', UNCHANGED vars \/ Kubernetes
  PROVE  SerialInv'
  <1>0. FactInv
    BY DEF SerialInv
  <1>1. /\ KeepsPod /\ UNCHANGED <<fact, reported, pc, mem, base>>
    <2>1. CASE UNCHANGED vars
      BY <1>0, <2>1, Shapes DEF KeepsPod, vars, k8s, store, afscp, locals
    <2>2. CASE PodStarts \/ PodExits
      BY <1>0, <2>2, Shapes DEF PodStarts, PodExits, KeepsPod, Pod, store, afscp, locals
    <2>3. CASE PodGone \/ PodEvicted
      BY <1>0, <2>3, Shapes DEF PodGone, PodEvicted, KeepsPod, NoPod, store, afscp, locals
    <2>4. QED
      BY <2>1, <2>2, <2>3 DEF Kubernetes
  <1>2. RemovalConfirmed' /\ ReportsAgree'
    BY <1>0, <1>1, ReleaseStays, ReportsStay, Shapes DEF SerialInv, KeepsPod, KeepsFact
  <1>3. Tracked => Tracked'
    BY <1>1 DEF Tracked, KeepsPod
  <1>4. ASSUME NEW q \in Req PROVE PutTurn(q)'
    BY <1>0, <1>1, <1>3, Shapes DEF SerialInv, PutTurn, KeepsPod, Idle
  <1>5. ASSUME NEW q \in Req PROVE DeleteTurn(q)'
    BY <1>1 DEF SerialInv, DeleteTurn
  <1>6. QED
    BY <1>1, <1>2, <1>3, <1>4, <1>5 DEF SerialInv

LEMMA SerialInit == Init => SerialInv
  <1> SUFFICES ASSUME Init PROVE SerialInv
    OBVIOUS
  <1>1. FactInv
    BY InitInv
  <1>2. ASSUME NEW r \in Req PROVE PutTurn(r) /\ DeleteTurn(r)
    BY DEF Init, PutTurn, DeleteTurn, PutPcs, Loaded, AfterLook
  <1>3. Tracked /\ RemovalConfirmed /\ ReportsAgree
    BY DEF Init, Tracked, RemovalConfirmed, ReportsAgree, NoPod
  <1>4. QED
    BY <1>1, <1>2, <1>3 DEF SerialInv

LEMMA SerialNext ==
  ASSUME PutsAlone, SerialInv, [Next]_vars, [Settled]_vars
  PROVE  SerialInv'
  <1>1. FactInv'
    BY NextInv DEF SerialInv
  <1>2. CASE UNCHANGED vars
    BY <1>1, <1>2, PodSerial
  <1>3. CASE Next /\ Settled
    BY <1>1, <1>3, StartPutSerial, PutSerial, StartDeleteSerial, DeleteSerial, FailSerial,
       LostAnswerSerial, CrashSerial, PodSerial
    DEF Next
  <1>4. QED
    BY <1>2, <1>3

(* The inductive invariant, for any number of processes.                   *)
THEOREM SerialInvariance == PutsAlone /\ Spec /\ PutsSettle => []SerialInv
  <1> SUFFICES ASSUME PutsAlone PROVE Spec /\ PutsSettle => []SerialInv
    OBVIOUS
  <1>1. SerialInv /\ [Next]_vars /\ [Settled]_vars => SerialInv'
    BY SerialNext
  <1>2. QED
    BY SerialInit, <1>1, PTL DEF Spec, PutsSettle

(* When no request is in flight, a live Pod is the one the stored fact is  *)
(* about, and that fact is open.                                           *)
THEOREM LivePodsAreTracked == PutsAlone /\ Spec /\ PutsSettle => []LivePodIsTracked
  <1>1. SerialInv => LivePodIsTracked
    <2> SUFFICES ASSUME SerialInv, pod.uid # 0, \A r \in Req : Idle(r)
                 PROVE  fact.uid = pod.uid /\ ~fact.del
      BY DEF LivePodIsTracked
    <2>1. Tracked
      BY PcValue DEF SerialInv, Idle
    <2>2. QED
      BY <2>1 DEF SerialInv, FactInv, Sound, Backed, Tracked
  <1>2. QED
    BY <1>1, SerialInvariance, PTL

(* Whichever process's DELETE removes a Pod, AFSCP has carried out the     *)
(* release of that very Pod before, if its key tells the Pods apart.       *)
THEOREM ReleasesComeFirst ==
  ASSUME "release" \in KeyedByUid
  PROVE  PutsAlone /\ Spec /\ PutsSettle => []ReleaseBeforeRemoval
  <1>1. SerialInv => ReleaseBeforeRemoval
    BY ConfirmedIsReleased DEF SerialInv, RemovalConfirmed, ReleaseBeforeRemoval, ReleaseKeyed
  <1>2. QED
    BY <1>1, SerialInvariance, PTL

(* No DELETE, of any process and after any crash, is about to report an    *)
(* observed_at that AFSCP refuses, if the status key tells the Pods apart. *)
THEOREM StatusNeverConflicts ==
  ASSUME "status" \in KeyedByUid
  PROVE  PutsAlone /\ Spec /\ PutsSettle => []NoStatusConflict
  <1>1. SerialInv => NoStatusConflict
    <2> SUFFICES ASSUME SerialInv, NEW r \in Req, pc[r] = "status",
                        NEW x \in reported, SameKey("status", x.uid, mem[r].uid)
                 PROVE  x.stamp = mem[r].stamp
      BY DEF NoStatusConflict, StatusConflict
    <2>1. mem[r].uid = fact.uid /\ mem[r].stamp = fact.stamp
      BY DEF SerialInv, DeleteTurn, Loaded, AfterLook
    <2>2. x.uid = fact.uid
      BY <2>1
    <2>3. QED
      BY <2>1, <2>2 DEF SerialInv, ReportsAgree
  <1>2. QED
    BY <1>1, SerialInvariance, PTL

-----------------------------------------------------------------------------
(* One process: what the delete lock adds.                                 *)
(* A DELETE inside the lock runs beside no other one, and beside no PUT.   *)
LEMMA InsideAlone ==
  ASSUME LockedInv, OneInside, NEW r \in Req, Inside(r), NEW q \in Req \ {r}
  PROVE  pc[q] \in {"idle", "lock"}
  <1>1. ~Inside(q)
    BY DEF OneInside
  <1>2. pc[q] \in Pcs /\ pc[q] \notin PutPcs
    BY DeleteMeansNobodyPuts, Shapes DEF LockedInv, SerialInv, Inside, NobodyPuts
  <1>3. QED
    BY <1>1, <1>2 DEF Inside, Pcs

(* Nobody else's answer changes.                                           *)
Silent(r) == \A q \in Req \ {r} : out'[q] = out[q]

(* A step beside requests that are idle or wait for the lock.              *)
LEMMA LockedStep ==
  ASSUME LockedInv, SerialInv', NEW r \in Req, Others(r), Silent(r), LockTurn(r)',
         \A q \in Req \ {r} : pc[q] \in {"idle", "lock"}
  PROVE  LockedInv'
  <1>1. ASSUME NEW q \in Req PROVE LockTurn(q)'
    <2>1. CASE q = r
      BY <2>1
    <2>2. CASE q # r
      <3>1. pc'[q] = pc[q] /\ out'[q] = out[q] /\ pc'[q] \in {"idle", "lock"}
        BY <2>2 DEF Others, Silent
      <3>2. QED
        BY <3>1, PcValue DEF LockedInv, LockTurn, Inside, Loaded, AfterLook, Idle
    <2>3. QED
      BY <2>1, <2>2
  <1>2. QED
    BY <1>1 DEF LockedInv

(* A step that touches neither the fact, nor the lock.                     *)
LEMMA LockedStays ==
  ASSUME LockedInv, SerialInv', NEW r \in Req, Others(r), Silent(r), LockTurn(r)',
         fact' = fact
  PROVE  LockedInv'
  <1>1. ASSUME NEW q \in Req PROVE LockTurn(q)'
    <2>1. CASE q = r
      BY <2>1
    <2>2. CASE q # r
      BY <2>2 DEF LockedInv, LockTurn, Inside, Others, Silent, Idle
    <2>3. QED
      BY <2>1, <2>2
  <1>2. QED
    BY <1>1 DEF LockedInv

LEMMA IdleLock ==
  ASSUME NEW r \in Req, pc'[r] = "idle"
  PROVE  LockTurn(r)'
  BY PcValue DEF LockTurn, Inside, Loaded, AfterLook, Idle

LEMMA AnswerLocked ==
  ASSUME FactInv, NEW r \in Req, NEW a, Answer(r, a)
  PROVE  Others(r) /\ Silent(r) /\ LockTurn(r)' /\ out'[r] = a
  BY Shapes, IdleLock DEF Answer, Others, Silent

(* A PUT's step: r's turn is empty but for its answer.                     *)
LEMMA PutLock ==
  ASSUME NEW r \in Req, pc'[r] \in PutPcs, out'[r] = "none"
  PROVE  LockTurn(r)'
  BY DEF LockTurn, Inside, Loaded, AfterLook, PutPcs, DeletePcs

LEMMA PutLocked ==
  ASSUME LockedInv, SerialInv', NEW r \in Req, PutStep(r)
  PROVE  LockedInv'
  <1>0. /\ FactInv /\ pc[r] \in PutPcs /\ \A q \in Req \ {r} : pc[q] \in {"idle", "lock"}
        /\ out[r] = "none" /\ base[r] # "stale"
    <2>1. pc[r] \in PutPcs
      BY PcValue DEF PutStep, ResolveMount, CreatePod, ReuseExisting, PutGet, PutWrite, Rollback
    <2>2. QED
      BY <2>1, PcValue, PutMeansAlone DEF LockedInv, SerialInv, LockTurn, PutTurn, Idle
  <1>1. CASE \E a : Answer(r, a)
    BY <1>0, <1>1, AnswerLocked, LockedStep
  <1>2. CASE \E l \in PutPcs : Goto(r, l)
    <2>1. PICK l \in PutPcs : Goto(r, l)
      BY <1>2
    <2>2. pc'[r] \in PutPcs /\ out' = out /\ \A q \in Req \ {r} : pc'[q] = pc[q]
      BY <1>0, <2>1, Shapes DEF Goto
    <2>3. \A q \in Req \ {r} : mem'[q] = mem[q] /\ seen'[q] = seen[q]
      BY <1>0, <1>2, Shapes DEF PutStep, ResolveMount, CreatePod, ReuseExisting, PutGet, PutWrite,
         Rollback, SaveFits, Answer, Goto
    <2>4. QED
      BY <1>0, <2>2, <2>3, LockedStep, PutLock DEF Others, Silent
  <1>3. CASE PutWrite(r)
    <2>1. Others(r) /\ Silent(r) /\ pc'[r] = "idle"
      BY <1>0, <1>3, Shapes DEF PutWrite, SaveFits, Others, Silent
    <2>2. QED
      BY <1>0, <2>1, IdleLock, LockedStep
  <1>4. QED
    BY <1>0, <1>1, <1>2, <1>3 DEF PutStep, ResolveMount, CreatePod, ReuseExisting, PutGet,
       Rollback, PutPcs

LEMMA StartsLocked ==
  ASSUME LockedInv, SerialInv', NEW r \in Req, StartPut(r) \/ StartDelete(r)
  PROVE  LockedInv'
  <1>1. /\ Others(r) /\ Silent(r) /\ fact' = fact
        /\ pc'[r] \in {"mount", "lock"} /\ out'[r] = "none"
    BY Shapes DEF LockedInv, SerialInv, StartPut, StartDelete, Others, Silent, store
  <1>2. LockTurn(r)'
    BY <1>1 DEF LockTurn, Inside, Loaded, AfterLook, DeletePcs
  <1>3. QED
    BY <1>1, <1>2, LockedStays

(* Going on from a copy that says all the stored fact says.                *)
LEMMA ProceedLocked ==
  ASSUME FactInv, NEW r \in Req, NEW f \in Fact, NEW s, NEW fl, Proceed(r, f, s, fl),
         Extends(fact', f), out[r] = "none"
  PROVE  LockTurn(r)' /\ Silent(r)
  <1>1. out' = out
    BY DEF Proceed, Goto
  <1>2. CASE f.rel /\ ~f.del /\ s.uid = 0
    <2>1. mem'[r] = [f EXCEPT !.del = TRUE] /\ pc'[r] = "saveGet"
      BY <1>2, Shapes DEF Proceed, Goto
    <2>2. mem'[r].rel = f.rel /\ mem'[r].del = TRUE /\ mem'[r].term = f.term
      BY <2>1 DEF Fact
    <2>3. Extends(fact', mem'[r])
      BY <2>2 DEF Extends
    <2>4. QED
      BY <1>1, <2>1, <2>3 DEF LockTurn, Silent, Idle
  <1>3. CASE ~(f.rel /\ ~f.del /\ s.uid = 0)
    <2>1. mem'[r] = f /\ pc'[r] = StageAt(f, s, fl)
      BY <1>3, Shapes DEF Proceed, Goto
    <2>2. pc'[r] \in {"flush", "release", "remove", "status"}
      BY <2>1, StageValue
    <2>3. QED
      BY <1>1, <2>1, <2>2 DEF LockTurn, Silent, Idle
  <1>4. QED
    BY <1>2, <1>3

(* A step of the DELETE inside the lock that leaves the fact alone and     *)
(* adds at most a flag to its copy.                                        *)
LEMMA AheadLocked ==
  ASSUME LockedInv, OneInside, SerialInv', NEW r \in Req, Inside(r), pc[r] \in Loaded,
         NEW l, l # "confirm", Goto(r, l), NEW m, mem'[r] = m, Extends(mem[r], m), Others(r),
         fact' = fact
  PROVE  LockedInv'
  <1>1. /\ pc'[r] = l /\ Silent(r) /\ out' = out
    BY Shapes DEF LockedInv, SerialInv, Goto, Silent
  <1>2. Extends(fact, m) /\ out[r] = "none"
    BY PcValue DEF LockedInv, LockTurn, Inside, Extends, Idle
  <1>3. LockTurn(r)'
    BY <1>1, <1>2 DEF LockTurn
  <1>4. QED
    BY <1>1, <1>3, InsideAlone, LockedStep

LEMMA DeleteLocked ==
  ASSUME LockedInv, OneInside, OneInside', SerialInv', NEW r \in Req, DeleteStep(r)
  PROVE  LockedInv'
  <1>0. FactInv /\ mem[r] \in Fact
    BY Shapes DEF LockedInv, SerialInv
  <1>a. ASSUME Inside(r)
        PROVE  /\ out[r] = "none"
               /\ pc[r] \in Loaded => Extends(fact, mem[r])
    BY <1>a, PcValue DEF LockedInv, LockTurn, Inside, Idle
  <1>b. ASSUME Inside(r), NEW a, Answer(r, a)
        PROVE  LockedInv'
    BY <1>0, <1>b, AnswerLocked, InsideAlone, LockedStep
  <1>1. CASE Lock(r)
    <2>1. /\ Others(r) /\ Silent(r) /\ fact' = fact /\ pc'[r] = "load" /\ out' = out
      BY <1>0, <1>1, Shapes DEF Lock, Others, Silent, store
    <2>2. LockTurn(r)'
      <3>1. out[r] = "none"
        BY <1>1 DEF Lock, LockedInv, LockTurn, Idle
      <3>2. QED
        BY <2>1, <3>1 DEF LockTurn, Loaded, AfterLook
    (* It is inside now, so nobody else is.                                *)
    <2>3. ASSUME NEW q \in Req \ {r} PROVE pc[q] \in {"idle", "lock"}
      <3>1. ~Inside(q)
        BY <2>1 DEF OneInside, Inside, Others, DeletePcs
      <3>2. pc[q] \in Pcs /\ pc[q] \notin PutPcs
        BY <1>0, <1>1, DeleteMeansNobodyPuts, PcValue, Shapes DEF Lock, LockedInv, NobodyPuts
      <3>3. QED
        BY <3>1, <3>2 DEF Inside, Pcs
    <2>4. QED
      BY <2>1, <2>2, <2>3, LockedStep
  <1>2. CASE LoadFact(r)
    <2>1. /\ Others(r) /\ Silent(r) /\ fact' = fact /\ out' = out
          /\ mem'[r] = fact /\ (pc'[r] = "confirm" => Terminal(fact)) /\ Inside(r)
      BY <1>0, <1>2, StageValue, Shapes DEF LoadFact, Goto, Others, Silent, store, Inside, DeletePcs
    <2>2. LockTurn(r)'
      BY <1>a, <2>1 DEF LockTurn, Extends
    <2>3. QED
      BY <2>1, <2>2, LockedStays
  <1>3. CASE ConfirmTerminal(r)
    BY <1>3, <1>b DEF ConfirmTerminal, Inside, DeletePcs
  <1>4. CASE LookAtPod(r)
    <2>1. Inside(r) /\ pc[r] \in Loaded /\ fact' = fact
      BY <1>4 DEF LookAtPod, Inside, DeletePcs, Loaded
    <2>2. CASE mem[r].uid # 0
      <3>1. /\ Proceed(r, mem[r], Sighting, FALSE)
            /\ \A q \in Req \ {r} : seen'[q] = seen[q]
        BY <1>0, <1>4, <2>2, Shapes DEF LookAtPod
      <3>2. Extends(fact', mem[r])
        BY <1>a, <2>1
      <3>3. LockTurn(r)' /\ Silent(r) /\ Others(r)
        BY <1>0, <1>a, <2>1, <3>1, <3>2, ProceedLocked, ProceedSerial, LoadedKnows
        DEF LockedInv, KeepsFact
      <3>4. QED
        BY <2>1, <3>3, InsideAlone, LockedStep
    <2>3. CASE mem[r].uid = 0
      <3>1. pod.uid = 0
        BY <2>1, <2>3, LoadedKnows DEF LockedInv, SameFact, Tracked
      <3>2. QED
        BY <1>4, <1>b, <2>1, <2>3, <3>1 DEF LookAtPod
    <2>4. QED
      BY <2>2, <2>3
  <1>5. CASE SaveGet(r)
    <2>1. /\ Inside(r) /\ pc[r] \in Loaded /\ fact' = fact /\ mem'[r] = mem[r] /\ Others(r)
          /\ Goto(r, "saveWrite")
      BY <1>0, <1>5, Shapes
      DEF SaveGet, Inside, DeletePcs, Loaded, AfterLook, Others, Goto, store
    <2>2. QED
      BY <2>1, AheadLocked DEF Extends
  <1>6. CASE SaveWrite(r)
    <2>1. Inside(r) /\ pc[r] \in Loaded
      BY <1>6 DEF SaveWrite, Inside, DeletePcs, Loaded, AfterLook
    <2>2. CASE SaveFits(r) /\ ~Terminal(mem[r])
      <3>1. /\ Proceed(r, mem[r], seen[r], synced[r]) /\ fact' = mem[r] /\ seen' = seen
        BY <1>6, <2>2 DEF SaveWrite, Store
      <3>2. LockTurn(r)' /\ Silent(r)
        BY <1>0, <1>a, <2>1, <3>1, ProceedLocked DEF Extends
      <3>3. Others(r)
        BY <1>0, <2>1, <3>1, ProceedSerial, LoadedKnows DEF LockedInv, KeepsFact, SameFact
      <3>4. QED
        BY <2>1, <3>2, <3>3, InsideAlone, LockedStep
    <2>3. CASE SaveFits(r) /\ Terminal(mem[r])
      <3>1. Others(r) /\ Silent(r) /\ pc'[r] = "idle"
        BY <1>0, <1>6, <2>3, Shapes DEF SaveWrite, Others, Silent
      <3>2. QED
        BY <2>1, <3>1, IdleLock, InsideAlone, LockedStep
    <2>4. CASE ~SaveFits(r)
      BY <1>6, <1>b, <2>1, <2>4 DEF SaveWrite
    <2>5. QED
      BY <2>2, <2>3, <2>4
  <1>7. CASE Flush(r)
    <2>1. Inside(r) /\ pc[r] \in Loaded /\ fact' = fact
      BY <1>7 DEF Flush, Inside, DeletePcs, Loaded, AfterLook, store
    <2>2. CASE pod.phase = "Running"
      <3>1. PICK l \in {"remove", "release"} : Goto(r, l)
        BY <1>7, <2>2 DEF Flush
      <3>2. mem'[r] = mem[r] /\ Others(r)
        BY <1>0, <1>7, <2>2, Shapes DEF Flush, Goto, Others
      <3>3. QED
        BY <2>1, <3>1, <3>2, AheadLocked DEF Extends
    <2>3. CASE pod.phase # "Running"
      BY <1>7, <1>b, <2>1, <2>3 DEF Flush
    <2>4. QED
      BY <2>2, <2>3
  <1>8. CASE Release(r)
    <2>1. /\ Inside(r) /\ pc[r] \in Loaded /\ fact' = fact /\ Others(r) /\ Goto(r, "saveGet")
          /\ mem'[r] = [mem[r] EXCEPT !.rel = TRUE]
      BY <1>0, <1>8, Shapes DEF Release, Inside, DeletePcs, Loaded, AfterLook, Others, Goto, store
    <2>2. Extends(mem[r], [mem[r] EXCEPT !.rel = TRUE])
      BY <1>0 DEF Extends, Fact
    <2>3. QED
      BY <2>1, <2>2, AheadLocked
  <1>9. CASE RemovePod(r)
    <2>1. /\ Inside(r) /\ pc[r] \in Loaded /\ fact' = fact /\ mem'[r] = mem[r] /\ Others(r)
          /\ Goto(r, "wait")
      BY <1>0, <1>9, Shapes DEF RemovePod, Inside, DeletePcs, Loaded, AfterLook, Others, Goto, store
    <2>2. QED
      BY <2>1, AheadLocked DEF Extends
  <1>10. CASE AwaitPodGone(r)
    <2>1. Inside(r) /\ pc[r] \in Loaded /\ fact' = fact
      BY <1>10 DEF AwaitPodGone, Inside, DeletePcs, Loaded, AfterLook, store
    <2>2. CASE pod.uid = 0
      <3>1. /\ Others(r) /\ Goto(r, "saveGet") /\ mem'[r] = [mem[r] EXCEPT !.del = TRUE]
        BY <1>0, <1>10, <2>2, Shapes DEF AwaitPodGone, Others, Goto
      <3>2. Extends(mem[r], [mem[r] EXCEPT !.del = TRUE])
        BY <1>0 DEF Extends, Fact
      <3>3. QED
        BY <2>1, <3>1, <3>2, AheadLocked
    <2>3. CASE pod.uid # 0
      BY <1>10, <1>b, <2>1, <2>3 DEF AwaitPodGone
    <2>4. QED
      BY <2>2, <2>3
  <1>11. CASE ReportReleased(r)
    <2>1. Inside(r) /\ pc[r] \in Loaded /\ fact' = fact
      BY <1>11 DEF ReportReleased, Inside, DeletePcs, Loaded, AfterLook, store
    <2>2. CASE Answer(r, "error")
      BY <1>11, <1>b, <2>1, <2>2
    <2>3. CASE ~Answer(r, "error")
      <3>1. Others(r) /\ Goto(r, "saveGet") /\ mem'[r] = [mem[r] EXCEPT !.term = TRUE]
        BY <1>0, <1>11, <2>3, Shapes DEF ReportReleased, Others, Goto
      <3>2. Extends(mem[r], [mem[r] EXCEPT !.term = TRUE])
        BY <1>0 DEF Extends, Fact
      <3>3. QED
        BY <2>1, <3>1, <3>2, AheadLocked
    <2>4. QED
      BY <2>2, <2>3
  <1>12. QED
    BY <1>1, <1>2, <1>3, <1>4, <1>5, <1>6, <1>7, <1>8, <1>9, <1>10, <1>11 DEF DeleteStep, DeleteCall

LEMMA FaultLocked ==
  ASSUME LockedInv, OneInside, SerialInv', NEW r \in Req, Fail(r) \/ LostAnswer(r)
  PROVE  LockedInv'
  <1>0. FactInv
    BY DEF LockedInv, SerialInv
  <1>1. \A q \in Req \ {r} : pc[q] \in {"idle", "lock"}
    <2>1. CASE pc[r] \in PutPcs
      BY <2>1, PutMeansAlone DEF LockedInv, Idle
    <2>2. CASE pc[r] \notin PutPcs
      <3>1. Inside(r)
        BY <1>0, <2>2, PcValue, Shapes DEF Fail, LostAnswer, Inside, Pcs
      <3>2. QED
        BY <3>1, InsideAlone
    <2>3. QED
      BY <2>1, <2>2
  <1>2. CASE \E a : Answer(r, a)
    BY <1>0, <1>1, <1>2, AnswerLocked, LockedStep
  <1>3. CASE pc[r] \in PutPcs /\ Goto(r, "rollback") /\ UNCHANGED <<mem, seen>>
    <2>1. pc'[r] = "rollback" /\ out'[r] = "none" /\ Others(r) /\ Silent(r)
      BY <1>0, <1>1, <1>3, PcValue, Shapes DEF LockedInv, LockTurn, Goto, Others, Silent, Idle
    <2>2. QED
      BY <1>1, <2>1, LockedStep, PutLock, PcValue
  <1>4. QED
    BY <1>2, <1>3, PcValue DEF Fail, SaveFailed, LostAnswer

(* The requests of the process are lost, the others go on.                 *)
LEMMA CrashLocked ==
  ASSUME LockedInv, SerialInv', NEW p \in Replica, Crash(p)
  PROVE  LockedInv'
  <1>1. ASSUME NEW q \in Req PROVE LockTurn(q)'
    <2>1. CASE ReplicaOf[q] = p
      BY <2>1, IdleLock DEF Crash
    <2>2. CASE ReplicaOf[q] # p
      <3>1. pc'[q] = pc[q] /\ mem'[q] = mem[q] /\ out'[q] = out[q] /\ fact' = fact
        BY <2>2 DEF Crash, store
      <3>2. QED
        BY <3>1 DEF LockedInv, LockTurn, Idle
    <2>3. QED
      BY <2>1, <2>2
  <1>2. QED
    BY <1>1 DEF LockedInv

LEMMA PodLocked ==
  ASSUME LockedInv, SerialInv', UNCHANGED vars \/ Kubernetes
  PROVE  LockedInv'
  <1>1. UNCHANGED <<fact, pc, mem, out>>
    BY DEF vars, Kubernetes, PodStarts, PodExits, PodGone, PodEvicted, store, locals
  <1>2. QED
    BY <1>1 DEF LockedInv, LockTurn, Inside, Idle

LEMMA LockedInit == Init => LockedInv
  <1> SUFFICES ASSUME Init PROVE LockedInv
    OBVIOUS
  <1>1. ASSUME NEW r \in Req PROVE LockTurn(r)
    BY PcValue DEF Init, LockTurn, Inside, Loaded, AfterLook, Idle
  <1>2. QED
    BY <1>1, SerialInit DEF LockedInv

LEMMA LockedNext ==
  ASSUME PutsAlone, OneInside, OneInside', LockedInv, [Next]_vars, [Settled]_vars
  PROVE  LockedInv'
  <1>1. SerialInv'
    BY SerialNext DEF LockedInv
  <1>2. QED
    BY <1>1, StartsLocked, PutLocked, DeleteLocked, FaultLocked, CrashLocked, PodLocked DEF Next

(* The inductive invariant of one DELETE at a time.                        *)
THEOREM LockedInvariance == PutsAlone /\ Spec /\ PutsSettle /\ []OneInside => []LockedInv
  <1> SUFFICES ASSUME PutsAlone PROVE Spec /\ PutsSettle /\ []OneInside => []LockedInv
    OBVIOUS
  <1>1. OneInside /\ OneInside' /\ LockedInv /\ [Next]_vars /\ [Settled]_vars => LockedInv'
    BY LockedNext
  <1>2. QED
    BY LockedInit, <1>1, PTL DEF Spec, PutsSettle

(* The lock of one process lets in one DELETE at a time.                   *)
THEOREM OneServerIsEnough == OneServer /\ Spec => []OneInside
  <1> SUFFICES ASSUME OneServer PROVE Spec => []OneInside
    OBVIOUS
  <1>1. SectionInv => OneInside
    BY ReqAssumption DEF SectionInv, InsideOf, OneServer, OneInside
  <1>2. QED
    BY <1>1, SectionInvariance, PTL

-----------------------------------------------------------------------------
(* Answers and stored facts.                                               *)

(* The steps that end in the answer "deleted".                             *)
LEMMA DeletedStep ==
  ASSUME LockedInv, [Next]_vars, NEW r \in Req, pc[r] # "idle", out'[r] = "deleted"
  PROVE  \/ ConfirmTerminal(r) /\ pod.uid = 0
         \/ SaveWrite(r) /\ SaveFits(r) /\ Terminal(mem[r])
  <1>0. FactInv /\ out[r] = "none" /\ out \in [Req -> Answers]
    BY Shapes DEF LockedInv, SerialInv, LockTurn, Idle
  <1>a. ASSUME NEW q \in Req, NEW a, a # "deleted", Answer(q, a) PROVE FALSE
    BY <1>0, <1>a DEF Answer
  <1>b. out' # out
    BY <1>0
  <1>c. ASSUME NEW q \in Req, NEW a, a # "deleted", out' = [out EXCEPT ![q] = a] PROVE FALSE
    BY <1>0, <1>c
  <1>1. ASSUME NEW q \in Req, StartPut(q) \/ StartDelete(q) PROVE FALSE
    BY <1>1, <1>c DEF StartPut, StartDelete
  <1>2. ASSUME NEW q \in Req, PutStep(q) PROVE FALSE
    <2>1. CASE PutWrite(q)
      BY <1>a, <1>b, <1>c, <2>1 DEF PutWrite, SaveFailed, Goto
    <2>2. CASE ~PutWrite(q)
      BY <1>2, <1>a, <1>b, <2>2
      DEF PutStep, ResolveMount, CreatePod, ReuseExisting, PutGet, Rollback, Goto
    <2>3. QED
      BY <2>1, <2>2
  <1>3. ASSUME NEW q \in Req, DeleteStep(q)
        PROVE  q = r /\ \/ ConfirmTerminal(r) /\ pod.uid = 0
                        \/ SaveWrite(r) /\ SaveFits(r) /\ Terminal(mem[r])
    <2>1. CASE ConfirmTerminal(q)
      BY <1>0, <2>1 DEF ConfirmTerminal, Answer
    <2>2. CASE SaveWrite(q)
      <3>1. SaveFits(q) /\ Terminal(mem[q]) /\ out' = [out EXCEPT ![q] = "deleted"]
        BY <1>a, <1>b, <2>2 DEF SaveWrite, Proceed, Goto
      <3>2. q = r
        BY <1>0, <3>1
      <3>3. QED
        BY <2>2, <3>1, <3>2
    <2>3. CASE ~(ConfirmTerminal(q) \/ SaveWrite(q))
      BY <1>3, <1>a, <1>b, <2>3
      DEF DeleteStep, DeleteCall, Lock, LoadFact, LookAtPod, Proceed, SaveGet, Flush, Release,
          RemovePod, AwaitPodGone, ReportReleased, Goto
    <2>4. QED
      BY <2>1, <2>2, <2>3
  <1>4. ASSUME NEW q \in Req, Fail(q) \/ LostAnswer(q) PROVE FALSE
    BY <1>4, <1>a, <1>b DEF Fail, LostAnswer, SaveFailed, Goto
  <1>5. ASSUME NEW p \in Replica, Crash(p) PROVE FALSE
    BY <1>0, <1>5 DEF Crash
  <1>6. CASE UNCHANGED vars \/ Kubernetes
    BY <1>6, <1>b
    DEF vars, Kubernetes, PodStarts, PodExits, PodGone, PodEvicted, locals
  <1>7. QED
    BY <1>1, <1>2, <1>3, <1>4, <1>5, <1>6 DEF Next

LEMMA ClosedStep ==
  ASSUME LockedInv, [Next]_vars, NEW r \in Req, pc[r] # "idle", out'[r] = "deleted"
  PROVE  pod.uid = 0 /\ Terminal(fact')
  <1>1. CASE ConfirmTerminal(r) /\ pod.uid = 0
    BY <1>1 DEF ConfirmTerminal, LockedInv, LockTurn, store
  <1>2. CASE SaveWrite(r) /\ SaveFits(r) /\ Terminal(mem[r])
    <2>1. fact' = mem[r] /\ pc[r] \in Loaded
      BY <1>2 DEF SaveWrite, Store, Loaded, AfterLook
    (* Its copy says that Pod is gone, and there is no other.              *)
    <2>2. SameFact(mem[r]) /\ Tracked /\ mem[r].uid # pod.uid
      BY <1>2, <2>1, LoadedKnows
      DEF LockedInv, SerialInv, FactInv, CopySound, Sound, Backed, Terminal
    <2>3. QED
      BY <1>2, <2>1, <2>2 DEF SameFact, Tracked
  <1>3. QED
    BY <1>1, <1>2, DeletedStep

(* A DELETE answered 200 means the workload is closed, whatever fails or   *)
(* crashes, if one DELETE at a time is past the lock of its process and    *)
(* PUTs run alone and settle.                                              *)
THEOREM DeletedIsClosed == PutsAlone /\ Spec /\ PutsSettle /\ []OneInside => DeletedMeansClosed
  <1> SUFFICES ASSUME PutsAlone PROVE Spec /\ PutsSettle /\ []OneInside => DeletedMeansClosed
    OBVIOUS
  <1>1. LockedInv /\ [Next]_vars =>
          [\A r \in Req : pc[r] # "idle" /\ out'[r] = "deleted" =>
             pod.uid = 0 /\ Terminal(fact')]_vars
    BY ClosedStep
  <1>2. QED
    BY <1>1, LockedInvariance, PTL DEF Spec, DeletedMeansClosed

(* The fact changes only by the Save of a PUT or of a DELETE.              *)
LEMMA FactChange ==
  ASSUME LockedInv, [Next]_vars, fact' # fact
  PROVE  \E q \in Req : \/ pc[q] \in PutPcs
                        \/ pc[q] = "saveWrite" /\ fact' = mem[q]
  <1>1. ASSUME NEW q \in Req, StartPut(q) \/ StartDelete(q) \/ Fail(q) PROVE FALSE
    BY <1>1 DEF StartPut, StartDelete, Fail, store
  <1>2. ASSUME NEW q \in Req, PutStep(q) PROVE pc[q] \in PutPcs
    BY <1>2, PcValue
    DEF PutStep, ResolveMount, CreatePod, ReuseExisting, PutGet, PutWrite, Rollback
  <1>3. ASSUME NEW q \in Req, DeleteStep(q) PROVE pc[q] = "saveWrite" /\ fact' = mem[q]
    <2>1. CASE SaveWrite(q)
      BY <2>1 DEF SaveWrite, Store
    <2>2. CASE ~SaveWrite(q)
      BY <1>3, <2>2
      DEF DeleteStep, DeleteCall, Lock, LoadFact, ConfirmTerminal, LookAtPod, SaveGet, Flush,
          Release, RemovePod, AwaitPodGone, ReportReleased, store
    <2>3. QED
      BY <2>1, <2>2
  <1>4. ASSUME NEW q \in Req, LostAnswer(q) PROVE pc[q] \in PutPcs
    BY <1>4, PcValue DEF LostAnswer
  <1>5. ASSUME NEW p \in Replica, Crash(p) PROVE FALSE
    BY <1>5 DEF Crash, store
  <1>6. CASE UNCHANGED vars \/ Kubernetes
    BY <1>6 DEF vars, Kubernetes, PodStarts, PodExits, PodGone, PodEvicted, store
  <1>7. QED
    BY <1>1, <1>2, <1>3, <1>4, <1>5, <1>6 DEF Next

LEMMA SavesExtend ==
  ASSUME OneInside, LockedInv, [Next]_vars,
         NEW r \in Req, pc[r] = "saveWrite", fact # fact'
  PROVE  fact' = mem[r] /\ SameFact(mem[r]) /\ Extends(fact, mem[r])
  <1>0. Inside(r) /\ pc[r] \in Loaded /\ NobodyPuts
    BY DeleteMeansNobodyPuts DEF LockedInv, Inside, DeletePcs, Loaded, AfterLook
  <1>1. fact' = mem[r]
    BY <1>0, FactChange, InsideAlone DEF NobodyPuts
  <1>2. QED
    BY <1>0, <1>1, LoadedKnows DEF LockedInv, LockTurn

(* A Save of a DELETE keeps every flag another DELETE recorded, and never  *)
(* overwrites the fact of another Pod.                                     *)
THEOREM DeletesNeverRegress == PutsAlone /\ Spec /\ PutsSettle /\ []OneInside => DeleteNeverRegresses
  <1> SUFFICES ASSUME PutsAlone PROVE Spec /\ PutsSettle /\ []OneInside => DeleteNeverRegresses
    OBVIOUS
  <1>1. OneInside /\ LockedInv /\ [Next]_vars =>
          [\A r \in Req : pc[r] = "saveWrite" /\ fact # fact' /\ fact.uid # 0 =>
             /\ fact'.uid = fact.uid /\ fact'.stamp = fact.stamp
             /\ fact.rel => fact'.rel
             /\ fact.del => fact'.del
             /\ fact.term => fact'.term]_vars
    BY SavesExtend DEF SameFact, Extends
  <1>2. QED
    BY <1>1, LockedInvariance, PTL DEF Spec, DeleteNeverRegresses

-----------------------------------------------------------------------------
(* PUTs that complete.                                                     *)
LEMMA CompleteStep ==
  ASSUME PutsAlone, PutsComplete, SerialInv, Next
  PROVE  Settled
  <1> SUFFICES ASSUME NEW r \in Req, pc[r] \in PutPcs, pc'[r] = "idle"
               PROVE  Tracked'
    BY DEF Settled
  <1>0. /\ FactInv /\ PutTurn(r) /\ base[r] # "stale" /\ pc'[r] # pc[r]
        /\ \A q \in Req \ {r} : Idle(q)
    BY PutMeansAlone, PcValue DEF SerialInv, PutTurn
  <1>1. ASSUME NEW q \in Req, StartPut(q) \/ StartDelete(q) PROVE FALSE
    BY <1>0, <1>1, PcValue, Shapes DEF StartPut, StartDelete, Idle
  <1>2. ASSUME NEW q \in Req, PutStep(q) PROVE Tracked'
    <2>1. q = r
      BY <1>0, <1>2, PcValue
      DEF PutStep, ResolveMount, CreatePod, ReuseExisting, PutGet, PutWrite, Rollback, Idle
    <2>2. CASE ResolveMount(r) \/ ReuseExisting(r)
      BY <1>0, <2>2
      DEF ResolveMount, ReuseExisting, PutTurn, Tracked, k8s, store
    <2>3. CASE CreatePod(r) \/ PutGet(r)
      BY <1>0, <2>3, Shapes DEF CreatePod, PutGet, Goto
    <2>4. CASE PutWrite(r)
      BY <1>0, <2>4 DEF PutWrite, SaveFits, Store, PutTurn, Tracked, k8s
    <2>5. CASE Rollback(r)
      BY <2>5 DEF Rollback, Tracked, NoPod
    <2>6. QED
      BY <1>2, <2>1, <2>2, <2>3, <2>4, <2>5 DEF PutStep
  <1>3. ASSUME NEW q \in Req, DeleteStep(q) PROVE FALSE
    <2>1. pc[q] \in DeletePcs
      BY <1>3, PcValue
      DEF DeleteStep, DeleteCall, Lock, LoadFact, ConfirmTerminal, LookAtPod, SaveGet, SaveWrite,
          Flush, Release, RemovePod, AwaitPodGone, ReportReleased
    <2>2. QED
      BY <2>1, DeleteMeansNobodyPuts DEF NobodyPuts
  (* A fault would be one of this PUT.                                     *)
  <1>4. ASSUME NEW q \in Req, ~Idle(q), OpOf(q) \in FaultyOps PROVE FALSE
    BY <1>0, <1>4 DEF OpOf, PutsComplete
  <1>5. ASSUME NEW q \in Req, Fail(q) \/ LostAnswer(q) PROVE FALSE
    BY <1>4, <1>5 DEF Fail, LostAnswer, Idle
  <1>6. ASSUME NEW p \in Replica, Crash(p) PROVE FALSE
    BY <1>4, <1>6 DEF Crash
  <1>7. CASE Kubernetes
    BY <1>0, <1>7 DEF Kubernetes, PodStarts, PodExits, PodGone, PodEvicted, locals
  <1>8. QED
    BY <1>1, <1>2, <1>3, <1>5, <1>6, <1>7 DEF Next

(* PUTs that run alone and whose calls do not fail settle: they end with a *)
(* Pod only if the stored fact names it.                                   *)
THEOREM CompletePutsSettle == PutsAlone /\ PutsComplete /\ Spec => PutsSettle
  <1> SUFFICES ASSUME PutsAlone, PutsComplete PROVE Spec => PutsSettle
    OBVIOUS
  <1>1. SerialInv /\ [Next]_vars => [Settled]_vars
    BY CompleteStep
  <1>2. SerialInv /\ [Next]_vars /\ [Settled]_vars => SerialInv'
    BY SerialNext
  <1>3. QED
    BY SerialInit, <1>1, <1>2, PTL DEF Spec, PutsSettle

-----------------------------------------------------------------------------
(* The same of sessions, in which the Pod's program writes to its mount.   *)
THEOREM SessionIsSerial ==
  ASSUME "release" \in KeyedByUid, "status" \in KeyedByUid
  PROVE  PutsAlone /\ SessionSpec /\ PutsSettle
           => [](LivePodIsTracked /\ ReleaseBeforeRemoval /\ NoStatusConflict)
  BY SessionIsLifecycle, LivePodsAreTracked, ReleasesComeFirst, StatusNeverConflicts, PTL

(* With PUTs that complete and one process nothing is left to assume of a  *)
(* behaviour.                                                              *)
THEOREM SessionIsLocked ==
  PutsAlone /\ PutsComplete /\ OneServer /\ SessionSpec
    => DeletedMeansClosed /\ DeleteNeverRegresses
  BY SessionIsLifecycle, CompletePutsSettle, OneServerIsEnough, DeletedIsClosed,
     DeletesNeverRegress
=============================================================================
