----------------------- MODULE WorkloadSession_proofs -----------------------
(***************************************************************************)
(* For any number of requests and processes, any overlap, any failures and *)
(* crashes: a session is a run of the life cycle, and a DELETE never       *)
(* releases a mount or removes a Pod while it owes that mount a sync.      *)
(***************************************************************************)
EXTENDS WorkloadSession, WorkloadLifecycle_proofs

-----------------------------------------------------------------------------
(* Every step of a session is one of the life cycle or leaves it alone.    *)
LEMMA StepOfLifecycle == [SessionNext]_svars => [Next]_vars
  <1> SUFFICES ASSUME [SessionNext]_svars PROVE [Next]_vars
    OBVIOUS
  <1>1. CASE UNCHANGED svars
    BY <1>1 DEF svars
  <1>2. CASE SessionNext
    <2>1. ASSUME NEW r \in Req, BeginDelete(r) PROVE Next
      BY <2>1 DEF BeginDelete, Next
    <2>2. ASSUME NEW r \in Req, SyncEnds(r) PROVE Next
      <3>1. Flush(r) \/ Fail(r)
        BY <2>2 DEF SyncEnds
      <3>2. QED
        BY <3>1 DEF Next, DeleteStep
    <2>3. ASSUME NEW r \in Req, DeleteCallFollowed(r) \/ PutStepFollowed(r) PROVE Next
      BY <2>3 DEF DeleteCallFollowed, PutStepFollowed, Next, DeleteStep
    <2>4. ASSUME NEW r \in Req, StartPut(r) \/ Fail(r) \/ LostAnswer(r) PROVE Next
      BY <2>4 DEF Next
    <2>5. CASE (\E p \in Replica : Crash(p)) \/ Kubernetes
      BY <2>5 DEF Next
    <2>6. CASE Write
      BY <2>6 DEF Write
    <2>7. QED
      BY <1>2, <2>1, <2>2, <2>3, <2>4, <2>5, <2>6 DEF SessionNext
  <1>3. QED
    BY <1>1, <1>2

(* A session is a run of the life cycle, so all that is proved of the life *)
(* cycle holds in sessions.                                                *)
THEOREM SessionIsLifecycle == SessionSpec => Spec
  <1>1. SessionInit => Init
    BY DEF SessionInit
  <1>2. QED
    BY <1>1, StepOfLifecycle, PTL DEF SessionSpec, Spec

-----------------------------------------------------------------------------
(* The mount.                                                              *)

(* A Pod that has started does not become Pending again.                   *)
Ages == pod'.uid = pod.uid /\ pod.uid # 0 /\ pod.phase # "Pending" => pod'.phase # "Pending"

LEMMA NextAges ==
  ASSUME FactInv, [Next]_vars
  PROVE  Ages
  <1>0. pod \in Pod /\ born \in Nat /\ NoPod.uid = 0
    BY DEF FactInv, TypeOK, NoPod
  <1>1. CASE pod' = pod
    BY <1>1 DEF Ages
  <1>2. CASE pod.uid = 0
    BY <1>2 DEF Ages
  <1>3. CASE pod' = NoPod
    BY <1>0, <1>3 DEF Ages
  <1>4. ASSUME NEW r \in Req, StartPut(r) \/ PutStep(r) \/ LostAnswer(r)
        PROVE  pod' = pod \/ pod.uid = 0 \/ pod' = NoPod
    BY <1>4 DEF PutStep, StartPut, ResolveMount, CreatePod, ReuseExisting, PutGet, PutWrite,
       Rollback, LostAnswer, k8s
  <1>5. ASSUME NEW r \in Req, StartDelete(r) \/ Flush(r) \/ Fail(r)
        PROVE  pod' = pod
    BY <1>5 DEF StartDelete, Flush, Fail, k8s
  <1>6. ASSUME NEW r \in Req, DeleteCall(r)
        PROVE  Ages
    <2>1. CASE RemovePod(r)
      BY <1>0, <2>1 DEF RemovePod, Ages, Pod
    <2>2. CASE ~RemovePod(r)
      <3>1. pod' = pod
        BY <1>6, <2>2 DEF DeleteCall, Lock, LoadFact, ConfirmTerminal, LookAtPod, SaveGet,
           SaveWrite, Release, AwaitPodGone, ReportReleased, k8s
      <3>2. QED
        BY <1>1, <3>1
    <2>3. QED
      BY <2>1, <2>2
  <1>7. ASSUME NEW p \in Replica, Crash(p)
        PROVE  pod' = pod
    BY <1>7 DEF Crash, k8s
  <1>8. CASE Kubernetes
    BY <1>0, <1>8 DEF Kubernetes, PodStarts, PodExits, PodGone, PodEvicted, Ages, Pod
  <1>9. CASE UNCHANGED vars
    BY <1>1, <1>9 DEF vars, k8s
  <1>10. QED
    BY <1>1, <1>2, <1>3, <1>4, <1>5, <1>6, <1>7, <1>8, <1>9 DEF Next, DeleteStep

(* What becomes of the writes in a step of the life cycle.                 *)
LEMMA MountStays ==
  ASSUME MountTypeOK, TypeOK, Ages, NEW kept \in BOOLEAN, WritesStay(kept),
         kept => pod'.uid = pod.uid
  PROVE  MountTypeOK' /\ \A r \in Req : owed'[r] => owed[r]
  <1>1. unsynced' \in BOOLEAN /\ owed' \in [Req -> BOOLEAN]
    BY DEF MountTypeOK, WritesStay
  <1>2. ASSUME NEW r \in Req
        PROVE  owed'[r] => owed[r] /\ kept /\ pc'[r] # "idle"
    BY DEF WritesStay
  <1>3. unsynced' => unsynced /\ kept
    BY DEF WritesStay
  <1>4. unsynced' => pod'.uid # 0 /\ pod'.phase # "Pending"
    BY <1>3 DEF MountTypeOK, Ages
  <1>5. ASSUME NEW r \in Req
        PROVE  owed'[r] => unsynced' /\ pc'[r] # "idle"
    BY <1>2 DEF MountTypeOK, WritesStay
  <1>6. QED
    BY <1>1, <1>2, <1>4, <1>5 DEF MountTypeOK

-----------------------------------------------------------------------------
(* What each DELETE owes.                                                  *)

(* A step of one request: the others keep their locals.                    *)
Alone(r) == \A q \in Req \ {r} : /\ pc'[q] = pc[q] /\ mem'[q] = mem[q]
                                 /\ seen'[q] = seen[q] /\ synced'[q] = synced[q]

LEMMA DueStays ==
  ASSUME NEW q \in Req, SyncDue(q), owed'[q] => owed[q],
         pc'[q] = pc[q], mem'[q] = mem[q], seen'[q] = seen[q], synced'[q] = synced[q]
  PROVE  SyncDue(q)'
  BY DEF SyncDue

(* A request that is idle owes nothing.                                    *)
LEMMA IdleDue ==
  ASSUME NEW r \in Req, pc'[r] = "idle", mem'[r] = NoFact
  PROVE  SyncDue(r)'
  BY DEF SyncDue, NoFact, BeforeLook

LEMMA AnswerDue ==
  ASSUME TypeOK, NEW r \in Req, NEW a, Answer(r, a)
  PROVE  SyncDue(r)' /\ Alone(r)
  <1>1. pc'[r] = "idle" /\ mem'[r] = NoFact /\ Alone(r)
    BY DEF TypeOK, Answer, Alone
  <1>2. QED
    BY <1>1, IdleDue

(* A request in a PUT owes nothing either.                                 *)
LEMMA PutDue ==
  ASSUME NEW r \in Req, pc'[r] \in PutPcs, mem'[r].del => mem'[r].rel
  PROVE  SyncDue(r)'
  BY DEF SyncDue, PutPcs, BeforeLook

LEMMA SaveFailedDue ==
  ASSUME TypeOK, NEW r \in Req, SyncDue(r), SaveFailed(r)
  PROVE  SyncDue(r)' /\ Alone(r)
  <1>1. CASE Answer(r, "error")
    BY <1>1, AnswerDue
  <1>2. CASE Goto(r, "rollback") /\ UNCHANGED <<mem, seen, synced, base>>
    <2>1. pc'[r] = "rollback" /\ mem'[r] = mem[r] /\ Alone(r)
      BY <1>2 DEF TypeOK, Goto, Alone
    <2>2. QED
      BY <2>1, PutDue DEF PutPcs, SyncDue
  <1>3. QED
    BY <1>1, <1>2 DEF SaveFailed

(* Going on to the next stage from a fact, a sight and a flush flag: one   *)
(* that owes a sync saw the Pod started and has not flushed.               *)
LEMMA ProceedDue ==
  ASSUME TypeOK, NEW r \in Req, NEW f \in Fact, NEW s, Proceed(r, f, s, synced[r]),
         f.del => f.rel, synced' = synced, seen'[r] = s,
         \A q \in Req \ {r} : seen'[q] = seen[q],
         owed'[r] /\ ~f.del => s.started /\ ~synced[r]
  PROVE  SyncDue(r)' /\ Alone(r)
  <1>0. pc \in [Req -> Pcs] /\ mem \in [Req -> Fact]
    BY DEF TypeOK
  <1>1. CASE f.rel /\ ~f.del /\ s.uid = 0
    <2>1. /\ mem' = [mem EXCEPT ![r] = [f EXCEPT !.del = TRUE]]
          /\ pc' = [pc EXCEPT ![r] = "saveGet"]
      BY <1>1 DEF Proceed, Goto
    <2>2. mem'[r] = [f EXCEPT !.del = TRUE] /\ pc'[r] = "saveGet" /\ Alone(r)
      BY <1>0, <2>1 DEF Alone
    <2>3. mem'[r].rel /\ mem'[r].del
      BY <1>1, <2>2 DEF Fact
    <2>4. QED
      BY <2>2, <2>3 DEF SyncDue, BeforeLook
  <1>2. CASE ~(f.rel /\ ~f.del /\ s.uid = 0)
    <2>1. mem' = [mem EXCEPT ![r] = f] /\ pc' = [pc EXCEPT ![r] = StageAt(f, s, synced[r])]
      BY <1>2 DEF Proceed, Goto
    <2>2. mem'[r] = f /\ pc'[r] = StageAt(f, s, synced[r]) /\ Alone(r)
      BY <1>0, <2>1 DEF Alone
    <2>3. pc'[r] \in {"flush", "release", "remove", "status"}
      BY <2>2, StageValue
    <2>4. pc'[r] = "remove" => f.rel /\ ~NeedsFlush(s, synced[r]) /\ ~f.del
      <3>1. f.rel \in BOOLEAN /\ f.del \in BOOLEAN
        BY DEF Fact
      <3>2. QED
        BY <2>2, <3>1 DEF StageAt
    <2>5. pc'[r] = "release" => ~f.rel /\ ~NeedsFlush(s, synced[r])
      BY <2>2 DEF StageAt
    <2>6. pc'[r] \in {"release", "remove"} => ~owed'[r]
      BY <2>4, <2>5 DEF NeedsFlush
    <2>7. QED
      BY <2>2, <2>3, <2>4, <2>6 DEF SyncDue, BeforeLook
  <1>3. QED
    BY <1>1, <1>2

(* A DELETE's calls.  A Pod it owes a sync had started when it was read,   *)
(* for the writes were there before the DELETE began.                      *)
LEMMA CallDue ==
  ASSUME FactInv, MountTypeOK, NEW r \in Req, SyncDue(r), fact.del => fact.rel,
         DeleteCall(r), owed'[r] => owed[r]
  PROVE  SyncDue(r)' /\ Alone(r) /\ (fact' = fact \/ fact' = mem[r])
  <1>0. /\ TypeOK /\ pc \in [Req -> Pcs] /\ mem \in [Req -> Fact] /\ fact \in Fact
        /\ seen \in [Req -> Sight] /\ synced \in [Req -> BOOLEAN] /\ pod \in Pod
    BY DEF FactInv, TypeOK
  <1>1. CASE Lock(r)
    <2>1. pc'[r] = "load" /\ pc[r] = "lock" /\ mem' = mem /\ synced' = synced /\ Alone(r) /\ fact' = fact
      BY <1>0, <1>1 DEF Lock, Alone, store
    <2>2. QED
      BY <2>1 DEF SyncDue, BeforeLook
  <1>2. CASE LoadFact(r)
    <2>1. /\ pc[r] = "load" /\ mem'[r] = fact /\ synced' = synced /\ Alone(r) /\ fact' = fact
          /\ pc'[r] = IF Terminal(fact) THEN "confirm"
                      ELSE IF fact.uid = 0 \/ ~fact.del THEN "look"
                      ELSE StageAt(fact, NoSight, FALSE)
      BY <1>0, <1>2 DEF LoadFact, Goto, Alone, store
    <2>2. CASE pc'[r] \in {"confirm", "look"}
      BY <2>1, <2>2 DEF SyncDue, BeforeLook
    <2>3. CASE pc'[r] \notin {"confirm", "look"}
      <3>1. pc'[r] = StageAt(fact, NoSight, FALSE) /\ fact.del /\ fact.rel
        BY <1>0, <2>1, <2>3 DEF Fact
      <3>2. pc'[r] = "status"
        BY <3>1 DEF StageAt, NeedsFlush, NoSight
      <3>3. QED
        BY <2>1, <3>1, <3>2 DEF SyncDue, BeforeLook
    <2>4. QED
      BY <2>1, <2>2, <2>3
  <1>3. CASE ConfirmTerminal(r)
    BY <1>0, <1>3, AnswerDue DEF ConfirmTerminal, store
  <1>4. CASE LookAtPod(r)
    <2>0. pc[r] = "look" /\ fact' = fact /\ ~synced[r] /\ (mem[r].del => mem[r].rel)
      BY <1>4 DEF LookAtPod, SyncDue, BeforeLook
    <2>1. owed'[r] => Sighting.started
      BY DEF MountTypeOK, Sighting
    <2>2. CASE /\ mem[r].uid # 0
               /\ seen' = [seen EXCEPT ![r] = Sighting]
               /\ Proceed(r, mem[r], Sighting, FALSE)
               /\ UNCHANGED <<clock, synced, base>>
      <3>1. mem[r] \in Fact /\ synced[r] = FALSE /\ synced' = synced
        BY <1>0, <2>0, <2>2
      <3>2. seen'[r] = Sighting /\ \A q \in Req \ {r} : seen'[q] = seen[q]
        BY <1>0, <2>2
      <3>3. Proceed(r, mem[r], Sighting, synced[r])
        BY <2>2, <3>1
      <3>4. SyncDue(r)' /\ Alone(r)
        BY <1>0, <2>0, <2>1, <3>1, <3>2, <3>3, ProceedDue
      <3>5. QED
        BY <2>0, <3>4
    <2>3. CASE /\ mem[r].uid = 0 /\ pod.uid # 0
               /\ seen' = [seen EXCEPT ![r] = Sighting]
               /\ clock' = clock + 1
               /\ mem' = [mem EXCEPT ![r] = FreshFact(pod.uid, clock + 1)]
               /\ Goto(r, "saveGet")
               /\ UNCHANGED <<synced, base>>
      <3>1. /\ pc'[r] = "saveGet" /\ seen'[r] = Sighting /\ synced' = synced /\ Alone(r)
            /\ mem'[r] = FreshFact(pod.uid, clock + 1)
        BY <1>0, <2>3 DEF Goto, Alone
      <3>2. ~mem'[r].del
        BY <3>1 DEF FreshFact
      <3>3. SyncDue(r)'
        BY <2>0, <2>1, <3>1, <3>2 DEF SyncDue, BeforeLook
      <3>4. QED
        BY <2>0, <3>1, <3>3
    <2>4. CASE Answer(r, "incomplete")
      BY <1>0, <2>0, <2>4, AnswerDue
    <2>5. QED
      BY <1>4, <2>2, <2>3, <2>4 DEF LookAtPod
  <1>5. CASE SaveGet(r)
    <2>1. /\ pc[r] = "saveGet" /\ pc'[r] = "saveWrite" /\ mem' = mem /\ seen' = seen
          /\ synced' = synced /\ Alone(r) /\ fact' = fact
      BY <1>0, <1>5 DEF SaveGet, Goto, Alone, store
    <2>2. QED
      BY <2>1 DEF SyncDue, BeforeLook
  <1>6. CASE SaveWrite(r)
    <2>0. pc[r] = "saveWrite" /\ (mem[r].del => mem[r].rel) /\ mem[r] \in Fact
      BY <1>0, <1>6 DEF SaveWrite, SyncDue
    <2>1. CASE /\ Store(r, mem[r])
               /\ Proceed(r, mem[r], seen[r], synced[r])
               /\ UNCHANGED <<seen, synced>>
      <3>1. owed'[r] /\ ~mem[r].del => seen[r].started /\ ~synced[r]
        BY <2>0 DEF SyncDue
      <3>2. Proceed(r, mem[r], seen[r], synced[r]) /\ synced' = synced /\ seen' = seen
        BY <2>1
      <3>3. SyncDue(r)' /\ Alone(r)
        BY <1>0, <2>0, <3>1, <3>2, ProceedDue
      <3>4. QED
        BY <2>1, <3>3 DEF Store
    <2>2. CASE /\ Store(r, mem[r])
               /\ pc' = [pc EXCEPT ![r] = "idle"]
               /\ mem' = [mem EXCEPT ![r] = NoFact]
               /\ seen' = [seen EXCEPT ![r] = NoSight]
               /\ synced' = [synced EXCEPT ![r] = FALSE]
      <3>1. pc'[r] = "idle" /\ mem'[r] = NoFact /\ Alone(r)
        BY <1>0, <2>2 DEF Alone
      <3>2. QED
        BY <2>2, <3>1, IdleDue DEF Store
    <2>3. CASE Answer(r, "error") /\ fact' = fact
      BY <1>0, <2>3, AnswerDue
    <2>4. QED
      BY <1>6, <2>1, <2>2, <2>3 DEF SaveWrite
  <1>7. CASE Release(r)
    <2>1. mem[r] \in Fact /\ pc[r] = "release"
      BY <1>0, <1>7 DEF Release
    <2>2. /\ pc'[r] = "saveGet" /\ seen' = seen /\ synced' = synced /\ Alone(r) /\ fact' = fact
          /\ mem'[r] = [mem[r] EXCEPT !.rel = TRUE]
      BY <1>0, <1>7 DEF Release, Goto, Alone, store
    <2>3. mem'[r].rel
      BY <2>1, <2>2 DEF Fact
    <2>4. QED
      BY <2>1, <2>2, <2>3 DEF SyncDue, BeforeLook
  <1>8. CASE RemovePod(r)
    <2>1. /\ pc[r] = "remove" /\ pc'[r] = "wait" /\ mem' = mem /\ Alone(r) /\ fact' = fact
      BY <1>0, <1>8 DEF RemovePod, Goto, Alone, store
    <2>2. QED
      BY <2>1 DEF SyncDue, BeforeLook
  <1>9. CASE AwaitPodGone(r)
    <2>1. fact' = fact
      BY <1>9 DEF AwaitPodGone, store
    <2>2. CASE pod.uid = 0
      <3>1. mem[r] \in Fact /\ mem[r].rel
        BY <1>0, <1>9 DEF AwaitPodGone, SyncDue
      <3>2. /\ pc'[r] = "saveGet" /\ Alone(r)
            /\ mem'[r] = [mem[r] EXCEPT !.del = TRUE]
        BY <1>0, <1>9, <2>2 DEF AwaitPodGone, Goto, Alone
      <3>3. mem'[r].rel /\ mem'[r].del
        BY <3>1, <3>2 DEF Fact
      <3>4. QED
        BY <2>1, <3>2, <3>3 DEF SyncDue, BeforeLook
    <2>3. CASE pod.uid # 0
      <3>1. Answer(r, "error")
        BY <1>9, <2>3 DEF AwaitPodGone
      <3>2. QED
        BY <1>0, <2>1, <3>1, AnswerDue
    <2>4. QED
      BY <2>2, <2>3
  <1>10. CASE ReportReleased(r)
    <2>1. mem[r] \in Fact /\ mem[r].rel /\ mem[r].del /\ fact' = fact
      BY <1>0, <1>10 DEF ReportReleased, FactInv, CopySound, store
    <2>2. CASE Answer(r, "error")
      BY <1>0, <2>1, <2>2, AnswerDue
    <2>3. CASE ~Answer(r, "error")
      <3>1. /\ pc'[r] = "saveGet" /\ Alone(r)
            /\ mem'[r] = [mem[r] EXCEPT !.term = TRUE]
        BY <1>0, <1>10, <2>3 DEF ReportReleased, Goto, Alone
      <3>2. mem'[r].rel /\ mem'[r].del
        BY <2>1, <3>1 DEF Fact
      <3>3. QED
        BY <2>1, <3>1, <3>2 DEF SyncDue, BeforeLook
    <2>4. QED
      BY <2>2, <2>3
  <1>11. QED
    BY <1>1, <1>2, <1>3, <1>4, <1>5, <1>6, <1>7, <1>8, <1>9, <1>10 DEF DeleteCall

(* A PUT's calls.                                                          *)
LEMMA PutCallDue ==
  ASSUME TypeOK, NEW r \in Req, SyncDue(r), StartPut(r) \/ PutStep(r)
  PROVE  SyncDue(r)' /\ Alone(r) /\ (fact' = fact \/ fact' = mem[r])
  <1>0. /\ pc \in [Req -> Pcs] /\ mem \in [Req -> Fact]
        /\ seen \in [Req -> Sight] /\ synced \in [Req -> BOOLEAN]
        /\ (mem[r].del => mem[r].rel)
    BY DEF TypeOK, SyncDue
  <1>1. CASE StartPut(r)
    <2>1. pc'[r] = "mount" /\ mem' = mem /\ Alone(r) /\ fact' = fact
      BY <1>0, <1>1 DEF StartPut, Alone, store
    <2>2. QED
      BY <1>0, <2>1, PutDue DEF PutPcs
  <1>2. CASE ResolveMount(r)
    <2>1. CASE Goto(r, "create") /\ UNCHANGED <<mem, seen, synced>>
      <3>1. pc'[r] = "create" /\ mem' = mem /\ Alone(r)
        BY <1>0, <2>1 DEF Goto, Alone
      <3>2. QED
        BY <1>0, <1>2, <3>1, PutDue DEF PutPcs, ResolveMount, store
    <2>2. CASE Answer(r, "refused")
      BY <1>2, <2>2, AnswerDue DEF ResolveMount, store
    <2>3. QED
      BY <1>2, <2>1, <2>2 DEF ResolveMount
  <1>3. CASE CreatePod(r)
    <2>1. pc'[r] \in {"putGet", "existing"} /\ Alone(r) /\ fact' = fact
      BY <1>0, <1>3 DEF CreatePod, Goto, Alone, store
    <2>2. mem'[r] = mem[r] \/ mem'[r] = FreshFact(born + 1, 0)
      BY <1>0, <1>3 DEF CreatePod
    <2>3. mem'[r].del => mem'[r].rel
      BY <1>0, <2>2 DEF FreshFact
    <2>4. QED
      BY <2>1, <2>3, PutDue DEF PutPcs
  <1>4. CASE ReuseExisting(r)
    <2>1. CASE /\ seen' = [seen EXCEPT ![r] = Sighting]
               /\ mem' = [mem EXCEPT ![r] = FreshFact(pod.uid, 0)]
               /\ Goto(r, "putGet")
               /\ UNCHANGED <<synced, base>>
      <3>1. pc'[r] = "putGet" /\ mem'[r] = FreshFact(pod.uid, 0) /\ Alone(r)
        BY <1>0, <2>1 DEF Goto, Alone
      <3>2. ~mem'[r].del
        BY <3>1 DEF FreshFact
      <3>3. QED
        BY <1>4, <3>1, <3>2, PutDue DEF PutPcs, ReuseExisting, store
    <2>2. CASE Drift(r) \/ Answer(r, "error")
      BY <1>4, <2>2, AnswerDue DEF Drift, ReuseExisting, store
    <2>3. QED
      BY <1>4, <2>1, <2>2 DEF ReuseExisting
  <1>5. CASE PutGet(r)
    <2>1. /\ pc'[r] = "putWrite" /\ mem'[r] = [mem[r] EXCEPT !.stamp = clock + 1]
          /\ Alone(r) /\ fact' = fact
      BY <1>0, <1>5 DEF PutGet, Goto, Alone
    <2>2. mem'[r].del => mem'[r].rel
      BY <1>0, <2>1 DEF Fact
    <2>3. QED
      BY <2>1, <2>2, PutDue DEF PutPcs
  <1>6. CASE PutWrite(r)
    <2>1. CASE SaveFailed(r) /\ fact' = fact
      BY <2>1, SaveFailedDue
    <2>2. CASE /\ pc' = [pc EXCEPT ![r] = "idle"]
               /\ mem' = [mem EXCEPT ![r] = NoFact]
               /\ seen' = [seen EXCEPT ![r] = NoSight]
               /\ synced' = [synced EXCEPT ![r] = FALSE]
               /\ Store(r, mem[r])
      <3>1. pc'[r] = "idle" /\ mem'[r] = NoFact /\ Alone(r) /\ fact' = mem[r]
        BY <1>0, <2>2 DEF Alone, Store
      <3>2. QED
        BY <3>1, IdleDue
    <2>3. QED
      BY <1>6, <2>1, <2>2 DEF PutWrite
  <1>7. CASE Rollback(r)
    BY <1>7, AnswerDue DEF Rollback, store
  <1>8. QED
    BY <1>1, <1>2, <1>3, <1>4, <1>5, <1>6, <1>7 DEF PutStep

(* A call that fails, or whose answer is lost.                             *)
LEMMA FailDue ==
  ASSUME TypeOK, NEW r \in Req, SyncDue(r), Fail(r)
  PROVE  SyncDue(r)' /\ Alone(r) /\ fact' = fact
  BY AnswerDue, SaveFailedDue DEF Fail, store

LEMMA LostAnswerDue ==
  ASSUME TypeOK, NEW r \in Req, SyncDue(r), LostAnswer(r)
  PROVE  SyncDue(r)' /\ Alone(r) /\ (fact' = fact \/ fact' = mem[r])
  <1>1. CASE \E a \in Answers : Answer(r, a) /\ fact' = fact
    BY <1>1, AnswerDue
  <1>2. CASE Store(r, mem[r]) /\ Goto(r, "rollback") /\ UNCHANGED <<mem, seen, synced>>
    <2>1. pc'[r] = "rollback" /\ mem'[r] = mem[r] /\ Alone(r) /\ fact' = mem[r]
      BY <1>2 DEF TypeOK, Store, Goto, Alone
    <2>2. QED
      BY <2>1, PutDue DEF SyncDue, PutPcs
  <1>3. QED
    BY <1>1, <1>2 DEF LostAnswer, Answers

(* A DELETE begins: it takes what is unsynced to its charge, and has not   *)
(* read its Pod yet.                                                       *)
LEMMA BeginDue ==
  ASSUME TypeOK, NEW r \in Req, BeginDelete(r)
  PROVE  SyncDue(r)' /\ Alone(r) /\ fact' = fact
  <1>1. /\ pc'[r] = "lock" /\ mem'[r] = mem[r] /\ synced'[r] = synced[r] /\ Alone(r)
        /\ fact' = fact /\ pc[r] = "idle"
    BY DEF TypeOK, BeginDelete, StartDelete, Idle, Alone, store
  <1>2. mem[r] = NoFact /\ ~synced[r]
    BY <1>1 DEF TypeOK, IdleIsClean
  <1>3. QED
    BY <1>1, <1>2 DEF SyncDue, NoFact, BeforeLook

(* The barrier lets a DELETE go on only after a sync command that ended    *)
(* with exit code 0 in time, and such a sync leaves nothing owed.          *)
LEMMA SyncEndsDue ==
  ASSUME TypeOK, NEW r \in Req, SyncDue(r), SyncEnds(r)
  PROVE  SyncDue(r)' /\ Alone(r) /\ fact' = fact
  <1>0. pc \in [Req -> Pcs] /\ mem \in [Req -> Fact] /\ synced \in [Req -> BOOLEAN]
    BY DEF TypeOK
  <1>1. PICK how \in Endings, late \in BOOLEAN :
          /\ pc[r] = "flush"
          /\ Possible(how, late)
          /\ IF FlushWorkloadMount(Exec(how, late))
               THEN Flush(r)
               ELSE Fail(r) \/ (pod.phase # "Running" /\ Flush(r))
          /\ WritesStay(how # "exit0")
    BY DEF SyncEnds
  <1>2. CASE Fail(r)
    BY <1>2, FailDue
  <1>3. CASE Flush(r) /\ pod.phase # "Running"
    BY <1>3, AnswerDue DEF Flush, store
  <1>4. CASE Flush(r) /\ pod.phase = "Running" /\ ~Fail(r)
    <2>1. FlushWorkloadMount(Exec(how, late))
      BY <1>1, <1>2, <1>4
    <2>2. how = "exit0"
      <3>1. CASE late
        BY <2>1, <3>1 DEF FlushWorkloadMount, Exec
      <3>2. CASE ~late
        BY <1>1, <2>1, <3>2 DEF FlushWorkloadMount, Exec, Endings, Possible
      <3>3. QED
        BY <3>1, <3>2
    <2>3. ~owed'[r]
      BY <1>1, <2>2 DEF WritesStay
    <2>4. /\ pc'[r] = IF mem[r].rel THEN "remove" ELSE "release"
          /\ mem' = mem /\ seen' = seen /\ Alone(r) /\ fact' = fact
      BY <1>0, <1>4 DEF Flush, Goto, Alone, store
    <2>5. QED
      BY <2>3, <2>4 DEF SyncDue, BeforeLook
  <1>5. QED
    BY <1>1, <1>2, <1>3, <1>4

(* A step of one request keeps the invariant when it keeps its own part of *)
(* it, stores at most its own copy and adds nothing to what others owe.    *)
LEMMA RequestStep ==
  ASSUME SyncInv, FactInv', MountTypeOK', NEW r \in Req, SyncDue(r)', Alone(r),
         fact' = fact \/ fact' = mem[r], \A q \in Req \ {r} : owed'[q] => owed[q]
  PROVE  SyncInv'
  <1>1. (fact.del => fact.rel)'
    BY DEF SyncInv, SyncDue
  <1>2. ASSUME NEW q \in Req PROVE SyncDue(q)'
    <2>1. CASE q = r
      BY <2>1
    <2>2. CASE q # r
      BY <2>2, DueStays DEF SyncInv, Alone
    <2>3. QED
      BY <2>1, <2>2
  <1>3. QED
    BY <1>1, <1>2 DEF SyncInv

(* A step of no request: the DELETEs read nothing and owe no more.         *)
LEMMA OtherStep ==
  ASSUME SyncInv, FactInv', MountTypeOK', fact' = fact, \A q \in Req : owed'[q] => owed[q],
         \A q \in Req : \/ /\ pc'[q] = pc[q] /\ mem'[q] = mem[q]
                           /\ seen'[q] = seen[q] /\ synced'[q] = synced[q]
                        \/ pc'[q] = "idle" /\ mem'[q] = NoFact
  PROVE  SyncInv'
  <1>1. ASSUME NEW q \in Req PROVE SyncDue(q)'
    BY DueStays, IdleDue DEF SyncInv
  <1>2. QED
    BY <1>1 DEF SyncInv

LEMMA SessionInitInv == SessionInit => SyncInv
  <1> SUFFICES ASSUME SessionInit PROVE SyncInv
    OBVIOUS
  <1>1. FactInv
    BY InitInv DEF SessionInit
  <1>2. MountTypeOK
    BY DEF SessionInit, MountTypeOK
  <1>3. ASSUME NEW r \in Req PROVE SyncDue(r)
    BY DEF SessionInit, Init, SyncDue, NoFact, BeforeLook
  <1>4. fact.del => fact.rel
    BY DEF SessionInit, Init, NoFact
  <1>5. QED
    BY <1>1, <1>2, <1>3, <1>4 DEF SyncInv

LEMMA SessionNextInv == SyncInv /\ [SessionNext]_svars => SyncInv'
  <1> SUFFICES ASSUME SyncInv, [SessionNext]_svars PROVE SyncInv'
    OBVIOUS
  <1>0. /\ FactInv /\ TypeOK /\ MountTypeOK /\ FactInv' /\ Ages
        /\ (fact.del => fact.rel) /\ \A r \in Req : SyncDue(r)
    BY StepOfLifecycle, NextInv, NextAges DEF SyncInv, FactInv
  <1>a. ASSUME MountFollows
        PROVE  MountTypeOK' /\ \A q \in Req : owed'[q] => owed[q]
    BY <1>0, <1>a, MountStays DEF MountFollows
  <1>1. ASSUME NEW r \in Req, DeleteCallFollowed(r)
        PROVE  SyncInv'
    BY <1>0, <1>a, <1>1, CallDue, RequestStep DEF DeleteCallFollowed
  <1>2. ASSUME NEW r \in Req, (StartPut(r) \/ PutStep(r)) /\ MountFollows
        PROVE  SyncInv'
    BY <1>0, <1>a, <1>2, PutCallDue, RequestStep
  <1>3. ASSUME NEW r \in Req, Fail(r) /\ MountFollows
        PROVE  SyncInv'
    BY <1>0, <1>a, <1>3, FailDue, RequestStep
  <1>4. ASSUME NEW r \in Req, LostAnswer(r) /\ MountFollows
        PROVE  SyncInv'
    BY <1>0, <1>a, <1>4, LostAnswerDue, RequestStep
  <1>5. ASSUME NEW r \in Req, BeginDelete(r)
        PROVE  SyncInv'
    <2>1. /\ owed' = [owed EXCEPT ![r] = unsynced] /\ unsynced' = unsynced
          /\ pod' = pod /\ pc' = [pc EXCEPT ![r] = "lock"]
      BY <1>5 DEF BeginDelete, StartDelete, k8s
    <2>2. /\ owed' \in [Req -> BOOLEAN]
          /\ \A q \in Req \ {r} : owed'[q] = owed[q] /\ pc'[q] = pc[q]
          /\ owed'[r] = unsynced /\ pc'[r] = "lock"
      BY <1>0, <2>1 DEF MountTypeOK, TypeOK
    <2>3. MountTypeOK'
      BY <1>0, <2>1, <2>2 DEF MountTypeOK
    <2>4. QED
      BY <1>0, <1>5, <2>2, <2>3, BeginDue, RequestStep
  <1>6. ASSUME NEW r \in Req, SyncEnds(r)
        PROVE  SyncInv'
    <2>1. PICK how \in Endings : WritesStay(how # "exit0")
      BY <1>6 DEF SyncEnds
    <2>2. pod' = pod
      BY <1>6 DEF SyncEnds, Flush, Fail, k8s
    <2>3. MountTypeOK' /\ \A q \in Req : owed'[q] => owed[q]
      BY <1>0, <2>1, <2>2, MountStays
    <2>4. QED
      BY <1>0, <1>6, <2>3, SyncEndsDue, RequestStep
  <1>7. ASSUME NEW p \in Replica, Crash(p) /\ MountFollows
        PROVE  SyncInv'
    <2>1. /\ fact' = fact
          /\ \A q \in Req : \/ /\ pc'[q] = pc[q] /\ mem'[q] = mem[q]
                               /\ seen'[q] = seen[q] /\ synced'[q] = synced[q]
                            \/ pc'[q] = "idle" /\ mem'[q] = NoFact
      BY <1>7 DEF Crash, store
    <2>2. QED
      BY <1>0, <1>a, <1>7, <2>1, OtherStep
  <1>8. CASE Kubernetes /\ MountFollows
    <2>1. UNCHANGED <<fact, pc, mem, seen, synced>>
      BY <1>8 DEF Kubernetes, PodStarts, PodExits, PodGone, PodEvicted, store, locals
    <2>2. QED
      BY <1>0, <1>a, <1>8, <2>1, OtherStep
  <1>9. CASE Write
    <2>1. UNCHANGED <<pod, fact, pc, mem, seen, synced, owed>> /\ unsynced' = TRUE
          /\ pod.uid # 0 /\ pod.phase = "Running"
      BY <1>9 DEF Write, vars, k8s, store, locals
    <2>2. MountTypeOK'
      BY <1>0, <2>1 DEF MountTypeOK
    <2>3. QED
      BY <1>0, <2>1, <2>2, OtherStep
  <1>10. CASE UNCHANGED svars
    <2>1. UNCHANGED <<pod, fact, pc, mem, seen, synced, owed, unsynced>>
      BY <1>10 DEF svars, mount, vars, k8s, store, locals
    <2>2. MountTypeOK'
      BY <1>0, <2>1 DEF MountTypeOK
    <2>3. QED
      BY <1>0, <2>1, <2>2, OtherStep
  <1>11. QED
    BY <1>1, <1>2, <1>3, <1>4, <1>5, <1>6, <1>7, <1>8, <1>9, <1>10
       DEF SessionNext, PutStepFollowed

(* The inductive invariant of a session.                                   *)
THEOREM SessionInvariance == SessionSpec => []SyncInv
  BY SessionInitInv, SessionNextInv, PTL DEF SessionSpec

(* Every variable of a session keeps its type.                             *)
THEOREM SessionTypes == SessionSpec => []SessionTypeOK
  <1>1. SyncInv => SessionTypeOK
    BY DEF SyncInv, FactInv, SessionTypeOK
  <1>2. QED
    BY <1>1, SessionInvariance, PTL

(* No DELETE releases a mount or removes a Pod while writes from before it *)
(* began are unsynced, however its flush barrier's command ends.           *)
THEOREM WritesReachStorage == SessionSpec => []WritesAreSynced
  <1>1. SyncInv => WritesAreSynced
    BY DEF SyncInv, SyncDue, WritesAreSynced
  <1>2. QED
    BY <1>1, SessionInvariance, PTL

(* The stored terminal fact of a session claims only what has happened ... *)
THEOREM SessionFactsAreBacked == SessionSpec => []FactBacked
  BY SessionIsLifecycle, FactsAreBacked, PTL

(* ... and its mounts are released, removed and reported in order, if the  *)
(* uid is among the bytes the release's key keeps.                         *)
THEOREM SessionReleasesInOrder ==
  ASSUME "release" \in KeyedByUid
  PROVE  SessionSpec => ImplementsMountRelease
  BY SessionIsLifecycle, ReleasesInOrder

(* In a session, too, the DELETEs of one process exclude each other.       *)
THEOREM SessionDeletesExclude == SessionSpec => ImplementsDeleteMutex
  BY SessionIsLifecycle, DeletesExclude
=============================================================================
