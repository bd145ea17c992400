----------------------- MODULE WorkspaceBinding_proofs -----------------------
(***************************************************************************)
(* Proofs about WorkspaceBinding, for any number of requests and           *)
(* workloads, whatever overlaps, fails or crashes: the types, and that the *)
(* reference AFSCP needs to close a mount is never lost.                   *)
(***************************************************************************)
EXTENDS WorkspaceBinding, TLAPS

USE DEF Save, NewVolume, NewClaim

(* The facts a request creates or carries are facts.                       *)
LEMMA FactTypes ==
  /\ NoFact \in Fact
  /\ \A t \in Nat : NewFact(t + 1) \in Fact /\ NewFact(t + 1).stamp # 0 /\ ~NewFact(t + 1).done
  /\ ~NoFact.done
  BY DEF NoFact, Fact, NewFact

(* Answering keeps the types of a request's locals.                        *)
LEMMA AnswerTypes ==
  ASSUME TypeOK, NEW r \in Req, NEW a \in Answers, Answer(r, a)
  PROVE  /\ pc' \in [Req -> {"idle"} \cup EnsurePcs \cup DeletePcs]
         /\ mem' \in [Req -> Fact]
         /\ out' \in [Req -> Answers]
  BY FactTypes DEF Answer, TypeOK

(* Moving on to another call does, too.                                    *)
LEMMA GotoTypes ==
  ASSUME TypeOK, NEW r \in Req, NEW l \in EnsurePcs \cup DeletePcs, Goto(r, l)
  PROVE  /\ pc' \in [Req -> {"idle"} \cup EnsurePcs \cup DeletePcs]
         /\ out' \in [Req -> Answers]
  BY DEF Goto, TypeOK

(* The types, step by step.                                                *)
LEMMA TypeInit == BindingAssumption /\ Init => TypeOK
  <1> SUFFICES ASSUME Init PROVE TypeOK
    OBVIOUS
  <1>1. fact \in Fact /\ mem \in [Req -> Fact]
    BY FactTypes DEF Init
  <1>2. deleting \subseteq {"pv", "pvc"} /\ "pv" \notin deleting /\ "pvc" \notin deleting
    BY DEF Init
  <1>3. out \in [Req -> Answers] /\ pc \in [Req -> {"idle"} \cup EnsurePcs \cup DeletePcs]
    BY DEF Init, Answers
  <1>4. wpc \in [Workload -> {"idle", "create", "record"}]
        /\ pods \in [Workload -> {"none", "waiting", "placed"}]
        /\ wfact \in [Workload -> {"none", "open", "terminal"}]
    BY DEF Init
  <1>5. QED
    BY <1>1, <1>2, <1>3, <1>4 DEF Init, TypeOK

LEMMA TypeStep == TypeOK /\ [Next]_vars => TypeOK'
  <1> SUFFICES ASSUME TypeOK, [Next]_vars PROVE TypeOK'
    OBVIOUS
  <1> USE DEF storage, afscp, store, locals, workloads, counters, Fault
  <1>1. ASSUME NEW r \in Req, StartEnsure(r) PROVE TypeOK'
    BY <1>1 DEF StartEnsure, Start, TypeOK, EnsurePcs, Answers
  <1>2. ASSUME NEW r \in Req, EnsureStep(r) PROVE TypeOK'
    <2>1. CASE FetchPlan(r)
      <3>1. /\ pc' \in [Req -> {"idle"} \cup EnsurePcs \cup DeletePcs]
            /\ mem' \in [Req -> Fact] /\ out' \in [Req -> Answers]
        BY <2>1, AnswerTypes, GotoTypes DEF FetchPlan, TypeOK, EnsurePcs, Answers
      <3>2. QED
        BY <2>1, <3>1 DEF FetchPlan, TypeOK
    <2>2. CASE EnsurePV(r)
      <3>1. pc' \in [Req -> {"idle"} \cup EnsurePcs \cup DeletePcs] /\ out' \in [Req -> Answers]
        BY <2>2, GotoTypes DEF EnsurePV, EnsurePcs
      <3>2. QED
        BY <2>2, <3>1 DEF EnsurePV, TypeOK
    <2>3. CASE EnsurePVC(r)
      <3>1. pc' \in [Req -> {"idle"} \cup EnsurePcs \cup DeletePcs] /\ out' \in [Req -> Answers]
        BY <2>3, GotoTypes DEF EnsurePVC, EnsurePcs
      <3>2. QED
        BY <2>3, <3>1 DEF EnsurePVC, TypeOK
    <2>4. CASE AwaitBound(r)
      <3>1. /\ pc' \in [Req -> {"idle"} \cup EnsurePcs \cup DeletePcs]
            /\ mem' \in [Req -> Fact] /\ out' \in [Req -> Answers]
        BY <2>4, AnswerTypes DEF AwaitBound, Answers
      <3>2. QED
        BY <2>4, <3>1 DEF AwaitBound, TypeOK
    <2>5. QED
      BY <1>2, <2>1, <2>2, <2>3, <2>4 DEF EnsureStep
  <1>3. ASSUME NEW r \in Req, StartDelete(r) PROVE TypeOK'
    BY <1>3 DEF StartDelete, Start, TypeOK, DeletePcs, Answers
  <1>4. ASSUME NEW r \in Req, DeleteStep(r) PROVE TypeOK'
    <2>1. CASE ListFacts(r) \/ ListPods(r) \/ PollPVC(r)
      <3>1. /\ pc' \in [Req -> {"idle"} \cup EnsurePcs \cup DeletePcs]
            /\ mem' \in [Req -> Fact] /\ out' \in [Req -> Answers]
        BY <2>1, AnswerTypes, GotoTypes DEF ListFacts, ListPods, PollPVC, TypeOK, DeletePcs, Answers
      <3>2. QED
        BY <2>1, <3>1 DEF ListFacts, ListPods, PollPVC, TypeOK
    <2>2. CASE LoadFact(r)
      <3>1. pc' \in [Req -> {"idle"} \cup EnsurePcs \cup DeletePcs] /\ out' \in [Req -> Answers]
        BY <2>2, GotoTypes DEF LoadFact, DeletePcs
      <3>2. QED
        BY <2>2, <3>1 DEF LoadFact, TypeOK
    <2>3. CASE ResolveRef(r) \/ ResolveRefFromPV(r)
      <3>1. /\ pc' \in [Req -> {"idle"} \cup EnsurePcs \cup DeletePcs]
            /\ mem' \in [Req -> Fact] /\ out' \in [Req -> Answers]
        BY <2>3, AnswerTypes, GotoTypes, FactTypes
           DEF ResolveRef, ResolveRefFromPV, TypeOK, DeletePcs, Answers
      <3>2. clock' \in Nat
        BY <2>3 DEF ResolveRef, ResolveRefFromPV, TypeOK
      <3>3. QED
        BY <2>3, <3>1, <3>2 DEF ResolveRef, ResolveRefFromPV, TypeOK
    <2>4. CASE Record(r) \/ SaveGone(r)
      <3>1. pc' \in [Req -> {"idle"} \cup EnsurePcs \cup DeletePcs] /\ out' \in [Req -> Answers]
        BY <2>4, GotoTypes DEF Record, SaveGone, DeletePcs
      <3>2. QED
        BY <2>4, <3>1 DEF Record, SaveGone, TypeOK
    <2>5. CASE DropPVC(r) \/ DropPV(r)
      <3>1. pc' \in [Req -> {"idle"} \cup EnsurePcs \cup DeletePcs] /\ out' \in [Req -> Answers]
        BY <2>5, GotoTypes DEF DropPVC, DropPV, DeletePcs
      <3>2. QED
        BY <2>5, <3>1 DEF DropPVC, DropPV, TypeOK
    <2>6. CASE PollPV(r)
      <3>1. /\ pc' \in [Req -> {"idle"} \cup EnsurePcs \cup DeletePcs] /\ out' \in [Req -> Answers]
        BY <2>6, AnswerTypes, GotoTypes DEF PollPV, DeletePcs, Answers
      <3>2. mem' \in [Req -> Fact]
        <4>1. CASE mem' = [mem EXCEPT ![r].gone = TRUE]
          BY <4>1 DEF TypeOK, Fact
        <4>2. CASE mem' = mem
          BY <4>2 DEF TypeOK
        <4>3. CASE mem' = [mem EXCEPT ![r] = NoFact]
          BY <4>3, FactTypes DEF TypeOK
        <4>4. QED
          BY <2>6, <4>1, <4>2, <4>3 DEF PollPV, Answer
      <3>3. QED
        BY <2>6, <3>1, <3>2 DEF PollPV, TypeOK
    <2>7. CASE Report(r)
      <3>1. pc' \in [Req -> {"idle"} \cup EnsurePcs \cup DeletePcs] /\ out' \in [Req -> Answers]
        BY <2>7, AnswerTypes, GotoTypes DEF Report, DeletePcs, Answers
      <3>2. mem' \in [Req -> Fact]
        <4>1. CASE mem' = [mem EXCEPT ![r].done = TRUE]
          BY <4>1 DEF TypeOK, Fact
        <4>2. CASE mem' = mem
          BY <4>2 DEF TypeOK
        <4>3. CASE mem' = [mem EXCEPT ![r] = NoFact]
          BY <4>3, FactTypes DEF TypeOK
        <4>4. QED
          BY <2>7, <4>1, <4>2, <4>3 DEF Report, Answer
      <3>3. accepted' \in Nat
        BY <2>7 DEF Report, TypeOK, Fact
      <3>4. QED
        BY <2>7, <3>1, <3>2, <3>3 DEF Report, TypeOK
    <2>8. CASE SaveDone(r)
      <3>1. /\ pc' \in [Req -> {"idle"} \cup EnsurePcs \cup DeletePcs]
            /\ mem' \in [Req -> Fact] /\ out' \in [Req -> Answers]
        BY <2>8, AnswerTypes DEF SaveDone, Answers
      <3>2. QED
        BY <2>8, <3>1 DEF SaveDone, TypeOK
    <2>9. QED
      BY <1>4, <2>1, <2>2, <2>3, <2>4, <2>5, <2>6, <2>7, <2>8 DEF DeleteStep
  <1>5. ASSUME NEW r \in Req, Fail(r) \/ LostAnswer(r) PROVE TypeOK'
    <2>1. /\ pc' \in [Req -> {"idle"} \cup EnsurePcs \cup DeletePcs]
          /\ mem' \in [Req -> Fact] /\ out' \in [Req -> Answers]
      BY <1>5, AnswerTypes DEF Fail, LostAnswer, Answers
    <2>2. fact' \in Fact /\ accepted' \in Nat
      BY <1>5 DEF Fail, LostAnswer, TypeOK, Fact
    <2>3. faults' \in Nat
      BY <1>5 DEF Fail, LostAnswer, TypeOK
    <2>4. QED
      BY <1>5, <2>1, <2>2, <2>3 DEF Fail, LostAnswer, TypeOK
  <1>6. ASSUME NEW w \in Workload, CheckMount(w) \/ PutStep(w) \/ CloseStep(w)
        PROVE TypeOK'
    <2>1. /\ wpc' \in [Workload -> {"idle", "create", "record"}]
          /\ wfact' \in [Workload -> {"none", "open", "terminal"}] /\ creates' \in Nat
      BY <1>6 DEF CheckMount, PutStep, CreatePod, RecordWorkload, CloseStep, TrackPod,
                  StopPod, CloseFact, TypeOK
    <2>2. pods' \in [Workload -> {"none", "waiting", "placed"}]
      <3>1. CASE pods' = pods
        BY <3>1 DEF TypeOK
      <3>2. CASE pods' = [pods EXCEPT ![w] = IF pods[w] = "none" THEN "waiting" ELSE pods[w]]
        BY <3>2 DEF TypeOK
      <3>3. CASE pods' = [pods EXCEPT ![w] = "none"]
        BY <3>3 DEF TypeOK
      <3>4. QED
        BY <1>6, <3>1, <3>2, <3>3 DEF CheckMount, PutStep, CreatePod, RecordWorkload,
           CloseStep, TrackPod, StopPod, CloseFact
    <2>3. UNCHANGED <<storage, afscp, store, locals, ensures, faults>>
      BY <1>6 DEF CheckMount, PutStep, CreatePod, RecordWorkload, CloseStep, TrackPod,
                  StopPod, CloseFact
    <2>4. QED
      BY <2>1, <2>2, <2>3 DEF TypeOK
  <1>7. ASSUME NEW w \in Workload, AbandonPut(w) \/ PlacePod(w) PROVE TypeOK'
    <2>1. /\ wpc' \in [Workload -> {"idle", "create", "record"}]
          /\ pods' \in [Workload -> {"none", "waiting", "placed"}]
          /\ faults' \in Nat
      BY <1>7 DEF AbandonPut, PlacePod, TypeOK
    <2>2. UNCHANGED <<storage, afscp, store, locals, wfact, ensures, creates>>
      BY <1>7 DEF AbandonPut, PlacePod
    <2>3. QED
      BY <2>1, <2>2 DEF TypeOK
  <1>8. CASE Bind \/ LoseVolume \/ ClaimGone \/ VolumeGone
    BY <1>8 DEF Bind, LoseVolume, ClaimGone, VolumeGone, TypeOK
  <1>9. CASE UNCHANGED vars
    BY <1>9 DEF vars, TypeOK
  <1>10. QED
    BY <1>1, <1>2, <1>3, <1>4, <1>5, <1>6, <1>7, <1>8, <1>9 DEF Next

(* Every variable keeps its type.                                          *)
THEOREM TypeCorrect == Spec => []TypeOK
  BY TypeInit, TypeStep, BindingAssumption, PTL DEF Spec

-----------------------------------------------------------------------------
(* The invariant looks at storage, at the stored fact, at what AFSCP       *)
(* accepted, and at where each request is with which copy.  Steps that     *)
(* touch none of these keep it.                                            *)
LEMMA OtherSteps ==
  ASSUME ReleaseInv, TypeOK', UNCHANGED <<fact, accepted, pc, mem, made>>,
         deleting' # {} => deleting # {},
         made /\ fact.stamp = 0 => pv' # "none" \/ pvc' # "none"
  PROVE  ReleaseInv'
  BY DEF ReleaseInv, DoneIsAccepted, Accepted

(* A request moves to call l with copy m; the store and AFSCP stay.        *)
LEMMA LocalStep ==
  ASSUME ReleaseInv, TypeOK', UNCHANGED <<fact, accepted>>,
         NEW r \in Req, NEW l, NEW m,
         pc' = [pc EXCEPT ![r] = l], mem' = [mem EXCEPT ![r] = m],
         Accepted(m),
         l \in AfterRecord => fact.stamp # 0,
         l \in AfterRecord \cup {"record"} => m.stamp # 0,
         deleting' # {} => fact.stamp # 0,
         made' /\ fact.stamp = 0 => pv' # "none" \/ pvc' # "none"
  PROVE  ReleaseInv'
  <1>1. DoneIsAccepted' /\ (accepted' # 0 => fact'.stamp # 0)
    BY DEF ReleaseInv, DoneIsAccepted, Accepted
  <1>2. ASSUME NEW q \in Req
        PROVE /\ Accepted(mem[q])'
              /\ pc'[q] \in AfterRecord => fact'.stamp # 0
              /\ pc'[q] \in AfterRecord \cup {"record"} => mem'[q].stamp # 0
    <2>1. CASE q = r
      <3>1. pc'[q] = l /\ mem'[q] = m
        BY <2>1 DEF ReleaseInv, TypeOK
      <3>2. QED
        BY <3>1 DEF Accepted
    <2>2. CASE q # r
      <3>1. pc'[q] = pc[q] /\ mem'[q] = mem[q]
        BY <2>2 DEF ReleaseInv, TypeOK
      <3>2. QED
        BY <3>1 DEF Accepted, ReleaseInv
    <2>3. QED
      BY <2>1, <2>2
  <1>3. QED
    BY <1>1, <1>2 DEF ReleaseInv

(* A request that answers leaves nothing behind.                           *)
LEMMA AnswerStep ==
  ASSUME ReleaseInv, TypeOK', UNCHANGED <<fact, accepted>>,
         NEW r \in Req, NEW a, Answer(r, a), UNCHANGED <<pv, pvc, deleting, made>>
  PROVE  ReleaseInv'
  <1>1. Accepted(NoFact) /\ "idle" \notin AfterRecord \cup {"record"}
    BY FactTypes DEF Accepted, AfterRecord
  <1>2. QED
    BY <1>1, LocalStep DEF Answer, ReleaseInv

(* A request goes on with the copy it has.                                 *)
LEMMA GotoStep ==
  ASSUME ReleaseInv, TypeOK', UNCHANGED <<fact, accepted>>,
         NEW r \in Req, NEW l, pc' = [pc EXCEPT ![r] = l], UNCHANGED mem,
         l \in AfterRecord => fact.stamp # 0 /\ mem[r].stamp # 0,
         l # "record",
         deleting' # {} => fact.stamp # 0,
         made' /\ fact.stamp = 0 => pv' # "none" \/ pvc' # "none"
  PROVE  ReleaseInv'
  <1>1. mem' = [mem EXCEPT ![r] = mem[r]]
    BY DEF ReleaseInv, TypeOK
  <1>2. Accepted(mem[r])
    BY DEF ReleaseInv
  <1>3. QED
    BY <1>1, <1>2, LocalStep

(* A Save stores a sound copy and the request goes on or answers.          *)
LEMMA SaveStep ==
  ASSUME ReleaseInv, TypeOK', UNCHANGED <<pv, pvc, deleting, made, accepted>>,
         NEW r \in Req, pc[r] \in AfterRecord \cup {"record"}, fact' = mem[r],
         NEW l, pc' = [pc EXCEPT ![r] = l], l # "record",
         \/ mem' = mem
         \/ mem' = [mem EXCEPT ![r] = NoFact] /\ l = "idle"
  PROVE  ReleaseInv'
  <1>1. fact'.stamp # 0 /\ DoneIsAccepted'
    BY DEF ReleaseInv, DoneIsAccepted, Accepted
  <1>2. ASSUME NEW q \in Req
        PROVE Accepted(mem[q])' /\ (pc'[q] \in AfterRecord \cup {"record"} => mem'[q].stamp # 0)
    <2>1. CASE q = r /\ mem' # mem
      <3>1. mem'[q] = NoFact /\ pc'[q] = "idle"
        BY <2>1 DEF ReleaseInv, TypeOK
      <3>2. QED
        BY <3>1, FactTypes DEF Accepted, AfterRecord
    <2>2. CASE q = r /\ mem' = mem
      BY <2>2 DEF ReleaseInv, TypeOK, Accepted
    <2>3. CASE q # r
      <3>1. pc'[q] = pc[q] /\ mem'[q] = mem[q]
        BY <2>3 DEF ReleaseInv, TypeOK
      <3>2. QED
        BY <3>1 DEF Accepted, ReleaseInv
    <2>4. QED
      BY <2>1, <2>2, <2>3
  <1>3. QED
    BY <1>1, <1>2 DEF ReleaseInv

(* AFSCP accepts the status with the stamp of a sound copy, the first time *)
(* or again; copies that were already marked done carry that stamp.        *)
LEMMA AcceptStep ==
  ASSUME ReleaseInv, TypeOK', UNCHANGED <<pv, pvc, deleting, made, fact>>,
         NEW r \in Req, pc[r] = "status",
         accepted \in {0, mem[r].stamp}, accepted' = mem[r].stamp,
         NEW l, pc' = [pc EXCEPT ![r] = l], l # "record",
         \/ mem' = [mem EXCEPT ![r].done = TRUE]
         \/ mem' = [mem EXCEPT ![r] = NoFact] /\ l = "idle"
  PROVE  ReleaseInv'
  <1>1. mem[r].stamp # 0 /\ fact.stamp # 0
    BY DEF ReleaseInv, AfterRecord
  <1>2. DoneIsAccepted'
    BY <1>1 DEF ReleaseInv, DoneIsAccepted, Accepted
  <1>3. ASSUME NEW q \in Req
        PROVE Accepted(mem[q])' /\ (pc'[q] \in AfterRecord \cup {"record"} => mem'[q].stamp # 0)
    <2>1. CASE q = r /\ mem' = [mem EXCEPT ![r].done = TRUE]
      <3>1. mem'[q].stamp = mem[q].stamp
        BY <2>1 DEF ReleaseInv, TypeOK, Fact
      <3>2. QED
        BY <3>1, <2>1, <1>1 DEF Accepted
    <2>2. CASE q = r /\ mem' = [mem EXCEPT ![r] = NoFact] /\ l = "idle"
      <3>1. mem'[q] = NoFact /\ pc'[q] = "idle"
        BY <2>2 DEF ReleaseInv, TypeOK
      <3>2. QED
        BY <3>1, FactTypes DEF Accepted, AfterRecord
    <2>3. CASE q # r
      <3>1. pc'[q] = pc[q] /\ mem'[q] = mem[q]
        BY <2>3 DEF ReleaseInv, TypeOK
      <3>2. mem[q].done => accepted # 0 /\ accepted = mem[q].stamp
        BY DEF ReleaseInv, Accepted
      <3>3. QED
        BY <3>1, <3>2, <1>1 DEF Accepted, ReleaseInv
    <2>4. QED
      BY <2>1, <2>2, <2>3
  <1>4. QED
    BY <1>1, <1>2, <1>3 DEF ReleaseInv

-----------------------------------------------------------------------------
LEMMA InvInit == Init /\ TypeOK => ReleaseInv
  BY FactTypes DEF Init, ReleaseInv, DoneIsAccepted, Accepted, AfterRecord, NoFact

LEMMA InvEnsure ==
  ASSUME ReleaseInv, TypeOK', NEW r \in Req, StartEnsure(r) \/ EnsureStep(r)
  PROVE  ReleaseInv'
  <1> USE DEF storage, afscp, store, AfterRecord
  <1>1. CASE StartEnsure(r)
    <2>1. pc' = [pc EXCEPT ![r] = "plan"] /\ UNCHANGED <<storage, afscp, store, mem>>
      BY <1>1 DEF StartEnsure, Start
    <2>2. QED
      BY <2>1, GotoStep DEF ReleaseInv
  <1>2. CASE FetchPlan(r)
    <2>1. CASE Goto(r, "pv") /\ UNCHANGED mem
      BY <1>2, <2>1, GotoStep DEF FetchPlan, Goto, ReleaseInv
    <2>2. CASE Answer(r, "refused")
      BY <1>2, <2>2, AnswerStep DEF FetchPlan
    <2>3. QED
      BY <1>2, <2>1, <2>2 DEF FetchPlan
  <1>3. CASE EnsurePV(r)
    <2>1. /\ pc' = [pc EXCEPT ![r] = "pvc"] /\ UNCHANGED <<fact, accepted, mem>>
          /\ deleting' # {} => fact.stamp # 0
      BY <1>3 DEF EnsurePV, Goto, ReleaseInv
    <2>2. made' /\ fact.stamp = 0 => pv' # "none" \/ pvc' # "none"
      BY <1>3 DEF EnsurePV, ReleaseInv
    <2>3. QED
      BY <2>1, <2>2, GotoStep
  <1>4. CASE EnsurePVC(r)
    <2>1. /\ pc' = [pc EXCEPT ![r] = "bound"] /\ UNCHANGED <<fact, accepted, mem>>
          /\ deleting' # {} => fact.stamp # 0
      BY <1>4 DEF EnsurePVC, Goto, ReleaseInv
    <2>2. made' /\ fact.stamp = 0 => pv' # "none" \/ pvc' # "none"
      BY <1>4 DEF EnsurePVC, ReleaseInv
    <2>3. QED
      BY <2>1, <2>2, GotoStep
  <1>5. CASE AwaitBound(r)
    BY <1>5, AnswerStep DEF AwaitBound
  <1>6. QED
    BY <1>1, <1>2, <1>3, <1>4, <1>5 DEF EnsureStep

LEMMA InvDelete ==
  ASSUME ReleaseInv, TypeOK', NEW r \in Req, StartDelete(r) \/ DeleteStep(r)
  PROVE  ReleaseInv'
  <1> USE DEF storage, afscp, store
  <1>1. CASE StartDelete(r)
    <2>1. pc' = [pc EXCEPT ![r] = "facts"] /\ UNCHANGED <<storage, afscp, store, mem>>
      BY <1>1 DEF StartDelete, Start
    <2>2. QED
      BY <2>1, GotoStep DEF ReleaseInv, AfterRecord
  <1>2. CASE ListFacts(r)
    <2>1. CASE Goto(r, "pods") /\ UNCHANGED mem
      BY <1>2, <2>1, GotoStep DEF ListFacts, Goto, ReleaseInv, AfterRecord
    <2>2. CASE Answer(r, "incomplete")
      BY <1>2, <2>2, AnswerStep DEF ListFacts
    <2>3. QED
      BY <1>2, <2>1, <2>2 DEF ListFacts
  <1>3. CASE ListPods(r)
    <2>1. CASE Goto(r, "fact") /\ UNCHANGED mem
      BY <1>3, <2>1, GotoStep DEF ListPods, Goto, ReleaseInv, AfterRecord
    <2>2. CASE Answer(r, "incomplete")
      BY <1>3, <2>2, AnswerStep DEF ListPods
    <2>3. QED
      BY <1>3, <2>1, <2>2 DEF ListPods
  <1>4. CASE LoadFact(r)
    <2> DEFINE l == IF fact.stamp = 0 THEN "ref" ELSE "dropPvc"
    <2>1. /\ pc' = [pc EXCEPT ![r] = l] /\ mem' = [mem EXCEPT ![r] = fact]
          /\ UNCHANGED <<storage, afscp, store>>
      BY <1>4 DEF LoadFact, Goto
    <2>2. l \in AfterRecord \cup {"record"} => fact.stamp # 0
      BY DEF AfterRecord
    <2>3. Accepted(fact)
      BY DEF ReleaseInv, DoneIsAccepted
    <2> HIDE DEF l
    <2>4. QED
      BY <2>1, <2>2, <2>3, LocalStep DEF ReleaseInv
  <1>5. CASE ResolveRef(r) \/ ResolveRefFromPV(r)
    <2>1. CASE /\ pc' = [pc EXCEPT ![r] = "record"]
               /\ mem' = [mem EXCEPT ![r] = NewFact(clock + 1)]
      <3>1. NewFact(clock + 1).stamp # 0 /\ Accepted(NewFact(clock + 1))
        BY FactTypes DEF ReleaseInv, TypeOK, Accepted
      <3>2. UNCHANGED <<storage, afscp, fact>>
        BY <1>5 DEF ResolveRef, ResolveRefFromPV
      <3>3. "record" \notin AfterRecord
        BY DEF AfterRecord
      <3>4. QED
        BY <2>1, <3>1, <3>2, <3>3, LocalStep DEF ReleaseInv
    <2>2. CASE pc' = [pc EXCEPT ![r] = "refPv"] /\ UNCHANGED mem
      <3>1. UNCHANGED <<storage, afscp, fact>>
        BY <1>5 DEF ResolveRef, ResolveRefFromPV
      <3>2. QED
        BY <2>2, <3>1, GotoStep DEF ReleaseInv, AfterRecord
    <2>3. CASE Answer(r, "incomplete")
      BY <1>5, <2>3, AnswerStep DEF ResolveRef, ResolveRefFromPV
    <2>4. QED
      BY <1>5, <2>1, <2>2, <2>3 DEF ResolveRef, ResolveRefFromPV, Goto
  <1>6. CASE Record(r)
    BY <1>6, SaveStep DEF Record, Goto
  <1>7. CASE DropPVC(r) \/ DropPV(r)
    <2>1. fact.stamp # 0 /\ mem[r].stamp # 0
      BY <1>7 DEF DropPVC, DropPV, ReleaseInv, AfterRecord
    <2>2. UNCHANGED <<pv, pvc, made, afscp, store, mem>>
      BY <1>7 DEF DropPVC, DropPV
    <2>3. PICK l \in {"dropPv", "wait"} : pc' = [pc EXCEPT ![r] = l]
      BY <1>7 DEF DropPVC, DropPV, Goto
    <2>4. QED
      BY <2>1, <2>2, <2>3, GotoStep DEF ReleaseInv
  <1>8. CASE PollPVC(r) \/ PollPV(r)
    <2>1. fact.stamp # 0 /\ mem[r].stamp # 0 /\ Accepted(mem[r])
      BY <1>8 DEF PollPVC, PollPV, ReleaseInv, AfterRecord
    <2>2. UNCHANGED <<storage, afscp, store>>
      BY <1>8 DEF PollPVC, PollPV
    <2>3. CASE \E l \in {"waitPv", "wait", "status"} : Goto(r, l) /\ UNCHANGED mem
      BY <2>1, <2>2, <2>3, GotoStep DEF Goto, ReleaseInv
    <2>4. CASE Goto(r, "saveGone") /\ mem' = [mem EXCEPT ![r].gone = TRUE]
      <3> DEFINE m == [mem[r] EXCEPT !.gone = TRUE]
      <3>1. m.stamp # 0 /\ Accepted(m)
        BY <2>1 DEF ReleaseInv, TypeOK, Fact, Accepted
      <3>2. mem' = [mem EXCEPT ![r] = m]
        BY <2>4
      <3> HIDE DEF m
      <3>3. QED
        BY <2>1, <2>2, <2>4, <3>1, <3>2, LocalStep DEF Goto, ReleaseInv
    <2>5. CASE \E a \in Answers : Answer(r, a)
      BY <2>2, <2>5, AnswerStep
    <2>6. QED
      BY <1>8, <2>3, <2>4, <2>5 DEF PollPVC, PollPV, Answers
  <1>9. CASE SaveGone(r)
    BY <1>9, SaveStep DEF SaveGone, Goto, AfterRecord
  <1>10. CASE Report(r)
    <2>1. CASE accepted \in {0, mem[r].stamp}
      BY <1>10, <2>1, AcceptStep DEF Report, Goto, Answer
    <2>2. CASE accepted \notin {0, mem[r].stamp}
      BY <1>10, <2>2, AnswerStep DEF Report
    <2>3. QED
      BY <2>1, <2>2
  <1>11. CASE SaveDone(r)
    BY <1>11, SaveStep DEF SaveDone, Answer, AfterRecord
  <1>12. QED
    BY <1>1, <1>2, <1>3, <1>4, <1>5, <1>6, <1>7, <1>8, <1>9, <1>10, <1>11 DEF DeleteStep

LEMMA InvFault ==
  ASSUME ReleaseInv, TypeOK', NEW r \in Req, Fail(r) \/ LostAnswer(r)
  PROVE  ReleaseInv'
  <1> USE DEF storage, afscp, store
  <1>1. CASE Fail(r)
    BY <1>1, AnswerStep DEF Fail
  <1>2. CASE LostAnswer(r) /\ pc[r] = "status"
    BY <1>2, AcceptStep DEF LostAnswer, Answer
  <1>3. CASE LostAnswer(r) /\ pc[r] = "saveDone"
    BY <1>3, SaveStep DEF LostAnswer, Answer, AfterRecord
  <1>4. QED
    BY <1>1, <1>2, <1>3 DEF LostAnswer

LEMMA InvStep == ReleaseInv /\ [Next]_vars => ReleaseInv'
  <1> SUFFICES ASSUME ReleaseInv, [Next]_vars PROVE ReleaseInv'
    OBVIOUS
  <1> USE DEF storage, afscp, store, locals
  <1>0. TypeOK'
    BY TypeStep DEF ReleaseInv
  <1>1. ASSUME NEW r \in Req, StartEnsure(r) \/ EnsureStep(r) PROVE ReleaseInv'
    BY <1>0, <1>1, InvEnsure
  <1>2. ASSUME NEW r \in Req, StartDelete(r) \/ DeleteStep(r) PROVE ReleaseInv'
    BY <1>0, <1>2, InvDelete
  <1>3. ASSUME NEW r \in Req, Fail(r) \/ LostAnswer(r) PROVE ReleaseInv'
    BY <1>0, <1>3, InvFault
  <1>4. ASSUME NEW w \in Workload, CheckMount(w) \/ PutStep(w) \/ CloseStep(w)
                                   \/ AbandonPut(w) \/ PlacePod(w)
        PROVE ReleaseInv'
    <2>1. UNCHANGED <<storage, afscp, store, locals>>
      BY <1>4 DEF CheckMount, PutStep, CreatePod, RecordWorkload, CloseStep, TrackPod,
                  StopPod, CloseFact, AbandonPut, PlacePod
    <2>2. QED
      BY <1>0, <2>1, OtherSteps DEF ReleaseInv
  <1>5. CASE Bind \/ LoseVolume
    BY <1>0, <1>5, OtherSteps DEF Bind, LoseVolume, ReleaseInv
  <1>6. CASE ClaimGone \/ VolumeGone
    BY <1>0, <1>6, OtherSteps DEF ClaimGone, VolumeGone, ReleaseInv
  <1>7. CASE UNCHANGED vars
    BY <1>0, <1>7, OtherSteps DEF vars, ReleaseInv
  <1>8. QED
    BY <1>1, <1>2, <1>3, <1>4, <1>5, <1>6, <1>7 DEF Next

(* The inductive invariant: deletion is only ever set going, and AFSCP     *)
(* only ever told, by a request that has stored the fact before.           *)
THEOREM Invariance == Spec => []ReleaseInv
  <1>1. Init => ReleaseInv
    BY TypeInit, InvInit, BindingAssumption
  <1>2. QED
    BY <1>1, InvStep, PTL DEF Spec

(* The mount reference survives until AFSCP has the released status.       *)
THEOREM ReferenceKept == Spec => []RefNeverLost
  <1>1. ReleaseInv => RefNeverLost
    BY DEF ReleaseInv, RefNeverLost
  <1>2. QED
    BY <1>1, Invariance, PTL

(* A fact marked done carries the observed_at that AFSCP accepted.         *)
THEOREM DoneMeansAccepted == Spec => []DoneIsAccepted
  <1>1. ReleaseInv => DoneIsAccepted
    BY DEF ReleaseInv
  <1>2. QED
    BY <1>1, Invariance, PTL

-----------------------------------------------------------------------------
(* Refinement.  A step changes the storage, stores a copy or tells AFSCP.  *)
Present == pv # "none" \/ pvc # "none"

LEMMA StorageRefines ==
  ASSUME UNCHANGED <<fact, accepted>>, Present /\ ~Present' => fact.stamp # 0
  PROVE  [ReleaseOrder!Next]_(ReleaseOrder!vars)
  <1>1. CASE ~Present /\ Present'
    <2>1. ReleaseOrder!Appear
      BY <1>1 DEF Present, ReleaseOrder!Appear
    <2>2. QED
      BY <2>1 DEF ReleaseOrder!Next
  <1>2. CASE Present /\ ~Present'
    <2>1. ReleaseOrder!Vanish
      BY <1>2 DEF Present, ReleaseOrder!Vanish
    <2>2. QED
      BY <2>1 DEF ReleaseOrder!Next
  <1>3. CASE Present' = Present
    BY <1>3 DEF Present, ReleaseOrder!vars
  <1>4. QED
    BY <1>1, <1>2, <1>3 DEF Present

LEMMA SaveRefines ==
  ASSUME ReleaseInv, UNCHANGED <<pv, pvc, accepted>>,
         NEW r \in Req, pc[r] \in AfterRecord \cup {"record"}, fact' = mem[r]
  PROVE  ReleaseOrder!Next
  <1>1. fact' \in Fact /\ fact'.stamp # 0 /\ (fact'.done => accepted = fact'.stamp /\ accepted # 0)
    BY DEF ReleaseInv, TypeOK, Accepted
  <1>2. fact'.stamp \in Nat \ {0} /\ fact'.done \in BOOLEAN
    BY <1>1 DEF Fact
  <1>3. CASE fact'.done
    <2>1. ReleaseOrder!Confirm
      BY <1>1, <1>2, <1>3 DEF ReleaseOrder!Confirm
    <2>2. QED
      BY <2>1 DEF ReleaseOrder!Next
  <1>4. CASE ~fact'.done
    <2>1. ReleaseOrder!Record
      BY <1>2, <1>4 DEF ReleaseOrder!Record
    <2>2. QED
      BY <2>1 DEF ReleaseOrder!Next
  <1>5. QED
    BY <1>3, <1>4

LEMMA AcceptRefines ==
  ASSUME ReleaseInv, UNCHANGED <<pv, pvc, fact>>,
         NEW r \in Req, pc[r] = "status", accepted \in {0, mem[r].stamp}, accepted' = mem[r].stamp
  PROVE  [ReleaseOrder!Next]_(ReleaseOrder!vars)
  <1>1. mem[r] \in Fact /\ mem[r].stamp # 0 /\ fact.stamp # 0
    BY DEF ReleaseInv, TypeOK, AfterRecord
  <1>2. CASE accepted = 0
    <2>1. accepted' \in Nat \ {0}
      BY <1>1 DEF Fact
    <2>2. ReleaseOrder!Tell
      BY <1>1, <1>2, <2>1 DEF ReleaseOrder!Tell
    <2>3. QED
      BY <2>2 DEF ReleaseOrder!Next
  <1>3. CASE accepted = mem[r].stamp
    BY <1>3 DEF ReleaseOrder!vars
  <1>4. QED
    BY <1>2, <1>3

LEMMA StepRefines ==
  ASSUME ReleaseInv, [Next]_vars
  PROVE  [ReleaseOrder!Next]_(ReleaseOrder!vars)
  <1> USE DEF storage, afscp, store, Present
  <1>1. ASSUME NEW r \in Req, StartEnsure(r) \/ EnsureStep(r)
        PROVE  [ReleaseOrder!Next]_(ReleaseOrder!vars)
    <2>1. UNCHANGED <<fact, accepted>>
      BY <1>1 DEF StartEnsure, Start, EnsureStep, FetchPlan, EnsurePV, EnsurePVC, AwaitBound
    <2>2. Present /\ ~Present' => deleting # {}
      BY <1>1 DEF StartEnsure, Start, EnsureStep, FetchPlan, EnsurePV, EnsurePVC, AwaitBound,
         NewVolume, NewClaim
    <2>3. QED
      BY <2>1, <2>2, StorageRefines DEF ReleaseInv
  <1>2. ASSUME NEW r \in Req, StartDelete(r) \/ DeleteStep(r)
        PROVE  [ReleaseOrder!Next]_(ReleaseOrder!vars)
    <2>1. CASE Record(r) \/ SaveGone(r) \/ SaveDone(r)
      BY <2>1, SaveRefines DEF Record, SaveGone, SaveDone, Save, AfterRecord
    <2>2. CASE Report(r)
      BY <2>2, AcceptRefines, StorageRefines DEF Report
    <2>3. CASE ~(Record(r) \/ SaveGone(r) \/ SaveDone(r) \/ Report(r))
      <3>1. UNCHANGED <<fact, accepted, pv, pvc>>
        BY <1>2, <2>3 DEF StartDelete, Start, DeleteStep, ListFacts, ListPods, LoadFact,
           ResolveRef, ResolveRefFromPV, DropPVC, DropPV, PollPVC, PollPV
      <3>2. QED
        BY <3>1, StorageRefines
    <2>4. QED
      BY <2>1, <2>2, <2>3
  <1>3. ASSUME NEW r \in Req, Fail(r) \/ LostAnswer(r)
        PROVE  [ReleaseOrder!Next]_(ReleaseOrder!vars)
    <2>1. CASE Fail(r)
      BY <2>1, StorageRefines DEF Fail
    <2>2. CASE LostAnswer(r)
      BY <2>2, AcceptRefines, SaveRefines DEF LostAnswer, Save, AfterRecord
    <2>3. QED
      BY <1>3, <2>1, <2>2
  <1>4. ASSUME NEW w \in Workload, CheckMount(w) \/ PutStep(w) \/ CloseStep(w)
                                   \/ AbandonPut(w) \/ PlacePod(w)
        PROVE  [ReleaseOrder!Next]_(ReleaseOrder!vars)
    <2>1. UNCHANGED <<fact, accepted, pv, pvc>>
      BY <1>4 DEF CheckMount, PutStep, CreatePod, RecordWorkload, CloseStep, TrackPod,
                  StopPod, CloseFact, AbandonPut, PlacePod
    <2>2. QED
      BY <2>1, StorageRefines
  <1>5. CASE Bind \/ LoseVolume \/ ClaimGone \/ VolumeGone
    <2>1. UNCHANGED <<fact, accepted>> /\ (Present /\ ~Present' => deleting # {})
      BY <1>5 DEF Bind, LoseVolume, ClaimGone, VolumeGone
    <2>2. QED
      BY <2>1, StorageRefines DEF ReleaseInv
  <1>6. CASE UNCHANGED vars
    BY <1>6, StorageRefines DEF vars
  <1>7. QED
    BY <1>1, <1>2, <1>3, <1>4, <1>5, <1>6 DEF Next

(* Whatever the handlers do to each other, AFSCP and the stored fact see a *)
(* binding's release happen in order and once.                             *)
THEOREM ReleasesInOrder == Spec => ImplementsBindingRelease
  <1>1. Init => ReleaseOrder!Init
    BY DEF Init, ReleaseOrder!Init, NoFact
  <1>2. QED
    BY <1>1, StepRefines, Invariance, PTL DEF Spec, ImplementsBindingRelease, ReleaseOrder!Spec

-----------------------------------------------------------------------------
(* One request for the binding at a time (~OverlapBinding).                *)

(* A step of the one request in flight, or of the next one.                *)
LEMMA OwnStep ==
  ASSUME SerialInv, ReleaseInv', NEW r \in Req, \A q \in Req \ {r} : Idle(q),
         NEW l, pc' = [pc EXCEPT ![r] = l],
         accepted' \in {0, fact'.stamp}, Turn(r)'
  PROVE  SerialInv'
  <1>1. \A q \in Req \ {r} : pc'[q] = "idle"
    BY DEF SerialInv, ReleaseInv, TypeOK, Idle
  <1>2. ASSUME NEW q \in Req PROVE Turn(q)'
    BY <1>1 DEF Turn, AfterRecord, Idle
  <1>3. OneAtATime'
    BY <1>1 DEF OneAtATime, Idle
  <1>4. QED
    BY <1>2, <1>3 DEF SerialInv

(* A step of no request: what is gone is not made.                         *)
LEMMA ElsewhereStep ==
  ASSUME SerialInv, ReleaseInv', UNCHANGED <<fact, accepted, pc, mem, out>>,
         pv = "none" => pv' = "none", pvc = "none" => pvc' = "none"
  PROVE  SerialInv'
  <1>1. ASSUME NEW q \in Req PROVE Turn(q)'
    BY DEF SerialInv, Turn, Idle, StorageGone
  <1>2. QED
    BY <1>1 DEF SerialInv, OneAtATime, Idle

LEMMA OnlyOne ==
  ASSUME SerialInv, NEW r \in Req, ~Idle(r)
  PROVE  \A q \in Req \ {r} : Idle(q)
  BY DEF SerialInv, OneAtATime

LEMMA AnswerSerial ==
  ASSUME SerialInv, ReleaseInv', NEW r \in Req, ~Idle(r), NEW a, Answer(r, a),
         accepted' \in {0, fact'.stamp}
  PROVE  SerialInv'
  <1>1. pc' = [pc EXCEPT ![r] = "idle"] /\ pc'[r] = "idle"
    BY DEF Answer, SerialInv, ReleaseInv, TypeOK
  <1>2. Turn(r)'
    BY <1>1 DEF Turn, AfterRecord, Idle
  <1>3. QED
    BY <1>1, <1>2, OnlyOne, OwnStep

(* The request goes on with copy m, and neither the fact nor AFSCP change. *)
LEMMA GoOnSerial ==
  ASSUME SerialInv, ReleaseInv', NEW r \in Req, ~Idle(r), NEW l, l # "idle", Goto(r, l),
         UNCHANGED <<fact, accepted>>, NEW m, mem'[r] = m,
         l \in {"ref", "refPv", "record"} => fact.stamp = 0,
         l \in {"dropPvc", "dropPv", "wait", "waitPv"} => m = fact,
         l \in AfterRecord => m.stamp = fact.stamp,
         l = "waitPv" => pvc' = "none",
         l \in {"saveGone", "status", "saveDone"} => StorageGone' /\ m.gone,
         l = "saveDone" => m.done
  PROVE  SerialInv'
  <1>1. pc' = [pc EXCEPT ![r] = l] /\ pc'[r] = l /\ out' = out
    BY DEF Goto, SerialInv, ReleaseInv, TypeOK
  <1>2. out[r] = "none" /\ accepted \in {0, fact.stamp}
    BY DEF SerialInv, Turn
  <1>3. Turn(r)'
    BY <1>1, <1>2 DEF Turn
  <1>4. QED
    BY <1>1, <1>2, <1>3, OnlyOne, OwnStep

LEMMA StartSerial ==
  ASSUME SerialInv, ReleaseInv', ~OverlapBinding, NEW r \in Req, StartEnsure(r) \/ StartDelete(r)
  PROVE  SerialInv'
  <1>1. PICK l \in {"plan", "facts"} : Start(r, l)
    BY DEF StartEnsure, StartDelete
  <1>2. /\ pc' = [pc EXCEPT ![r] = l] /\ pc'[r] = l /\ out'[r] = "none"
        /\ UNCHANGED <<fact, accepted>> /\ \A q \in Req \ {r} : Idle(q)
    BY <1>1 DEF Start, SerialInv, ReleaseInv, TypeOK, store, afscp
  <1>3. Turn(r)'
    BY <1>2 DEF Turn, AfterRecord
  <1>4. QED
    BY <1>2, <1>3, OwnStep DEF SerialInv

LEMMA EnsureSerial ==
  ASSUME SerialInv, ReleaseInv', NEW r \in Req, EnsureStep(r)
  PROVE  SerialInv'
  <1>1. ~Idle(r) /\ UNCHANGED <<fact, accepted>> /\ accepted \in {0, fact.stamp}
    BY DEF EnsureStep, FetchPlan, EnsurePV, EnsurePVC, AwaitBound, Idle, store, afscp, SerialInv
  <1>2. CASE \E a : Answer(r, a)
    BY <1>1, <1>2, AnswerSerial
  <1>3. CASE \E l \in {"pv", "pvc", "bound"} : Goto(r, l)
    <2>1. PICK l \in {"pv", "pvc", "bound"} : Goto(r, l)
      BY <1>3
    <2>2. PICK m : mem'[r] = m
      OBVIOUS
    <2>3. l \notin AfterRecord
      BY DEF AfterRecord
    <2>4. QED
      BY <1>1, <2>1, <2>2, <2>3, GoOnSerial
  <1>4. QED
    BY <1>2, <1>3 DEF EnsureStep, FetchPlan, EnsurePV, EnsurePVC, AwaitBound

LEMMA DeleteSerial ==
  ASSUME SerialInv, ReleaseInv', NEW r \in Req, DeleteStep(r)
  PROVE  SerialInv'
  <1>0. /\ ~Idle(r) /\ Turn(r) /\ accepted \in {0, fact.stamp} /\ mem \in [Req -> Fact]
        /\ fact \in Fact /\ accepted # 0 => fact.stamp # 0
    BY DEF DeleteStep, ListFacts, ListPods, LoadFact, ResolveRef, ResolveRefFromPV, Record, DropPVC,
       DropPV, PollPVC, PollPV, SaveGone, Report, SaveDone, Idle, SerialInv, ReleaseInv, TypeOK
  <1> USE DEF storage, store, afscp
  <1>a. ASSUME NEW a, Answer(r, a), UNCHANGED <<fact, accepted>>
        PROVE  SerialInv'
    BY <1>0, <1>a, AnswerSerial
  <1>1. CASE ListFacts(r) \/ ListPods(r)
    <2>1. UNCHANGED <<fact, accepted>>
      BY <1>1 DEF ListFacts, ListPods
    <2>2. CASE Answer(r, "incomplete")
      BY <1>a, <2>1, <2>2
    <2>3. CASE \E l \in {"pods", "fact"} : Goto(r, l)
      BY <1>0, <2>1, <2>3, GoOnSerial DEF AfterRecord
    <2>4. QED
      BY <1>1, <2>2, <2>3 DEF ListFacts, ListPods
  <1>2. CASE LoadFact(r)
    <2>1. /\ UNCHANGED <<fact, accepted>> /\ mem'[r] = fact
          /\ Goto(r, IF fact.stamp = 0 THEN "ref" ELSE "dropPvc")
      BY <1>0, <1>2 DEF LoadFact
    <2>2. CASE fact.stamp = 0
      BY <1>0, <2>1, <2>2, GoOnSerial DEF AfterRecord
    <2>3. CASE fact.stamp # 0
      BY <1>0, <2>1, <2>3, GoOnSerial
    <2>4. QED
      BY <2>2, <2>3
  <1>3. CASE ResolveRef(r) \/ ResolveRefFromPV(r)
    <2>1. UNCHANGED <<fact, accepted>> /\ fact.stamp = 0
      BY <1>0, <1>3 DEF ResolveRef, ResolveRefFromPV, Turn
    <2>2. CASE Answer(r, "incomplete")
      BY <1>a, <2>1, <2>2
    <2>3. CASE \E l \in {"record", "refPv"} : Goto(r, l)
      BY <1>0, <2>1, <2>3, GoOnSerial DEF AfterRecord
    <2>4. QED
      BY <1>3, <2>2, <2>3 DEF ResolveRef, ResolveRefFromPV
  <1>4. CASE Record(r)
    (* There was no fact, so AFSCP has not been told yet.                  *)
    <2>1. accepted = 0 /\ accepted' = 0 /\ fact' = mem[r] /\ mem' = mem
      BY <1>0, <1>4 DEF Record, Turn
    <2>2. pc' = [pc EXCEPT ![r] = "dropPvc"] /\ pc'[r] = "dropPvc" /\ out'[r] = "none"
      BY <1>0, <1>4 DEF Record, Goto, Turn, SerialInv, ReleaseInv, TypeOK
    <2>3. Turn(r)'
      BY <2>1, <2>2 DEF Turn
    <2>4. QED
      BY <1>0, <2>1, <2>2, <2>3, OnlyOne, OwnStep
  <1>5. CASE DropPVC(r) \/ DropPV(r)
    <2>1. UNCHANGED <<fact, accepted>> /\ mem'[r] = fact
      BY <1>0, <1>5 DEF DropPVC, DropPV, Turn
    <2>2. PICK l \in {"dropPv", "wait"} : Goto(r, l)
      BY <1>5 DEF DropPVC, DropPV
    <2>3. QED
      BY <1>0, <2>1, <2>2, GoOnSerial
  <1>6. CASE PollPVC(r)
    <2>1. UNCHANGED <<fact, accepted, pvc>> /\ mem[r] = fact
      BY <1>0, <1>6 DEF PollPVC, Turn
    <2>2. CASE pvc = "none"
      BY <1>0, <1>6, <2>1, <2>2, GoOnSerial DEF PollPVC
    <2>3. CASE pvc # "none"
      BY <1>6, <1>a, <2>1, <2>3 DEF PollPVC
    <2>4. QED
      BY <2>2, <2>3
  <1>7. CASE PollPV(r)
    <2>1. UNCHANGED <<fact, accepted, pv, pvc>> /\ mem[r] = fact /\ pvc = "none"
      BY <1>0, <1>7 DEF PollPV, Turn
    <2>2. CASE pv = "none" /\ ~mem[r].gone
      <3>1. Goto(r, "saveGone") /\ mem'[r] = [mem[r] EXCEPT !.gone = TRUE]
        BY <1>0, <1>7, <2>2 DEF PollPV
      <3>2. PICK m : m = [mem[r] EXCEPT !.gone = TRUE]
        OBVIOUS
      <3>3. mem'[r] = m /\ m.stamp = fact.stamp /\ m.gone
        BY <1>0, <2>1, <3>1, <3>2 DEF Fact
      <3>4. QED
        BY <1>0, <2>1, <2>2, <3>1, <3>3, GoOnSerial DEF StorageGone
    <2>3. CASE pv = "none" /\ mem[r].gone /\ ~mem[r].done
      <3>1. Goto(r, "status") /\ mem'[r] = mem[r]
        BY <1>0, <1>7, <2>3 DEF PollPV
      <3>2. QED
        BY <1>0, <2>1, <2>3, <3>1, GoOnSerial DEF StorageGone
    <2>4. CASE pv # "none" /\ Goto(r, "wait") /\ UNCHANGED mem
      BY <1>0, <2>1, <2>4, GoOnSerial
    <2>5. CASE Answer(r, "deleted") \/ Answer(r, "incomplete")
      BY <1>a, <2>1, <2>5
    <2>6. QED
      BY <1>7, <2>2, <2>3, <2>4, <2>5 DEF PollPV
  <1>8. CASE SaveGone(r)
    <2>1. /\ UNCHANGED <<accepted, pv, pvc>> /\ fact' = mem[r] /\ mem' = mem
          /\ mem[r].stamp = fact.stamp /\ StorageGone /\ mem[r].gone
      BY <1>0, <1>8 DEF SaveGone, Turn, AfterRecord
    <2>2. pc' = [pc EXCEPT ![r] = "status"] /\ pc'[r] = "status" /\ out'[r] = "none"
      BY <1>0, <1>8 DEF SaveGone, Goto, Turn, SerialInv, ReleaseInv, TypeOK
    <2>3. Turn(r)'
      BY <2>1, <2>2 DEF Turn, StorageGone
    <2>4. QED
      BY <1>0, <2>1, <2>2, <2>3, OnlyOne, OwnStep
  <1>9. CASE Report(r)
    <2>1. /\ UNCHANGED <<fact, pv, pvc>> /\ mem[r].stamp = fact.stamp
          /\ StorageGone /\ mem[r].gone
      BY <1>0, <1>9 DEF Report, Turn, AfterRecord
    <2>2. /\ accepted' = fact.stamp /\ mem' = [mem EXCEPT ![r].done = TRUE]
          /\ Goto(r, "saveDone")
      BY <1>0, <1>9, <2>1 DEF Report
    <2>3. mem'[r].stamp = mem[r].stamp /\ mem'[r].gone = mem[r].gone /\ mem'[r].done
      BY <1>0, <2>2 DEF Fact
    <2>4. pc' = [pc EXCEPT ![r] = "saveDone"] /\ pc'[r] = "saveDone" /\ out'[r] = "none"
      BY <1>0, <2>2 DEF Goto, Turn, SerialInv, ReleaseInv, TypeOK
    <2>5. Turn(r)'
      BY <2>1, <2>3, <2>4 DEF Turn, StorageGone
    <2>6. QED
      BY <1>0, <2>1, <2>2, <2>4, <2>5, OnlyOne, OwnStep
  <1>10. CASE SaveDone(r)
    <2>1. Answer(r, "deleted") /\ accepted' = accepted /\ fact'.stamp = fact.stamp
      BY <1>0, <1>10 DEF SaveDone, Turn, AfterRecord
    <2>2. QED
      BY <1>0, <2>1, AnswerSerial
  <1>11. QED
    BY <1>1, <1>2, <1>3, <1>4, <1>5, <1>6, <1>7, <1>8, <1>9, <1>10 DEF DeleteStep

LEMMA FaultSerial ==
  ASSUME SerialInv, ReleaseInv', NEW r \in Req, Fail(r) \/ LostAnswer(r)
  PROVE  SerialInv'
  <1>1. ~Idle(r) /\ Answer(r, "error")
    BY DEF Fail, LostAnswer, Idle
  <1>2. accepted' \in {0, fact'.stamp}
    BY DEF Fail, LostAnswer, SerialInv, Turn, AfterRecord, store, afscp
  <1>3. QED
    BY <1>1, <1>2, AnswerSerial

LEMMA SerialInit == Init => SerialInv
  <1> SUFFICES ASSUME Init PROVE SerialInv
    OBVIOUS
  <1>1. ReleaseInv
    BY TypeInit, InvInit, BindingAssumption
  <1>2. QED
    BY <1>1 DEF Init, SerialInv, OneAtATime, Turn, AfterRecord, Idle

LEMMA SerialStep ==
  ASSUME ~OverlapBinding, SerialInv, [Next]_vars
  PROVE  SerialInv'
  <1>0. ReleaseInv'
    BY InvStep DEF SerialInv
  <1>1. ASSUME \/ \E w \in Workload : \/ CheckMount(w) \/ PutStep(w) \/ CloseStep(w)
                                      \/ AbandonPut(w) \/ PlacePod(w)
               \/ Bind \/ LoseVolume \/ ClaimGone \/ VolumeGone
               \/ UNCHANGED vars
        PROVE  SerialInv'
    <2>1. /\ UNCHANGED <<fact, accepted, pc, mem, out>>
          /\ pv = "none" => pv' = "none"
          /\ pvc = "none" => pvc' = "none"
      BY <1>1
      DEF CheckMount, PutStep, CreatePod, RecordWorkload, CloseStep, TrackPod, StopPod, CloseFact,
          AbandonPut, PlacePod, Bind, LoseVolume, ClaimGone, VolumeGone, vars, storage, store,
          afscp, locals
    <2>2. QED
      BY <1>0, <2>1, ElsewhereStep
  <1>2. QED
    BY <1>0, <1>1, StartSerial, EnsureSerial, DeleteSerial, FaultSerial DEF Next

(* The inductive invariant of requests that come one after the other.      *)
THEOREM SerialInvariance == ~OverlapBinding /\ Spec => []SerialInv
  <1> SUFFICES ASSUME ~OverlapBinding PROVE Spec => []SerialInv
    OBVIOUS
  <1>1. SerialInv /\ [Next]_vars => SerialInv'
    BY SerialStep
  <1>2. QED
    BY SerialInit, <1>1, PTL DEF Spec

(* Whatever fails, is lost or is retried, and whatever ensures and         *)
(* workloads do in between, AFSCP gets one observed_at.                    *)
THEOREM NoConflicts == ~OverlapBinding /\ Spec => []NoIdempotencyConflict
  <1>1. SerialInv => NoIdempotencyConflict
    BY DEF SerialInv, Turn, AfterRecord, NoIdempotencyConflict
  <1>2. QED
    BY <1>1, SerialInvariance, PTL

-----------------------------------------------------------------------------
(* What a step may do.                                                     *)

(* The steps that end in the answer "deleted".                             *)
LEMMA DeletedStep ==
  ASSUME SerialInv, [Next]_vars, NEW r \in Req, ~Idle(r), out'[r] = "deleted"
  PROVE  SaveDone(r) \/ (PollPV(r) /\ pv = "none" /\ mem[r].gone /\ mem[r].done)
  <1>0. out[r] = "none" /\ out \in [Req -> Answers]
    BY DEF SerialInv, Turn, ReleaseInv, TypeOK
  <1>a. out' # out
    BY <1>0
  <1>b. ASSUME NEW q \in Req, NEW a, a # "deleted", Answer(q, a) PROVE FALSE
    BY <1>0, <1>b DEF Answer
  <1>1. ASSUME NEW q \in Req, StartEnsure(q) \/ StartDelete(q) PROVE FALSE
    <2>1. out' = [out EXCEPT ![q] = "none"]
      BY <1>1 DEF StartEnsure, StartDelete, Start
    <2>2. QED
      BY <1>0, <2>1
  <1>2. ASSUME NEW q \in Req, EnsureStep(q) \/ Fail(q) \/ LostAnswer(q) PROVE FALSE
    BY <1>2, <1>a, <1>b
    DEF EnsureStep, FetchPlan, EnsurePV, EnsurePVC, AwaitBound, Fail, LostAnswer, Goto
  <1>3. ASSUME NEW q \in Req, DeleteStep(q)
        PROVE  SaveDone(r) \/ (PollPV(r) /\ pv = "none" /\ mem[r].gone /\ mem[r].done)
    <2>1. CASE SaveDone(q)
      <3>1. q = r
        BY <1>0, <2>1 DEF SaveDone, Answer
      <3>2. QED
        BY <2>1, <3>1
    <2>2. CASE PollPV(q)
      <3>1. pv = "none" /\ mem[q].gone /\ mem[q].done /\ Answer(q, "deleted")
        BY <1>a, <1>b, <2>2 DEF PollPV, Goto
      <3>2. q = r
        BY <1>0, <3>1 DEF Answer
      <3>3. QED
        BY <2>2, <3>1, <3>2
    <2>3. CASE ~(SaveDone(q) \/ PollPV(q))
      BY <1>3, <1>a, <1>b, <2>3
      DEF DeleteStep, ListFacts, ListPods, LoadFact, ResolveRef, ResolveRefFromPV, Record, DropPVC,
          DropPV, PollPVC, SaveGone, Report, Goto
    <2>4. QED
      BY <2>1, <2>2, <2>3
  <1>4. ASSUME \/ \E w \in Workload : \/ CheckMount(w) \/ PutStep(w) \/ CloseStep(w)
                                      \/ AbandonPut(w) \/ PlacePod(w)
               \/ Bind \/ LoseVolume \/ ClaimGone \/ VolumeGone
               \/ UNCHANGED vars
        PROVE  FALSE
    BY <1>4, <1>a
    DEF CheckMount, PutStep, CreatePod, RecordWorkload, CloseStep, TrackPod, StopPod, CloseFact,
        AbandonPut, PlacePod, Bind, LoseVolume, ClaimGone, VolumeGone, vars, locals
  <1>5. QED
    BY <1>1, <1>2, <1>3, <1>4 DEF Next

LEMMA ReleasedStep ==
  ASSUME SerialInv, [Next]_vars, NEW r \in Req, ~Idle(r), out'[r] = "deleted"
  PROVE  StorageGone /\ fact'.gone /\ fact'.done /\ accepted # 0
  <1>0. Turn(r) /\ Accepted(mem[r])
    BY DEF SerialInv, ReleaseInv
  <1>1. CASE SaveDone(r)
    BY <1>0, <1>1 DEF SaveDone, Turn, Accepted
  <1>2. CASE PollPV(r) /\ pv = "none" /\ mem[r].gone /\ mem[r].done
    BY <1>0, <1>2 DEF PollPV, Turn, Accepted, StorageGone, store
  <1>3. QED
    BY <1>1, <1>2, DeletedStep

(* A DELETE is answered 200 only with claim and volume gone, AFSCP told    *)
(* and both on record.                                                     *)
THEOREM DeletedIsReleased == ~OverlapBinding /\ Spec => DeletedMeansReleased
  <1> SUFFICES ASSUME ~OverlapBinding PROVE Spec => DeletedMeansReleased
    OBVIOUS
  <1>1. SerialInv /\ [Next]_vars =>
          [\A r \in Req : pc[r] # "idle" /\ out'[r] = "deleted" =>
             /\ pv = "none" /\ pvc = "none"
             /\ fact'.gone /\ fact'.done /\ accepted # 0]_vars
    BY ReleasedStep DEF StorageGone, Idle
  <1>2. QED
    BY <1>1, SerialInvariance, PTL DEF Spec, DeletedMeansReleased

(* AFSCP is told by the call that sends the status, and by no other.       *)
LEMMA TellingStep ==
  ASSUME [Next]_vars, accepted' # accepted
  PROVE  \E r \in Req : pc[r] = "status"
  <1>1. ASSUME NEW r \in Req, StartEnsure(r) \/ EnsureStep(r) \/ StartDelete(r) \/ Fail(r)
        PROVE  FALSE
    BY <1>1
    DEF StartEnsure, StartDelete, Start, EnsureStep, FetchPlan, EnsurePV, EnsurePVC, AwaitBound,
        Fail, afscp
  <1>2. ASSUME NEW r \in Req, DeleteStep(r) PROVE pc[r] = "status"
    BY <1>2
    DEF DeleteStep, ListFacts, ListPods, LoadFact, ResolveRef, ResolveRefFromPV, Record, DropPVC,
        DropPV, PollPVC, PollPV, SaveGone, Report, SaveDone, afscp
  <1>3. ASSUME NEW r \in Req, LostAnswer(r) PROVE pc[r] = "status"
    BY <1>3 DEF LostAnswer
  <1>4. ASSUME \/ \E w \in Workload : \/ CheckMount(w) \/ PutStep(w) \/ CloseStep(w)
                                      \/ AbandonPut(w) \/ PlacePod(w)
               \/ Bind \/ LoseVolume \/ ClaimGone \/ VolumeGone
               \/ UNCHANGED vars
        PROVE  FALSE
    BY <1>4
    DEF CheckMount, PutStep, CreatePod, RecordWorkload, CloseStep, TrackPod, StopPod, CloseFact,
        AbandonPut, PlacePod, Bind, LoseVolume, ClaimGone, VolumeGone, vars, afscp
  <1>5. QED
    BY <1>1, <1>2, <1>3, <1>4 DEF Next

-----------------------------------------------------------------------------
(* No workload PUT beside a DELETE of its binding (~OverlapWorkload).      *)
Listed == DeletePcs \ {"facts", "pods"}

(* A request's own step leaves the workloads alone; it is past its listing *)
(* only if it was, or has found no Pod.                                    *)
LEMMA RequestUnused ==
  ASSUME TypeOK, UnusedInv, UNCHANGED workloads, NEW r \in Req, NEW l,
         pc' = [pc EXCEPT ![r] = l],
         l \in DeletePcs => \A w \in Workload : wpc[w] = "idle",
         l \in Listed => pc[r] \in Listed \/ Unused
  PROVE  UnusedInv'
  <1>1. ASSUME NEW q \in Req
        PROVE  /\ Deleting(q)' => \A w \in Workload : wpc'[w] = "idle"
               /\ pc'[q] \in Listed => Unused'
    <2>1. pc'[q] = IF q = r THEN l ELSE pc[q]
      BY DEF TypeOK
    <2>2. QED
      BY <2>1 DEF UnusedInv, Deleting, Unused, Listed, workloads
  <1>2. QED
    BY <1>1 DEF UnusedInv, Listed

LEMMA DeleteUnused ==
  ASSUME TypeOK, UnusedInv, NEW r \in Req, DeleteStep(r)
  PROVE  UnusedInv'
  <1>0. /\ \A w \in Workload : wpc[w] = "idle"
        /\ UNCHANGED workloads
    BY DEF UnusedInv, Deleting, DeletePcs, DeleteStep, ListFacts, ListPods, LoadFact, ResolveRef,
       ResolveRefFromPV, Record, DropPVC, DropPV, PollPVC, PollPV, SaveGone, Report, SaveDone
  <1>1. PICK l : pc' = [pc EXCEPT ![r] = l]
    BY DEF DeleteStep, ListFacts, ListPods, LoadFact, ResolveRef, ResolveRefFromPV, Record, DropPVC,
       DropPV, PollPVC, PollPV, SaveGone, Report, SaveDone, Goto, Answer
  <1>2. pc'[r] = l
    BY <1>1 DEF TypeOK
  <1>3. l \in Listed => pc[r] \in Listed \/ Unused
    <2>1. CASE ListFacts(r)
      BY <1>2, <2>1 DEF ListFacts, Goto, Answer, Listed, DeletePcs, TypeOK
    <2>2. CASE ListPods(r)
      <3>1. CASE LivePods = {}
        BY <1>0, <3>1 DEF LivePods, Unused
      <3>2. CASE LivePods # {}
        BY <1>2, <2>2, <3>2 DEF ListPods, Answer, Listed, DeletePcs, TypeOK
      <3>3. QED
        BY <3>1, <3>2
    <2>3. CASE ~(ListFacts(r) \/ ListPods(r))
      BY <2>3
      DEF DeleteStep, LoadFact, ResolveRef, ResolveRefFromPV, Record, DropPVC, DropPV, PollPVC,
          PollPV, SaveGone, Report, SaveDone, Listed, DeletePcs
    <2>4. QED
      BY <2>1, <2>2, <2>3
  <1>4. QED
    BY <1>0, <1>1, <1>3, RequestUnused

LEMMA WorkloadUnused ==
  ASSUME ~OverlapWorkload, TypeOK, UnusedInv, NEW w \in Workload,
         CheckMount(w) \/ PutStep(w) \/ CloseStep(w) \/ AbandonPut(w) \/ PlacePod(w)
  PROVE  UnusedInv'
  <1>0. pc' = pc
    BY DEF CheckMount, PutStep, CreatePod, RecordWorkload, CloseStep, TrackPod, StopPod, CloseFact,
       AbandonPut, PlacePod, locals
  <1>1. ASSUME NEW r \in Req, Deleting(r)
        PROVE  /\ \A v \in Workload : wpc'[v] = "idle"
               /\ Unused => Unused'
    <2>1. \A v \in Workload : wpc[v] = "idle"
      BY <1>1 DEF UnusedInv
    <2>2. ~CheckMount(w) /\ ~PutStep(w) /\ ~AbandonPut(w)
      BY <1>1, <2>1 DEF CheckMount, PutStep, CreatePod, RecordWorkload, AbandonPut
    <2>3. wpc' = wpc /\ (Unused => \A v \in Workload : pods'[v] = "none")
      BY <2>2 DEF CloseStep, TrackPod, StopPod, CloseFact, PlacePod, Unused, TypeOK
    <2>4. QED
      BY <2>1, <2>3 DEF Unused
  <1>2. QED
    BY <1>0, <1>1 DEF UnusedInv, Deleting

LEMMA UnusedStep ==
  ASSUME ~OverlapWorkload, TypeOK, UnusedInv, [Next]_vars
  PROVE  UnusedInv'
  <1>1. ASSUME NEW r \in Req, StartEnsure(r) \/ EnsureStep(r) \/ Fail(r) \/ LostAnswer(r)
        PROVE  UnusedInv'
    <2>1. PICK l \in EnsurePcs \cup {"idle"} : pc' = [pc EXCEPT ![r] = l]
      BY <1>1
      DEF StartEnsure, Start, EnsureStep, FetchPlan, EnsurePV, EnsurePVC, AwaitBound, Fail,
          LostAnswer, Goto, Answer, EnsurePcs
    <2>2. UNCHANGED workloads
      BY <1>1
      DEF StartEnsure, Start, EnsureStep, FetchPlan, EnsurePV, EnsurePVC, AwaitBound, Fail,
          LostAnswer
    <2>3. l \notin DeletePcs
      BY <2>1 DEF EnsurePcs, DeletePcs
    <2>4. QED
      BY <2>1, <2>2, <2>3, RequestUnused DEF Listed
  <1>2. ASSUME NEW r \in Req, StartDelete(r)
        PROVE  UnusedInv'
    BY <1>2, RequestUnused DEF StartDelete, Start, Listed, DeletePcs
  <1>3. CASE Bind \/ LoseVolume \/ ClaimGone \/ VolumeGone \/ UNCHANGED vars
    <2>1. UNCHANGED <<pc, wpc, pods>>
      BY <1>3 DEF Bind, LoseVolume, ClaimGone, VolumeGone, vars, locals, workloads
    <2>2. QED
      BY <2>1 DEF UnusedInv, Deleting, Unused
  <1>4. QED
    BY <1>1, <1>2, <1>3, DeleteUnused, WorkloadUnused DEF Next

THEOREM UnusedInvariance == ~OverlapWorkload /\ Spec => []UnusedInv
  <1> SUFFICES ASSUME ~OverlapWorkload PROVE Spec => []UnusedInv
    OBVIOUS
  <1>1. Init => UnusedInv
    BY DEF Init, UnusedInv, Deleting, DeletePcs
  <1>2. UnusedInv /\ TypeOK /\ [Next]_vars => UnusedInv'
    BY UnusedStep
  <1>3. QED
    BY <1>1, <1>2, TypeCorrect, PTL DEF Spec

(* AFSCP hears "released" only when claim, volume, Pods and PUTs of the    *)
(* binding are gone, whatever an earlier DELETE or a dead PUT has left.    *)
THEOREM ReleasedIsGone == ~OverlapBinding /\ ~OverlapWorkload /\ Spec => ReleasedMeansGone
  <1> SUFFICES ASSUME ~OverlapBinding, ~OverlapWorkload PROVE Spec => ReleasedMeansGone
    OBVIOUS
  <1>1. SerialInv /\ UnusedInv /\ [Next]_vars =>
          [accepted' # accepted => pv = "none" /\ pvc = "none" /\ Unused]_vars
    <2> SUFFICES ASSUME SerialInv, UnusedInv, [Next]_vars, accepted' # accepted
                 PROVE  pv = "none" /\ pvc = "none" /\ Unused
      OBVIOUS
    <2>1. PICK r \in Req : pc[r] = "status"
      BY TellingStep
    <2>2. StorageGone
      BY <2>1 DEF SerialInv, Turn
    <2>3. Unused
      BY <2>1 DEF UnusedInv, DeletePcs
    <2>4. QED
      BY <2>2, <2>3 DEF StorageGone
  <1>2. QED
    BY <1>1, SerialInvariance, UnusedInvariance, PTL DEF Spec, ReleasedMeansGone
=============================================================================
