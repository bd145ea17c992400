--------------------------- MODULE WorkspaceBinding ---------------------------
(***************************************************************************)
(* PUT (ensure) and DELETE of one workspace binding over what they share:  *)
(*   - the PersistentVolume and PersistentVolumeClaim of the binding,      *)
(*   - the binding's release fact (a ConfigMap),                           *)
(*   - AFSCP's record of the released status,                              *)
(*   - the workloads that use the binding.                                 *)
(*                                                                         *)
(* Each call of a handler is a step.  The handlers take no lock, so two    *)
(* requests for a binding interleave between any two calls.  A write that  *)
(* the client makes as Get and then Create or Update on the resource       *)
(* version is one step here: it replaces the object whatever was there, or *)
(* loses the race and fails, which Fail stands for.                        *)
(***************************************************************************)
EXTENDS Integers

CONSTANTS
  Req,             \* request slots for the binding
  Workload,        \* workloads that mount the binding
  OverlapBinding,  \* may two requests for the binding run at once?
  OverlapWorkload, \* may a workload PUT run beside a binding DELETE?
  ReuseWorkload,   \* may a workload's PUT run beside or after its DELETE?
  MaxEnsures,      \* bound: ensures in a behaviour
  MaxCreates,      \* bound: workload PUTs in a behaviour
  MaxFaults        \* bound: failed calls, lost answers and crashes

ASSUME BindingAssumption ==
  /\ OverlapBinding \in BOOLEAN /\ OverlapWorkload \in BOOLEAN
  /\ ReuseWorkload \in BOOLEAN
  /\ MaxEnsures \in Nat /\ MaxCreates \in Nat /\ MaxFaults \in Nat

VARIABLES
  pv,        \* the PersistentVolume: none, free or with a claimRef
  pvc,       \* the PersistentVolumeClaim: none, unbound or Bound
  deleting,  \* which of the two has a deletionTimestamp
  made,      \* has an ensure ever created the PersistentVolume?
  fact,      \* the stored release fact
  clock,     \* timestamps handed out so far
  accepted,  \* AFSCP: observed_at of the released status, 0 before it
  pc,        \* the call each request makes next
  mem,       \* the release fact in the request's memory
  out,       \* the last answer
  wpc,       \* what each workload's PUT does next
  pods,      \* each workload's Pod
  wfact,     \* each workload's terminal fact: none, open or terminal
  ensures, creates, faults

storage   == <<pv, pvc, deleting, made>>
afscp     == <<accepted>>
store     == <<fact, clock>>
locals    == <<pc, mem, out>>
workloads == <<wpc, pods, wfact>>
counters  == <<ensures, creates, faults>>
vars      == <<storage, afscp, store, locals, workloads, counters>>

-----------------------------------------------------------------------------
(* A stamp (observed_at) of 0 stands for "no fact".                        *)
Fact   == [stamp : Nat, gone : BOOLEAN, done : BOOLEAN]
NoFact == [stamp |-> 0, gone |-> FALSE, done |-> FALSE]
NewFact(t) == [stamp |-> t, gone |-> FALSE, done |-> FALSE]

EnsurePcs == {"plan", "pv", "pvc", "bound"}
DeletePcs == {"facts", "pods", "fact", "ref", "refPv", "record", "dropPvc", "dropPv",
              "wait", "waitPv", "saveGone", "status", "saveDone"}
Answers   == {"none", "ready", "notReady", "refused", "deleted", "incomplete", "error"}

(* Every variable keeps its type; only objects that exist are deleting.    *)
TypeOK ==
  /\ pv \in {"none", "free", "claimed"}
  /\ pvc \in {"none", "unbound", "bound"}
  /\ deleting \subseteq {"pv", "pvc"}
  /\ "pv" \in deleting => pv # "none"
  /\ "pvc" \in deleting => pvc # "none"
  /\ made \in BOOLEAN
  /\ fact \in Fact /\ clock \in Nat /\ accepted \in Nat
  /\ pc \in [Req -> {"idle"} \cup EnsurePcs \cup DeletePcs]
  /\ mem \in [Req -> Fact]
  /\ out \in [Req -> Answers]
  /\ wpc \in [Workload -> {"idle", "create", "record"}]
  /\ pods \in [Workload -> {"none", "waiting", "placed"}]
  /\ wfact \in [Workload -> {"none", "open", "terminal"}]
  /\ ensures \in Nat /\ creates \in Nat /\ faults \in Nat

Init ==
  /\ pv = "none" /\ pvc = "none" /\ deleting = {} /\ made = FALSE
  /\ fact = NoFact /\ clock = 0 /\ accepted = 0
  /\ pc = [r \in Req |-> "idle"]
  /\ mem = [r \in Req |-> NoFact]
  /\ out = [r \in Req |-> "none"]
  /\ wpc = [w \in Workload |-> "idle"]
  /\ pods = [w \in Workload |-> "none"]
  /\ wfact = [w \in Workload |-> "none"]
  /\ ensures = 0 /\ creates = 0 /\ faults = 0

-----------------------------------------------------------------------------
Idle(r)     == pc[r] = "idle"
Deleting(r) == pc[r] \in DeletePcs

Goto(r, l) == /\ pc' = [pc EXCEPT ![r] = l]
              /\ UNCHANGED out

Answer(r, a) == /\ pc' = [pc EXCEPT ![r] = "idle"]
                /\ mem' = [mem EXCEPT ![r] = NoFact]
                /\ out' = [out EXCEPT ![r] = a]

Start(r, l) == /\ Idle(r)
               /\ OverlapBinding \/ \A q \in Req : Idle(q)
               /\ pc' = [pc EXCEPT ![r] = l]
               /\ out' = [out EXCEPT ![r] = "none"]
               /\ UNCHANGED <<storage, afscp, store, mem, workloads, creates, faults>>

(* AFSCP gives out plans for active mount bindings, which is what workload *)
(* PUT asks for a plan to find out.                                        *)
PlanAvailable == accepted = 0

-----------------------------------------------------------------------------
(* PUT: ensure.  It does not look at the release fact.                     *)
StartEnsure(r) == /\ ensures < MaxEnsures
                  /\ Start(r, "plan")
                  /\ ensures' = ensures + 1

FetchPlan(r) ==
  /\ pc[r] = "plan"
  /\ \/ /\ PlanAvailable
        /\ Goto(r, "pv")
        /\ UNCHANGED mem
     \/ Answer(r, "refused")
  /\ UNCHANGED <<storage, afscp, store, workloads, counters>>

(* buildPV and buildPVC, made from the plan alone: a volume without        *)
(* claimRef, a claim that names its volume but is not bound.               *)
NewVolume == "free"
NewClaim  == "unbound"

(* EnsurePersistentVolume: an update replaces the whole object, so it      *)
(* clears the claimRef; it also carries no finalizers, so the update of an *)
(* object that is being deleted may be what completes the deletion.        *)
EnsurePV(r) ==
  /\ pc[r] = "pv"
  /\ \/ /\ pv' = NewVolume
        /\ UNCHANGED deleting
     \/ /\ "pv" \in deleting
        /\ pv' = "none"
        /\ deleting' = deleting \ {"pv"}
  /\ made' = TRUE
  /\ Goto(r, "pvc")
  /\ UNCHANGED <<pvc, afscp, store, mem, workloads, counters>>

(* EnsurePersistentVolumeClaim: likewise; spec.volumeName and the status   *)
(* of an existing claim are kept.                                          *)
EnsurePVC(r) ==
  /\ pc[r] = "pvc"
  /\ \/ /\ pvc' = IF pvc = "none" THEN NewClaim ELSE pvc
        /\ UNCHANGED deleting
     \/ /\ "pvc" \in deleting
        /\ pvc' = "none"
        /\ deleting' = deleting \ {"pvc"}
  /\ Goto(r, "bound")
  /\ UNCHANGED <<pv, made, afscp, store, mem, workloads, counters>>

(* waitForPVCBound: Bound in time, or 503 after a second.                  *)
AwaitBound(r) ==
  /\ pc[r] = "bound"
  /\ Answer(r, IF pvc = "bound" THEN "ready" ELSE "notReady")
  /\ UNCHANGED <<storage, afscp, store, workloads, counters>>

-----------------------------------------------------------------------------
(* DELETE.                                                                 *)
StartDelete(r) == /\ Start(r, "facts")
                  /\ OverlapWorkload \/ \A w \in Workload : wpc[w] = "idle"
                  /\ UNCHANGED ensures

(* Workloads with a stored fact of this binding that is not terminal, and  *)
(* with a Pod, in any phase, that uses its claim or names it.              *)
OpenFacts == {w \in Workload : wfact[w] = "open"}
LivePods  == {w \in Workload : pods[w] # "none"}

(* activeWorkloadsForBinding: first the stored facts, then the Pods.       *)
ListFacts(r) ==
  /\ pc[r] = "facts"
  /\ IF OpenFacts = {}
       THEN Goto(r, "pods") /\ UNCHANGED mem
       ELSE Answer(r, "incomplete")
  /\ UNCHANGED <<storage, afscp, store, workloads, counters>>

ListPods(r) ==
  /\ pc[r] = "pods"
  /\ IF LivePods = {}
       THEN Goto(r, "fact") /\ UNCHANGED mem
       ELSE Answer(r, "incomplete")
  /\ UNCHANGED <<storage, afscp, store, workloads, counters>>

(* Mutant of LoadFact: a fact that says storage_deleted skips the storage. *)
LoadFact_TrustsGone(r) ==
  /\ pc[r] = "fact"
  /\ mem' = [mem EXCEPT ![r] = fact]
  /\ Goto(r, IF fact.stamp = 0 THEN "ref"
             ELSE IF fact.gone /\ ~fact.done THEN "status"
             ELSE "dropPvc")
  /\ UNCHANGED <<storage, afscp, store, workloads, counters>>

(* ensureWorkspaceBindingReleaseFact: an existing fact is used as it is.   *)
LoadFact(r) ==
  /\ pc[r] = "fact"
  /\ mem' = [mem EXCEPT ![r] = fact]
  /\ Goto(r, IF fact.stamp = 0 THEN "ref" ELSE "dropPvc")
  /\ UNCHANGED <<storage, afscp, store, workloads, counters>>

(* Mutant of ResolveRef: the mount reference is looked up in the claim     *)
(* only.                                                                   *)
ResolveRef_ClaimOnly(r) ==
  /\ pc[r] = "ref"
  /\ IF pvc # "none"
       THEN /\ clock' = clock + 1
            /\ mem' = [mem EXCEPT ![r] = NewFact(clock + 1)]
            /\ Goto(r, "record")
       ELSE /\ Answer(r, "incomplete")
            /\ UNCHANGED clock
  /\ UNCHANGED <<storage, afscp, fact, workloads, counters>>

(* resolveWorkspaceBindingMountRef: the claim's annotations ...            *)
ResolveRef(r) ==
  /\ pc[r] = "ref"
  /\ \/ /\ pvc # "none"
        /\ clock' = clock + 1
        /\ mem' = [mem EXCEPT ![r] = NewFact(clock + 1)]
        /\ Goto(r, "record")
     \/ /\ pvc = "none"
        /\ Goto(r, "refPv")
        /\ UNCHANGED <<clock, mem>>
  /\ UNCHANGED <<storage, afscp, fact, workloads, counters>>

(* ... or else the volume's; without either the answer is 409.             *)
ResolveRefFromPV(r) ==
  /\ pc[r] = "refPv"
  /\ \/ /\ pv # "none"
        /\ clock' = clock + 1
        /\ mem' = [mem EXCEPT ![r] = NewFact(clock + 1)]
        /\ Goto(r, "record")
     \/ /\ pv = "none"
        /\ Answer(r, "incomplete")
        /\ UNCHANGED clock
  /\ UNCHANGED <<storage, afscp, fact, workloads, counters>>

(* Mutant of Record: the fact is kept in memory until storage is gone.     *)
Record_Later(r) ==
  /\ pc[r] = "record"
  /\ Goto(r, "dropPvc")
  /\ UNCHANGED <<storage, afscp, store, mem, workloads, counters>>

(* Save writes over whatever fact is stored; a write of another handler    *)
(* between its Get and its Update makes it fail.                           *)
Save(f) == fact' = f

(* The first Save, before anything is deleted.                             *)
Record(r) ==
  /\ pc[r] = "record"
  /\ Save(mem[r])
  /\ Goto(r, "dropPvc")
  /\ UNCHANGED <<storage, afscp, clock, mem, workloads, counters>>

(* Mutant of DropPV: the deletion of a volume that is not there is taken   *)
(* to be under way.                                                        *)
DropPV_MarksMissing(r) ==
  /\ pc[r] = "dropPv"
  /\ deleting' = deleting \cup {"pv"}
  /\ Goto(r, "wait")
  /\ UNCHANGED <<pv, pvc, made, afscp, store, mem, workloads, counters>>

(* DeletePersistentVolumeClaim and DeletePersistentVolume: NotFound is     *)
(* success.                                                                *)
DropPVC(r) ==
  /\ pc[r] = "dropPvc"
  /\ deleting' = IF pvc = "none" THEN deleting ELSE deleting \cup {"pvc"}
  /\ Goto(r, "dropPv")
  /\ UNCHANGED <<pv, pvc, made, afscp, store, mem, workloads, counters>>

DropPV(r) ==
  /\ pc[r] = "dropPv"
  /\ deleting' = IF pv = "none" THEN deleting ELSE deleting \cup {"pv"}
  /\ Goto(r, "wait")
  /\ UNCHANGED <<pv, pvc, made, afscp, store, mem, workloads, counters>>

(* waitForWorkspaceBindingStorageDeleted reads the claim, then the volume; *)
(* after a second it gives up with a retryable 409.                        *)
PollPVC(r) ==
  /\ pc[r] = "wait"
  /\ IF pvc = "none" THEN Goto(r, "waitPv") /\ UNCHANGED mem
                     ELSE Answer(r, "incomplete")
  /\ UNCHANGED <<storage, afscp, store, workloads, counters>>

(* Mutant of PollPV: a claim that is gone is enough.                       *)
PollPV_ClaimIsEnough(r) ==
  /\ pc[r] = "waitPv"
  /\ mem' = [mem EXCEPT ![r].gone = TRUE]
  /\ Goto(r, "saveGone")
  /\ UNCHANGED <<storage, afscp, store, workloads, counters>>

(* Storage is gone: record it once; a fact that is complete ends here.     *)
PollPV(r) ==
  /\ pc[r] = "waitPv"
  /\ \/ /\ pv = "none" /\ ~mem[r].gone
        /\ mem' = [mem EXCEPT ![r].gone = TRUE]
        /\ Goto(r, "saveGone")
     \/ /\ pv = "none" /\ mem[r].gone /\ ~mem[r].done
        /\ Goto(r, "status")
        /\ UNCHANGED mem
     \/ /\ pv = "none" /\ mem[r].gone /\ mem[r].done
        /\ Answer(r, "deleted")
     \/ /\ pv # "none"
        /\ Goto(r, "wait")
        /\ UNCHANGED mem
     \/ /\ pv # "none"
        /\ Answer(r, "incomplete")
  /\ UNCHANGED <<storage, afscp, store, workloads, counters>>

SaveGone(r) ==
  /\ pc[r] = "saveGone"
  /\ Save(mem[r])
  /\ Goto(r, "status")
  /\ UNCHANGED <<storage, afscp, clock, mem, workloads, counters>>

(* Mutant of Report: observed_at is the time of the call.                  *)
Report_Now(r) ==
  /\ pc[r] = "status"
  /\ clock' = clock + 1
  /\ IF accepted = 0
       THEN /\ accepted' = clock + 1
            /\ mem' = [mem EXCEPT ![r].done = TRUE, ![r].stamp = clock + 1]
            /\ Goto(r, "saveDone")
       ELSE /\ Answer(r, "error")
            /\ UNCHANGED accepted
  /\ UNCHANGED <<storage, fact, workloads, counters>>

(* Mutant of Report: a refused status is taken for an answered one.        *)
Report_IgnoresConflict(r) ==
  /\ pc[r] = "status"
  /\ accepted' = IF accepted = 0 THEN mem[r].stamp ELSE accepted
  /\ mem' = [mem EXCEPT ![r].done = TRUE]
  /\ Goto(r, "saveDone")
  /\ UNCHANGED <<storage, store, workloads, counters>>

(* markWorkspaceBindingMountReleased.  The idempotency key is the same for *)
(* every attempt, so AFSCP refuses another observed_at under it.           *)
Report(r) ==
  /\ pc[r] = "status"
  /\ \/ /\ accepted \in {0, mem[r].stamp}
        /\ accepted' = mem[r].stamp
        /\ mem' = [mem EXCEPT ![r].done = TRUE]
        /\ Goto(r, "saveDone")
     \/ /\ accepted \notin {0, mem[r].stamp}
        /\ Answer(r, "error")
        /\ UNCHANGED accepted
  /\ UNCHANGED <<storage, store, workloads, counters>>

SaveDone(r) ==
  /\ pc[r] = "saveDone"
  /\ Save(mem[r])
  /\ Answer(r, "deleted")
  /\ UNCHANGED <<storage, afscp, clock, workloads, counters>>

-----------------------------------------------------------------------------
(* Workloads, as the binding sees them: a PUT checks the mount, creates    *)
(* the Pod and saves a fresh fact; a DELETE makes sure there is a fact,    *)
(* takes the Pod away and brings the fact to its terminal state.  It does  *)
(* nothing about a Pod whose fact is terminal already.                     *)

(* RequirePVCBound, and the volume's own view: Bound, with a claimRef that *)
(* names the claim.                                                        *)
ClaimBound  == pvc = "bound"
VolumeBound == pv = "claimed"

(* resolveWorkspaceMount: claim Bound, volume claimed, plan available.     *)
CheckMount(w) ==
  /\ creates < MaxCreates
  /\ wpc[w] = "idle"
  /\ OverlapWorkload \/ \A r \in Req : ~Deleting(r)
  /\ ReuseWorkload \/ wfact[w] = "none"
  /\ ClaimBound /\ VolumeBound /\ PlanAvailable
  /\ wpc' = [wpc EXCEPT ![w] = "create"]
  /\ creates' = creates + 1
  /\ UNCHANGED <<storage, afscp, store, locals, pods, wfact, ensures, faults>>

(* Pods.Create, or the Pod that is already there.                          *)
CreatePod(w) ==
  /\ wpc[w] = "create"
  /\ wpc' = [wpc EXCEPT ![w] = "record"]
  /\ pods' = [pods EXCEPT ![w] = IF pods[w] = "none" THEN "waiting" ELSE pods[w]]
  /\ UNCHANGED <<storage, afscp, store, locals, wfact, counters>>

RecordWorkload(w) ==
  /\ wpc[w] = "record"
  /\ wpc' = [wpc EXCEPT ![w] = "idle"]
  /\ wfact' = [wfact EXCEPT ![w] = "open"]
  /\ UNCHANGED <<storage, afscp, store, locals, pods, counters>>

(* A workload DELETE that finds a Pod and no fact saves one first.         *)
TrackPod(w) ==
  /\ pods[w] # "none" /\ wfact[w] = "none"
  /\ ReuseWorkload \/ wpc[w] = "idle"
  /\ wfact' = [wfact EXCEPT ![w] = "open"]
  /\ UNCHANGED <<storage, afscp, store, locals, wpc, pods, counters>>

StopPod(w) ==
  /\ pods[w] # "none" /\ wfact[w] = "open"
  /\ pods' = [pods EXCEPT ![w] = "none"]
  /\ UNCHANGED <<storage, afscp, store, locals, wpc, wfact, counters>>

CloseFact(w) ==
  /\ pods[w] = "none" /\ wfact[w] = "open"
  /\ wfact' = [wfact EXCEPT ![w] = "terminal"]
  /\ UNCHANGED <<storage, afscp, store, locals, wpc, pods, counters>>

-----------------------------------------------------------------------------
(* Faults.  Each one takes from the budget MaxFaults.                      *)
Fault == faults < MaxFaults /\ faults' = faults + 1

(* A call of a handler fails without effect, or its process dies.          *)
Fail(r) ==
  /\ Fault
  /\ ~Idle(r)
  /\ Answer(r, "error")
  /\ UNCHANGED <<storage, afscp, store, workloads, ensures, creates>>

(* The effect of the call takes place and its answer is lost; for the      *)
(* status this also stands for an operation that is still pending.  For    *)
(* other calls that is the step followed by Fail.                          *)
LostAnswer(r) ==
  /\ Fault
  /\ \/ /\ pc[r] = "status" /\ accepted \in {0, mem[r].stamp}
        /\ accepted' = mem[r].stamp
        /\ UNCHANGED fact
     \/ /\ pc[r] = "saveDone"
        /\ Save(mem[r])
        /\ UNCHANGED accepted
  /\ Answer(r, "error")
  /\ UNCHANGED <<storage, clock, workloads, ensures, creates>>

(* A workload PUT fails or dies before its fact is saved.                  *)
AbandonPut(w) ==
  /\ Fault
  /\ wpc[w] # "idle"
  /\ wpc' = [wpc EXCEPT ![w] = "idle"]
  /\ UNCHANGED <<storage, afscp, store, locals, pods, wfact, ensures, creates>>

-----------------------------------------------------------------------------
(* Kubernetes.                                                             *)

(* The volume controller binds the claim to a volume without a claimRef.   *)
Bind ==
  /\ pv = "free" /\ pvc # "none" /\ deleting = {}
  /\ pv' = "claimed" /\ pvc' = "bound"
  /\ UNCHANGED <<deleting, made, afscp, store, locals, workloads, counters>>

(* A Bound claim whose volume is missing is Lost.                          *)
LoseVolume ==
  /\ pv = "none" /\ pvc = "bound"
  /\ pvc' = "unbound"
  /\ UNCHANGED <<pv, deleting, made, afscp, store, locals, workloads, counters>>

(* A claim goes when no scheduled Pod uses it, a volume when no claim is   *)
(* bound to it.                                                            *)
ClaimGone ==
  /\ "pvc" \in deleting
  /\ \A w \in Workload : pods[w] # "placed"
  /\ pvc' = "none"
  /\ deleting' = deleting \ {"pvc"}
  /\ UNCHANGED <<pv, made, afscp, store, locals, workloads, counters>>

VolumeGone ==
  /\ "pv" \in deleting
  /\ pvc = "none" \/ pv = "free"
  /\ pv' = "none"
  /\ deleting' = deleting \ {"pv"}
  /\ UNCHANGED <<pvc, made, afscp, store, locals, workloads, counters>>

(* A Pod is scheduled while its claim is Bound and not being deleted.      *)
PlacePod(w) ==
  /\ pods[w] = "waiting" /\ pvc = "bound" /\ "pvc" \notin deleting
  /\ pods' = [pods EXCEPT ![w] = "placed"]
  /\ UNCHANGED <<storage, afscp, store, locals, wpc, wfact, counters>>

-----------------------------------------------------------------------------
EnsureStep(r) == FetchPlan(r) \/ EnsurePV(r) \/ EnsurePVC(r) \/ AwaitBound(r)

DeleteStep(r) == \/ ListFacts(r) \/ ListPods(r) \/ LoadFact(r) \/ ResolveRef(r)
                 \/ ResolveRefFromPV(r) \/ Record(r) \/ DropPVC(r) \/ DropPV(r)
                 \/ PollPVC(r) \/ PollPV(r) \/ SaveGone(r) \/ Report(r) \/ SaveDone(r)

PutStep(w)   == CreatePod(w) \/ RecordWorkload(w)
CloseStep(w) == TrackPod(w) \/ StopPod(w) \/ CloseFact(w)

Next == \/ \E r \in Req : \/ StartEnsure(r) \/ EnsureStep(r)
                          \/ StartDelete(r) \/ DeleteStep(r)
                          \/ Fail(r) \/ LostAnswer(r)
        \/ \E w \in Workload : \/ CheckMount(w) \/ PutStep(w) \/ CloseStep(w)
                               \/ AbandonPut(w) \/ PlacePod(w)
        \/ Bind \/ LoseVolume \/ ClaimGone \/ VolumeGone

Spec == Init /\ [][Next]_vars

(***************************************************************************)
(* Fairness.  Handlers run to their end (every call has a timeout), the    *)
(* volume and protection controllers finish deletions, AgentSmith deletes  *)
(* the workloads of a binding it closes and sends the binding DELETE until *)
(* it is answered 200.  Nothing obliges it to ensure or create.            *)
(***************************************************************************)
Fairness == /\ \A r \in Req : WF_vars(EnsureStep(r)) /\ WF_vars(DeleteStep(r))
            /\ \A w \in Workload : WF_vars(PutStep(w)) /\ WF_vars(CloseStep(w))
            /\ WF_vars(ClaimGone) /\ WF_vars(VolumeGone)
            /\ SF_vars(\E r \in Req : StartDelete(r))

FairSpec == Spec /\ Fairness

-----------------------------------------------------------------------------
(* Safety, whatever overlaps, fails or crashes.                            *)

(* The reference AFSCP needs to close a mount (namespace and mount binding)*)
(* is never lost before AFSCP has it: while a binding that was ever made   *)
(* is not reported released, its release fact or one of its storage        *)
(* objects still names it, so a DELETE can be resumed.                     *)
RefNeverLost == made /\ accepted = 0 => fact.stamp # 0 \/ pv # "none" \/ pvc # "none"

(* A stored fact says terminal_status_done only when AFSCP accepted the    *)
(* status with the observed_at in that fact.                               *)
Accepted(f) == f.done => accepted = f.stamp /\ accepted # 0

DoneIsAccepted == Accepted(fact)

(* Why these hold: every copy in memory says the same, a DELETE that has   *)
(* passed its first Save has made the fact, and only such a DELETE sets    *)
(* deletion going.                                                         *)
AfterRecord == {"dropPvc", "dropPv", "wait", "waitPv", "saveGone", "status", "saveDone"}

ReleaseInv ==
  /\ TypeOK
  /\ DoneIsAccepted
  /\ accepted # 0 => fact.stamp # 0
  /\ deleting # {} => fact.stamp # 0
  /\ made /\ fact.stamp = 0 => pv # "none" \/ pvc # "none"
  /\ \A r \in Req : /\ Accepted(mem[r])
                    /\ pc[r] \in AfterRecord => fact.stamp # 0
                    /\ pc[r] \in AfterRecord \cup {"record"} => mem[r].stamp # 0

ReleaseOrder == INSTANCE BindingRelease
                  WITH present <- pv # "none" \/ pvc # "none", recorded <- fact.stamp,
                       done <- fact.done, told <- accepted

(* The mount reference is on record before the storage that carries it     *)
(* goes, AFSCP is told once and the fact is done only with what it was     *)
(* told, whatever handlers overlap and however old the copies they save.   *)
ImplementsBindingRelease == ReleaseOrder!Spec

-----------------------------------------------------------------------------
(* Safety when the requests for a binding come one after the other and no  *)
(* workload PUT runs beside its DELETE, as the integration contract asks.  *)

Unused == \A w \in Workload : pods[w] = "none" /\ wpc[w] = "idle"

(* AFSCP hears "released" only when claim and volume are gone and no Pod   *)
(* uses them, in whatever state an earlier, failed DELETE, an ensure in    *)
(* between or a workload PUT that died has left things.                    *)
ReleasedMeansGone ==
  [][accepted' # accepted => pv = "none" /\ pvc = "none" /\ Unused]_vars

(* No retry sends AFSCP another observed_at under the idempotency key.     *)
NoIdempotencyConflict ==
  \A r \in Req : pc[r] = "status" => accepted \in {0, mem[r].stamp}

(* A DELETE answered 200 left nothing: storage gone, AFSCP told, and a     *)
(* fact that says both.                                                    *)
DeletedMeansReleased ==
  [][\A r \in Req : pc[r] # "idle" /\ out'[r] = "deleted" =>
        /\ pv = "none" /\ pvc = "none"
        /\ fact'.gone /\ fact'.done /\ accepted # 0]_vars

(* Why these hold.  The one request in flight finds the stored fact as it  *)
(* left it: a fact is made only where there is none, and from then on its  *)
(* observed_at is the only one in any copy.  What the request has seen     *)
(* gone stays gone until it answers.                                       *)
OneAtATime == \A q, r \in Req : ~Idle(q) /\ ~Idle(r) => q = r

StorageGone == pv = "none" /\ pvc = "none"

Turn(r) ==
  /\ ~Idle(r) => out[r] = "none"
  /\ pc[r] \in {"ref", "refPv", "record"} => fact.stamp = 0
  /\ pc[r] \in {"dropPvc", "dropPv", "wait", "waitPv"} => mem[r] = fact
  /\ pc[r] \in AfterRecord => mem[r].stamp = fact.stamp
  /\ pc[r] = "waitPv" => pvc = "none"
  /\ pc[r] \in {"saveGone", "status", "saveDone"} => StorageGone /\ mem[r].gone
  /\ pc[r] = "saveDone" => mem[r].done

SerialInv ==
  /\ ReleaseInv
  /\ OneAtATime
  /\ accepted \in {0, fact.stamp}
  /\ \A r \in Req : Turn(r)

(* No PUT of a workload is under way beside a DELETE, and none of its Pods *)
(* once the DELETE has listed them.                                        *)
UnusedInv ==
  \A r \in Req : /\ Deleting(r) => \A w \in Workload : wpc[w] = "idle"
                 /\ pc[r] \in DeletePcs \ {"facts", "pods"} => Unused

(* Liveness: DELETEs that are retried close every binding ever made.       *)
EventuallyReleased == made ~> accepted # 0 /\ fact.done /\ pv = "none" /\ pvc = "none"

-----------------------------------------------------------------------------
(* What the repository says and the code does not keep when requests       *)
(* overlap.                                                                *)

(* A binding DELETE succeeds only if no workload of the binding is left.   *)
DeletedMeansUnused ==
  [][\A r \in Req : pc[r] # "idle" /\ out'[r] = "deleted" =>
        \A w \in Workload : pods[w] = "none"]_vars
=============================================================================
