-------------------------- MODULE WorkloadLifecycle --------------------------
(***************************************************************************)
(* PUT and DELETE of one workload, step by step, over what they share:     *)
(*   - the Pod that carries the workload's name in Kubernetes,             *)
(*   - the workload terminal fact (a ConfigMap),                           *)
(*   - AFSCP's record of the mount's release and released status,          *)
(*   - the per-process delete lock (DeleteLocks shows it is a mutex).      *)
(*                                                                         *)
(* Every call a handler makes to Kubernetes or AFSCP is a step of its own, *)
(* so requests interleave between any two calls; what a handler read in an *)
(* earlier step sits in its locals and may be stale when it is used.  A    *)
(* request that is not in flight has its locals at their null values.      *)
(***************************************************************************)
EXTENDS Integers

CONSTANTS
  Req,         \* request slots: a slot serves one request after another
  NoReq,       \* the delete lock is free
  Replica,     \* ASBCP processes
  ReplicaOf,   \* the process that serves a slot
  ClientOps,   \* what clients send: a subset of {"put", "delete"}
  FaultyOps,   \* the operations whose calls may fail and whose process may crash
  Overlap,     \* may a PUT run beside another request for the workload?
  MainMayExit, \* may the main container end by itself (restartPolicy Never)?
  KeyedByUid,  \* the AFSCP mutations whose idempotency key reaches the Pod's uid
  MaxPuts,     \* bound: PUT requests in a behaviour
  MaxFaults    \* bound: failed calls, pending answers, crashes and evictions

ASSUME ReqAssumption ==
  /\ NoReq \notin Req
  /\ ReplicaOf \in [Req -> Replica]
  /\ ClientOps \subseteq {"put", "delete"}
  /\ FaultyOps \subseteq {"put", "delete"}
  /\ Overlap \in BOOLEAN
  /\ MainMayExit \in BOOLEAN
  /\ KeyedByUid \subseteq {"release", "status"}
  /\ MaxPuts \in Nat
  /\ MaxFaults \in Nat

VARIABLES
  pod,       \* the Pod under the workload's name
  born,      \* Pod uids handed out so far
  fact,      \* the stored workload terminal fact
  clock,     \* timestamps handed out so far
  released,  \* AFSCP: uids whose mount release was carried out
  reported,  \* AFSCP: accepted released statuses, [uid, stamp]
  holder,    \* holder[p]: the request inside process p's delete lock
  pc,        \* the call each request makes next
  mem,       \* the request's in-memory fact
  seen,      \* the Pod object the request last read
  synced,    \* storageFlushed
  base,      \* what Save's Get found: none, absent, current, or stale since
  out,       \* the last answer
  puts, faults

k8s    == <<pod, born>>
afscp  == <<released, reported>>
store  == <<fact, clock>>
locals == <<pc, mem, seen, synced, base, out>>
vars   == <<k8s, store, afscp, holder, locals, puts, faults>>

-----------------------------------------------------------------------------
(* Values.  A uid of 0 stands for "no object".                             *)
Pod  == [uid : Nat, phase : {"Pending", "Running", "Done"}, terminating : BOOLEAN]
Fact == [uid : Nat, rel : BOOLEAN, del : BOOLEAN, term : BOOLEAN, stamp : Nat]
Sight == [uid : Nat, started : BOOLEAN]
NoPod   == [uid |-> 0, phase |-> "Pending", terminating |-> FALSE]
NoFact  == [uid |-> 0, rel |-> FALSE, del |-> FALSE, term |-> FALSE, stamp |-> 0]
NoSight == [uid |-> 0, started |-> FALSE]

FreshFact(u, t) == [uid |-> u, rel |-> FALSE, del |-> FALSE, term |-> FALSE, stamp |-> t]
Terminal(f) == f.rel /\ f.del /\ f.term

PutPcs    == {"mount", "create", "existing", "putGet", "putWrite", "rollback"}
DeletePcs == {"lock", "load", "confirm", "look", "saveGet", "saveWrite",
              "flush", "release", "remove", "wait", "status"}
Pcs     == {"idle"} \cup PutPcs \cup DeletePcs
Bases   == {"none", "absent", "current", "stale"}
Answers == {"none", "created", "exists", "deleted", "incomplete", "conflict",
            "refused", "error"}

(* A slot between two requests carries nothing over from the last one.     *)
IdleIsClean == \A r \in Req : pc[r] = "idle" =>
                 mem[r] = NoFact /\ seen[r] = NoSight /\ ~synced[r] /\ base[r] = "none"

(* Every variable keeps its type, and every finished request its locals at *)
(* their null values.                                                      *)
TypeOK ==
  /\ pod \in Pod /\ born \in Nat
  /\ fact \in Fact /\ clock \in Nat
  /\ released \subseteq Nat
  /\ reported \subseteq [uid : Nat, stamp : Nat]
  /\ holder \in [Replica -> Req \cup {NoReq}]
  /\ pc \in [Req -> Pcs]
  /\ mem \in [Req -> Fact]
  /\ seen \in [Req -> Sight]
  /\ synced \in [Req -> BOOLEAN]
  /\ base \in [Req -> Bases]
  /\ out \in [Req -> Answers]
  /\ puts \in Nat /\ faults \in Nat
  /\ IdleIsClean

Init ==
  /\ pod = NoPod /\ born = 0
  /\ fact = NoFact /\ clock = 0
  /\ released = {} /\ reported = {}
  /\ holder = [p \in Replica |-> NoReq]
  /\ pc = [r \in Req |-> "idle"]
  /\ mem = [r \in Req |-> NoFact]
  /\ seen = [r \in Req |-> NoSight]
  /\ synced = [r \in Req |-> FALSE]
  /\ base = [r \in Req |-> "none"]
  /\ out = [r \in Req |-> "none"]
  /\ puts = 0 /\ faults = 0

-----------------------------------------------------------------------------
(* Steps of a handler's own state.                                         *)

(* The handler goes on to its next call.                                   *)
Goto(r, l) == /\ pc' = [pc EXCEPT ![r] = l]
              /\ UNCHANGED <<out, holder>>

(* Mutant of Answer: the flush flag lives in the Handler, not the request. *)
Answer_SyncedSurvives(r, a) ==
  /\ pc' = [pc EXCEPT ![r] = "idle"]
  /\ out' = [out EXCEPT ![r] = a]
  /\ mem' = [mem EXCEPT ![r] = NoFact]
  /\ seen' = [seen EXCEPT ![r] = NoSight]
  /\ base' = [base EXCEPT ![r] = "none"]
  /\ holder' = [p \in Replica |-> IF holder[p] = r THEN NoReq ELSE holder[p]]
  /\ UNCHANGED synced

(* Mutant of Answer: an early return without the deferred unlock.          *)
Answer_KeepsLock(r, a) ==
  /\ pc' = [pc EXCEPT ![r] = "idle"]
  /\ out' = [out EXCEPT ![r] = a]
  /\ mem' = [mem EXCEPT ![r] = NoFact]
  /\ seen' = [seen EXCEPT ![r] = NoSight]
  /\ synced' = [synced EXCEPT ![r] = FALSE]
  /\ base' = [base EXCEPT ![r] = "none"]
  /\ UNCHANGED holder

(* The handler answers; its locals die with it and its deferred unlock     *)
(* runs.                                                                   *)
Answer(r, a) ==
  /\ pc' = [pc EXCEPT ![r] = "idle"]
  /\ out' = [out EXCEPT ![r] = a]
  /\ mem' = [mem EXCEPT ![r] = NoFact]
  /\ seen' = [seen EXCEPT ![r] = NoSight]
  /\ synced' = [synced EXCEPT ![r] = FALSE]
  /\ base' = [base EXCEPT ![r] = "none"]
  /\ holder' = [p \in Replica |-> IF holder[p] = r THEN NoReq ELSE holder[p]]

(* getScopedWorkloadPod: shouldFlushWorkloadStorage is decided on the      *)
(* object read here.                                                       *)
Sighting == [uid |-> pod.uid, started |-> pod.phase # "Pending"]

(* ConfigMapStore.Save, first half: Get the ConfigMap.                     *)
ReadBase(r) == base' = [base EXCEPT ![r] = IF fact.uid = 0 THEN "absent" ELSE "current"]

(* ConfigMapStore.Save, second half: Create, or Update with the resource   *)
(* version just read.  Every other Save that has done its Get is outdated. *)
SaveFits(r) == base[r] # "stale"
Store(r, f) == /\ fact' = f
               /\ base' = [q \in Req |-> IF q = r \/ base[q] = "none" THEN "none"
                                           ELSE "stale"]

-----------------------------------------------------------------------------
(* PUT                                                                     *)
Idle(r) == pc[r] = "idle"

StartPut(r) ==
  /\ "put" \in ClientOps
  /\ Idle(r)
  /\ puts < MaxPuts
  /\ Overlap \/ \A q \in Req : Idle(q)
  /\ puts' = puts + 1
  /\ out' = [out EXCEPT ![r] = "none"]
  /\ pc' = [pc EXCEPT ![r] = "mount"]
  /\ UNCHANGED <<k8s, store, afscp, holder, mem, seen, synced, base, faults>>

(* resolveWorkspaceMount: PVC, PV and AFSCP plan agree, or the create is   *)
(* refused (503 not ready, 409 drift) before anything is changed.          *)
ResolveMount(r) ==
  /\ pc[r] = "mount"
  /\ \/ /\ Goto(r, "create")
        /\ UNCHANGED <<mem, seen, synced, base>>
     \/ Answer(r, "refused")
  /\ UNCHANGED <<k8s, store, afscp, puts, faults>>

(* buildPod: what is asked for is the same each time, so only the identity *)
(* Kubernetes gives it tells two Pods apart.                               *)
NewPod(u) == [NoPod EXCEPT !.uid = u]

(* Pods.Create: the new Pod, or AlreadyExists.                             *)
CreatePod(r) ==
  /\ pc[r] = "create"
  /\ \/ /\ pod.uid = 0
        /\ pod' = NewPod(born + 1)
        /\ born' = born + 1
        /\ mem' = [mem EXCEPT ![r] = FreshFact(born + 1, 0)]
        /\ Goto(r, "putGet")
     \/ /\ pod.uid # 0
        /\ Goto(r, "existing")
        /\ UNCHANGED <<pod, born, mem>>
  /\ UNCHANGED <<store, afscp, seen, synced, base, puts, faults>>

(* workloadPodSpecDrift: the Pod may differ from the one asked for.        *)
Drift(r) == pod.uid # 0 /\ Answer(r, "conflict")

(* AlreadyExists: read the Pod, which may be gone by now.  Its             *)
(* deletionTimestamp is not looked at.                                     *)
ReuseExisting(r) ==
  /\ pc[r] = "existing"
  /\ \/ /\ pod.uid # 0
        /\ seen' = [seen EXCEPT ![r] = Sighting]
        /\ mem' = [mem EXCEPT ![r] = FreshFact(pod.uid, 0)]
        /\ Goto(r, "putGet")
        /\ UNCHANGED <<synced, base>>
     \/ Drift(r)
     \/ /\ pod.uid = 0
        /\ Answer(r, "error")
  /\ UNCHANGED <<k8s, store, afscp, puts, faults>>

(* recordWorkloadFact: Save stamps its own copy and reads the ConfigMap.   *)
PutGet(r) ==
  /\ pc[r] = "putGet"
  /\ clock' = clock + 1
  /\ mem' = [mem EXCEPT ![r].stamp = clock + 1]
  /\ ReadBase(r)
  /\ Goto(r, "putWrite")
  /\ UNCHANGED <<k8s, fact, afscp, seen, synced, puts, faults>>

Created(r) == seen[r].uid = 0

(* A failed Save undoes the create only when this request made the Pod.    *)
SaveFailed(r) == \/ /\ Created(r)
                    /\ Goto(r, "rollback")
                    /\ UNCHANGED <<mem, seen, synced, base>>
                 \/ /\ ~Created(r)
                    /\ Answer(r, "error")

(* Mutant of PutWrite: the new Pod is merged into the stored fact, whose   *)
(* flags of an earlier life stay set.                                      *)
PutWrite_KeepsFlags(r) ==
  /\ pc[r] = "putWrite"
  /\ SaveFits(r)
  /\ Store(r, [fact EXCEPT !.uid = mem[r].uid, !.stamp = mem[r].stamp])
  /\ pc' = [pc EXCEPT ![r] = "idle"]
  /\ out' = [out EXCEPT ![r] = IF Created(r) THEN "created" ELSE "exists"]
  /\ mem' = [mem EXCEPT ![r] = NoFact]
  /\ seen' = [seen EXCEPT ![r] = NoSight]
  /\ synced' = [synced EXCEPT ![r] = FALSE]
  /\ UNCHANGED <<k8s, clock, afscp, holder, puts, faults>>

PutWrite(r) ==
  /\ pc[r] = "putWrite"
  /\ \/ /\ SaveFits(r)
        /\ pc' = [pc EXCEPT ![r] = "idle"]
        /\ out' = [out EXCEPT ![r] = IF Created(r) THEN "created" ELSE "exists"]
        /\ mem' = [mem EXCEPT ![r] = NoFact]
        /\ seen' = [seen EXCEPT ![r] = NoSight]
        /\ synced' = [synced EXCEPT ![r] = FALSE]
        /\ Store(r, mem[r])
        /\ UNCHANGED holder
     \/ /\ ~SaveFits(r)
        /\ SaveFailed(r)
        /\ UNCHANGED fact
  /\ UNCHANGED <<k8s, clock, afscp, puts, faults>>

(* rollbackCreatedPodAfterFactFailure: delete whatever Pod has the name,   *)
(* grace period 0, then answer 500.                                        *)
Rollback(r) ==
  /\ pc[r] = "rollback"
  /\ pod' = NoPod
  /\ Answer(r, "error")
  /\ UNCHANGED <<born, store, afscp, puts, faults>>

-----------------------------------------------------------------------------
(* DELETE                                                                  *)
StartDelete(r) ==
  /\ "delete" \in ClientOps
  /\ Idle(r)
  /\ Overlap \/ \A q \in Req : pc[q] \notin PutPcs
  /\ out' = [out EXCEPT ![r] = "none"]
  /\ pc' = [pc EXCEPT ![r] = "lock"]
  /\ UNCHANGED <<k8s, store, afscp, holder, mem, seen, synced, base, puts, faults>>

(* Mutant of Lock: handlers go ahead without waiting for the holder.       *)
Lock_NoWait(r) ==
  /\ pc[r] = "lock"
  /\ holder' = [holder EXCEPT ![ReplicaOf[r]] = r]
  /\ pc' = [pc EXCEPT ![r] = "load"]
  /\ UNCHANGED <<k8s, store, afscp, mem, seen, synced, base, out, puts, faults>>

Lock(r) ==
  /\ pc[r] = "lock"
  /\ holder[ReplicaOf[r]] = NoReq
  /\ holder' = [holder EXCEPT ![ReplicaOf[r]] = r]
  /\ pc' = [pc EXCEPT ![r] = "load"]
  /\ UNCHANGED <<k8s, store, afscp, mem, seen, synced, base, out, puts, faults>>

(* The stages of a DELETE, from its fact, the Pod it read and whether it   *)
(* has flushed: flush a started Pod, release, remove the Pod, report.      *)
NeedsFlush(s, f) == s.started /\ ~f

(* Mutant of StageAt: the Pod is removed before AFSCP confirms the release.*)
StageAt_RemoveFirst(f, s, fl) ==
  LET there == ~f.del /\ s.uid # 0
  IN  CASE there /\ NeedsFlush(s, fl)  -> "flush"
        [] there /\ ~NeedsFlush(s, fl) -> "remove"
        [] ~there /\ ~f.rel            -> "release"
        [] OTHER                       -> "status"

(* Mutant of StageAt: released is reported as soon as AFSCP released.      *)
StageAt_ReportEarly(f, s, fl) ==
  LET due == NeedsFlush(s, fl)
  IN  CASE ~f.rel /\ due    -> "flush"
        [] ~f.rel /\ ~due   -> "release"
        [] f.rel /\ ~f.term -> "status"
        [] OTHER            -> "remove"

StageAt(f, s, fl) ==
  LET due == NeedsFlush(s, fl)
  IN  CASE due /\ ~(f.rel /\ f.del)   -> "flush"
        [] ~due /\ ~f.rel            -> "release"
        [] ~due /\ f.rel /\ ~f.del   -> "remove"
        [] OTHER                     -> "status"

(* loadWorkloadFact decides which objects still have to be looked at.      *)
LoadFact(r) ==
  /\ pc[r] = "load"
  /\ mem' = [mem EXCEPT ![r] = fact]
  /\ Goto(r, IF Terminal(fact) THEN "confirm"
             ELSE IF fact.uid = 0 \/ ~fact.del THEN "look"
             ELSE StageAt(fact, NoSight, FALSE))
  /\ UNCHANGED <<k8s, store, afscp, seen, synced, base, puts, faults>>

(* A terminal fact: the DELETE was already done, unless a Pod is back.     *)
ConfirmTerminal(r) ==
  /\ pc[r] = "confirm"
  /\ Answer(r, IF pod.uid = 0 THEN "deleted" ELSE "incomplete")
  /\ UNCHANGED <<k8s, store, afscp, puts, faults>>

(* With the release done and no Pod read, PodDeleted is set at once and    *)
(* saved; otherwise the handler makes the call of its next stage.          *)
Proceed(r, f, s, fl) ==
  LET skip == f.rel /\ ~f.del /\ s.uid = 0
  IN  /\ mem' = [mem EXCEPT ![r] = IF skip THEN [f EXCEPT !.del = TRUE] ELSE f]
      /\ Goto(r, IF skip THEN "saveGet" ELSE StageAt(f, s, fl))

(* getScopedWorkloadPod; without a fact the Pod is the only truth and a    *)
(* new fact is saved before anything else, without either the answer is    *)
(* 409.                                                                    *)
LookAtPod(r) ==
  /\ pc[r] = "look"
  /\ \/ /\ mem[r].uid # 0
        /\ seen' = [seen EXCEPT ![r] = Sighting]
        /\ Proceed(r, mem[r], Sighting, FALSE)
        /\ UNCHANGED <<clock, synced, base>>
     \/ /\ mem[r].uid = 0 /\ pod.uid # 0
        /\ seen' = [seen EXCEPT ![r] = Sighting]
        /\ clock' = clock + 1
        /\ mem' = [mem EXCEPT ![r] = FreshFact(pod.uid, clock + 1)]
        /\ Goto(r, "saveGet")
        /\ UNCHANGED <<synced, base>>
     \/ /\ mem[r].uid = 0 /\ pod.uid = 0
        /\ Answer(r, "incomplete")
        /\ UNCHANGED clock
  /\ UNCHANGED <<k8s, fact, afscp, puts, faults>>

SaveGet(r) ==
  /\ pc[r] = "saveGet"
  /\ ReadBase(r)
  /\ Goto(r, "saveWrite")
  /\ UNCHANGED <<k8s, store, afscp, mem, seen, synced, puts, faults>>

(* Every Save of a DELETE; after the last one the answer is 200.           *)
SaveWrite(r) ==
  /\ pc[r] = "saveWrite"
  /\ \/ /\ SaveFits(r) /\ ~Terminal(mem[r])
        /\ Store(r, mem[r])
        /\ Proceed(r, mem[r], seen[r], synced[r])
        /\ UNCHANGED <<seen, synced>>
     \/ /\ SaveFits(r) /\ Terminal(mem[r])
        /\ Store(r, mem[r])
        /\ pc' = [pc EXCEPT ![r] = "idle"]
        /\ out' = [out EXCEPT ![r] = "deleted"]
        /\ mem' = [mem EXCEPT ![r] = NoFact]
        /\ seen' = [seen EXCEPT ![r] = NoSight]
        /\ synced' = [synced EXCEPT ![r] = FALSE]
        /\ holder' = [holder EXCEPT ![ReplicaOf[r]] = NoReq]
     \/ /\ ~SaveFits(r)
        /\ Answer(r, "error")
        /\ UNCHANGED fact
  /\ UNCHANGED <<k8s, clock, afscp, puts, faults>>

(* flushWorkloadStorage runs sync in the main container of whatever Pod    *)
(* has the name; without a running one the exec fails.  (WorkloadSession   *)
(* says what the sync does and how its end is told.)                       *)
Flush(r) ==
  /\ pc[r] = "flush"
  /\ \/ /\ pod.phase = "Running"
        /\ synced' = [synced EXCEPT ![r] = TRUE]
        /\ Goto(r, IF mem[r].rel THEN "remove" ELSE "release")
        /\ UNCHANGED <<mem, seen, base>>
     \/ /\ pod.phase # "Running"
        /\ Answer(r, "error")
  /\ UNCHANGED <<k8s, store, afscp, puts, faults>>

(* sanitizeIdempotencyKey keeps the first 180 bytes of a key, which may    *)
(* or may not reach what stands at its end.                                *)
Kept(op, u) == IF op \in KeyedByUid THEN u ELSE 0

(* factLifecycleIdempotencyKey puts the Pod's uid last, after the ids of   *)
(* the scope and the binding and the Pod's name.  Those are the same for   *)
(* all Pods of the workload, so that a key may not tell two of them apart. *)
SameKey(op, u, v) == Kept(op, u) = Kept(op, v)

(* AFSCP carries out one release per key and confirms it to whoever asks   *)
(* for it again.                                                           *)
Confirmed(u) == \E v \in released : SameKey("release", v, u)

ReleaseMount(u) == released' = IF Confirmed(u) THEN released ELSE released \cup {u}

(* AFSCP refuses another observed_at under a status key it has taken.      *)
StatusConflict(r) == \E x \in reported : /\ SameKey("status", x.uid, mem[r].uid)
                                         /\ x.stamp # mem[r].stamp

AcceptStatus(r) ==
  /\ ~StatusConflict(r)
  /\ reported' = reported \cup {[uid |-> mem[r].uid, stamp |-> mem[r].stamp]}

(* releaseWorkloadMountFromFact, confirmed.                                *)
Release(r) ==
  /\ pc[r] = "release"
  /\ ReleaseMount(mem[r].uid)
  /\ mem' = [mem EXCEPT ![r].rel = TRUE]
  /\ Goto(r, "saveGet")
  /\ UNCHANGED <<k8s, store, reported, seen, synced, base, puts, faults>>

(* DeletePod by name, grace period 10, NotFound is success.                *)
RemovePod(r) ==
  /\ pc[r] = "remove"
  /\ pod' = IF pod.uid = 0 THEN pod ELSE [pod EXCEPT !.terminating = TRUE]
  /\ Goto(r, "wait")
  /\ UNCHANGED <<born, store, afscp, mem, seen, synced, base, puts, faults>>

(* Mutant of AwaitPodGone: DeletePod's success counts as deletion.         *)
AwaitPodGone_NoWait(r) ==
  /\ pc[r] = "wait"
  /\ mem' = [mem EXCEPT ![r].del = TRUE]
  /\ Goto(r, "saveGet")
  /\ UNCHANGED <<k8s, store, afscp, seen, synced, base, puts, faults>>

(* waitForPodDeletion sees the name free, or gives up on a Pod that has it *)
(* - the one it deleted, or a newer one.                                   *)
AwaitPodGone(r) ==
  /\ pc[r] = "wait"
  /\ \/ /\ pod.uid = 0
        /\ mem' = [mem EXCEPT ![r].del = TRUE]
        /\ Goto(r, "saveGet")
        /\ UNCHANGED <<seen, synced, base>>
     \/ /\ pod.uid # 0
        /\ Answer(r, "error")
  /\ UNCHANGED <<k8s, store, afscp, puts, faults>>

(* Mutant of ReportReleased: observed_at is the time of the call, as in    *)
(* the unused markWorkloadMountReleased.                                   *)
ReportReleased_Now(r) ==
  /\ pc[r] = "status"
  /\ clock' = clock + 1
  /\ \/ /\ \A x \in reported : ~SameKey("status", x.uid, mem[r].uid)
        /\ reported' = reported \cup {[uid |-> mem[r].uid, stamp |-> clock + 1]}
        /\ mem' = [mem EXCEPT ![r].term = TRUE]
        /\ Goto(r, "saveGet")
        /\ UNCHANGED <<seen, synced, base>>
     \/ /\ \E x \in reported : SameKey("status", x.uid, mem[r].uid)
        /\ Answer(r, "error")
        /\ UNCHANGED reported
  /\ UNCHANGED <<k8s, fact, released, puts, faults>>

(* markWorkloadMountReleasedFromFact: confirmed, or refused and answered   *)
(* 502.                                                                    *)
ReportReleased(r) ==
  /\ pc[r] = "status"
  /\ \/ /\ AcceptStatus(r)
        /\ mem' = [mem EXCEPT ![r].term = TRUE]
        /\ Goto(r, "saveGet")
        /\ UNCHANGED <<seen, synced, base>>
     \/ /\ StatusConflict(r)
        /\ Answer(r, "error")
        /\ UNCHANGED reported
  /\ UNCHANGED <<k8s, store, released, puts, faults>>

-----------------------------------------------------------------------------
(* Faults.  Each one takes from the budget MaxFaults.                      *)
OpOf(r) == IF pc[r] \in PutPcs THEN "put" ELSE "delete"

Fault == faults < MaxFaults /\ faults' = faults + 1

(* A call of the handler fails without effect: an API or AFSCP error, a    *)
(* timeout, or the client's disconnect cancelling the request's context.   *)
(* A failed Save in a PUT leads to the rollback, which is detached from    *)
(* the request's context; a failed rollback leaves the Pod.                *)
Fail(r) ==
  /\ Fault
  /\ pc[r] \notin {"idle", "lock"} /\ OpOf(r) \in FaultyOps
  /\ IF pc[r] \in {"putGet", "putWrite"} THEN SaveFailed(r) ELSE Answer(r, "error")
  /\ UNCHANGED <<k8s, store, afscp, puts>>

(* A write takes effect and its answer is lost, so the handler goes down   *)
(* its error path.  In a DELETE that is the step followed by Fail, except  *)
(* for calls whose effect is followed by the handler's own bookkeeping:    *)
(* the AFSCP mutations, where it also stands for an operation that is      *)
(* still pending (409 with Retry-After) and completes later.               *)
LostAnswer(r) ==
  /\ Fault
  /\ OpOf(r) \in FaultyOps
  /\ \/ /\ pc[r] = "create" /\ pod.uid = 0
        /\ pod' = NewPod(born + 1)
        /\ born' = born + 1
        /\ Answer(r, "error")
        /\ UNCHANGED <<fact, afscp>>
     \/ /\ pc[r] = "putWrite" /\ SaveFits(r) /\ Created(r)
        /\ Store(r, mem[r])
        /\ Goto(r, "rollback")
        /\ UNCHANGED <<k8s, afscp, mem, seen, synced>>
     \/ /\ pc[r] = "release"
        /\ ReleaseMount(mem[r].uid)
        /\ Answer(r, "incomplete")
        /\ UNCHANGED <<k8s, fact, reported>>
     \/ /\ pc[r] = "status"
        /\ AcceptStatus(r)
        /\ Answer(r, "incomplete")
        /\ UNCHANGED <<k8s, fact, released>>
  /\ UNCHANGED <<clock, puts>>

(* A process dies: its requests get no answer and its delete lock, which   *)
(* lives in memory, is gone.                                               *)
Crash(p) ==
  /\ Fault
  /\ \E r \in Req : ReplicaOf[r] = p /\ ~Idle(r)
  /\ \A r \in Req : ReplicaOf[r] = p /\ ~Idle(r) => OpOf(r) \in FaultyOps
  /\ LET Lost(r) == ReplicaOf[r] = p
     IN  /\ pc' = [r \in Req |-> IF Lost(r) THEN "idle" ELSE pc[r]]
         /\ mem' = [r \in Req |-> IF Lost(r) THEN NoFact ELSE mem[r]]
         /\ seen' = [r \in Req |-> IF Lost(r) THEN NoSight ELSE seen[r]]
         /\ synced' = [r \in Req |-> IF Lost(r) THEN FALSE ELSE synced[r]]
         /\ base' = [r \in Req |-> IF Lost(r) THEN "none" ELSE base[r]]
         /\ out' = [r \in Req |-> IF Lost(r) THEN "none" ELSE out[r]]
  /\ holder' = [holder EXCEPT ![p] = NoReq]
  /\ UNCHANGED <<k8s, store, afscp, puts>>

-----------------------------------------------------------------------------
(* Kubernetes.                                                             *)
(* The main container starts; it may do so although deletion has begun.    *)
PodStarts ==
  /\ pod.uid # 0 /\ pod.phase = "Pending"
  /\ pod' = [pod EXCEPT !.phase = "Running"]
  /\ UNCHANGED <<born, store, afscp, holder, locals, puts, faults>>

(* restartPolicy Never: the main container ends, the Pod stays.            *)
PodExits ==
  /\ MainMayExit
  /\ pod.phase = "Running"
  /\ pod' = [pod EXCEPT !.phase = "Done"]
  /\ UNCHANGED <<born, store, afscp, holder, locals, puts, faults>>

(* The kubelet finishes a deletion.                                        *)
PodGone ==
  /\ pod.terminating
  /\ pod' = NoPod
  /\ UNCHANGED <<born, store, afscp, holder, locals, puts, faults>>

(* A node failure, an eviction or an operator removes the Pod.             *)
PodEvicted ==
  /\ Fault
  /\ pod.uid # 0
  /\ pod' = NoPod
  /\ UNCHANGED <<born, store, afscp, holder, locals, puts>>

-----------------------------------------------------------------------------
PutStep(r) == \/ ResolveMount(r) \/ CreatePod(r) \/ ReuseExisting(r)
              \/ PutGet(r) \/ PutWrite(r) \/ Rollback(r)

(* The calls of a DELETE other than its flush.                             *)
DeleteCall(r) == \/ Lock(r) \/ LoadFact(r) \/ ConfirmTerminal(r) \/ LookAtPod(r)
                 \/ SaveGet(r) \/ SaveWrite(r) \/ Release(r)
                 \/ RemovePod(r) \/ AwaitPodGone(r) \/ ReportReleased(r)

DeleteStep(r) == Flush(r) \/ DeleteCall(r)

Kubernetes == PodStarts \/ PodExits \/ PodGone \/ PodEvicted

Next == \/ \E r \in Req : \/ StartPut(r) \/ PutStep(r)
                          \/ StartDelete(r) \/ DeleteStep(r)
                          \/ Fail(r) \/ LostAnswer(r)
        \/ \E p \in Replica : Crash(p)
        \/ Kubernetes

Spec == Init /\ [][Next]_vars

(***************************************************************************)
(* Fairness.  A handler runs to its next call (every call is bounded by a  *)
(* timeout), the kubelet finishes deletions, and a client that has not     *)
(* been told "deleted" sends its DELETE again, which is the retry the      *)
(* integration contract asks of it.  Faults are finitely many (MaxFaults). *)
(***************************************************************************)
Fairness == /\ \A r \in Req : WF_vars(PutStep(r)) /\ WF_vars(DeleteStep(r))
            /\ WF_vars(PodGone)
            /\ WF_vars(\E r \in Req : StartDelete(r))

FairSpec == Spec /\ Fairness

-----------------------------------------------------------------------------
(* Safety, whatever overlaps, fails or crashes.                            *)

(* What a fact claims has happened to its Pod: release_done only after     *)
(* AFSCP confirmed a release under its key, pod_deleted only after the Pod *)
(* is gone for good, terminal_status_done only after AFSCP accepted the    *)
(* status.                                                                 *)
Backed(f) == /\ f.uid <= born
             /\ f.rel => Confirmed(f.uid)
             /\ f.del => f.uid # pod.uid
             /\ f.term => \E x \in reported : x.uid = f.uid

(* The stored terminal fact never claims what has not happened, even when  *)
(* a request saves a copy it read long ago or two requests overwrite each  *)
(* other: a retry may repeat work, it never skips it.                      *)
FactBacked == Backed(fact)

(* Why it is inductive: every copy a request holds is backed as well, a    *)
(* copy marked deleted is about a Pod, and past its look at the Pod a      *)
(* DELETE knows which Pod it is closing and whether that Pod was there.    *)
AfterLook == {"saveGet", "saveWrite", "flush", "release", "remove", "wait", "status"}

Sound(f) == Backed(f) /\ (f.del => f.uid # 0)

CopySound(r) ==
  /\ Sound(mem[r])
  /\ pc[r] \in AfterLook =>
       mem[r].uid # 0 /\ (seen[r].uid = 0 => mem[r].uid # pod.uid)
  /\ pc[r] = "status" => mem[r].rel /\ mem[r].del

FactInv ==
  /\ TypeOK
  /\ pod.uid <= born
  /\ Sound(fact)
  /\ \A r \in Req : CopySound(r)

MountOrder == INSTANCE MountRelease
                WITH live <- pod.uid, reported <- {x.uid : x \in reported}

(* AFSCP sees each Pod's mount released, and reported "released" only      *)
(* after the release was confirmed and that Pod is gone.                   *)
ImplementsMountRelease == MountOrder!Spec

(* The request inside the delete lock of a process, by what it does next.  *)
Inside(r)   == pc[r] \in DeletePcs \ {"lock"}
InsideOf(p) == {r \in Req : ReplicaOf[r] = p /\ Inside(r)}

Section == [p \in Replica |-> IF InsideOf(p) = {} THEN NoReq
                                ELSE CHOOSE r \in InsideOf(p) : TRUE]

DeleteMutex == INSTANCE KeyedMutex
                 WITH Thread <- Req, Key <- Replica, NoThread <- NoReq, holder <- Section

(* The DELETEs of one process exclude each other from their load of the    *)
(* fact to their answer, whichever of their returns they take and also     *)
(* when the process dies: the mutex that DeleteLocks implements.           *)
ImplementsDeleteMutex == DeleteMutex!Spec

(* Why: the lock is held by exactly those that are past it.                *)
SectionInv == \A p \in Replica, r \in Req : holder[p] = r <=> r \in InsideOf(p)

-----------------------------------------------------------------------------
(* Safety when PUTs settle and do not run beside other requests.           *)

(* A DELETE answered 200 means the workload is closed: no Pod, and a       *)
(* stored fact that is terminal.                                           *)
DeletedMeansClosed ==
  [][\A r \in Req : pc[r] # "idle" /\ out'[r] = "deleted" =>
        pod.uid = 0 /\ Terminal(fact')]_vars

(* Between requests, a live Pod is the one the stored fact is about and    *)
(* that fact is still open, so the next DELETE will release and remove it. *)
LivePodIsTracked ==
  pod.uid # 0 /\ (\A r \in Req : Idle(r)) => fact.uid = pod.uid /\ ~fact.del

(* A DELETE only ever adds to the stored fact: it does not take back what  *)
(* an earlier or concurrent DELETE recorded, nor replace the fact of       *)
(* another Pod.                                                            *)
DeleteNeverRegresses ==
  [][\A r \in Req : pc[r] = "saveWrite" /\ fact # fact' /\ fact.uid # 0 =>
        /\ fact'.uid = fact.uid /\ fact'.stamp = fact.stamp
        /\ fact.rel => fact'.rel
        /\ fact.del => fact'.del
        /\ fact.term => fact'.term]_vars

(* Compute is taken away only after AFSCP confirmed the release of that    *)
(* very Pod.                                                               *)
ReleaseBeforeRemoval == pod.terminating => pod.uid \in released

(* No DELETE, first or retried, in this process or another, for this Pod   *)
(* or the next of the workload, is about to report an observed_at that     *)
(* AFSCP refuses as an idempotency conflict.                               *)
NoStatusConflict == \A r \in Req : pc[r] = "status" => ~StatusConflict(r)

(* Why these hold.  PUTs that run beside nothing else, and do not end with *)
(* a Pod the stored fact does not name, keep that fact on the live Pod;    *)
(* every DELETE that has read the fact then works on that Pod with that    *)
(* stamp, whichever process runs it.                                       *)
PutsAlone == ~Overlap

Tracked == pod.uid # 0 => fact.uid = pod.uid

Settled == \A r \in Req : pc[r] \in PutPcs /\ pc'[r] = "idle" => Tracked'

PutsSettle == [][Settled]_vars

(* PUTs that complete settle.                                              *)
PutsComplete == "put" \notin FaultyOps

(* The Pod of a PUT about to save its fact is not one AFSCP has heard of.  *)
PutTurn(r) ==
  pc[r] \in PutPcs =>
    /\ \A q \in Req \ {r} : Idle(q)
    /\ base[r] # "stale"
    /\ pc[r] \in {"mount", "create", "existing"} => Tracked
    /\ pc[r] \in {"putGet", "putWrite"} =>
         pod.uid \in {0, mem[r].uid} /\ \A x \in reported : x.uid # mem[r].uid

Loaded == {"confirm", "look"} \cup AfterLook

DeleteTurn(r) ==
  /\ pc[r] \in Loaded => mem[r].uid = fact.uid /\ mem[r].stamp = fact.stamp
  /\ pc[r] \in {"remove", "wait"} => mem[r].rel

RemovalConfirmed == pod.terminating => Confirmed(pod.uid)

ReportsAgree ==
  /\ \A x \in reported : x.uid \in 1..born /\ x.uid # pod.uid
  /\ \A x \in reported : x.uid = fact.uid => x.stamp = fact.stamp

SerialInv ==
  /\ FactInv
  /\ (\A r \in Req : pc[r] \notin PutPcs) => Tracked
  /\ \A r \in Req : PutTurn(r) /\ DeleteTurn(r)
  /\ RemovalConfirmed
  /\ ReportsAgree

(* One DELETE at a time past the lock, which one process sees to by its    *)
(* lock and several leave to the client: then nobody writes the fact       *)
(* between its load and its saves.                                         *)
OneServer == \A q, r \in Req : ReplicaOf[q] = ReplicaOf[r]

OneInside == \A q, r \in Req : Inside(q) /\ Inside(r) => q = r

Extends(f, g) == /\ f.rel => g.rel
                 /\ f.del => g.del
                 /\ f.term => g.term

LockTurn(r) ==
  /\ pc[r] = "confirm" => Terminal(fact)
  /\ pc[r] \in Loaded => Extends(fact, mem[r])
  /\ ~Idle(r) => out[r] = "none"

LockedInv == SerialInv /\ \A r \in Req : LockTurn(r)

(* Liveness: retried DELETEs get rid of the workload's Pod ...             *)
EventuallyRemoved == pod.uid # 0 ~> pod.uid = 0

(* ... and bring its fact to the terminal state.                           *)
EventuallyClosed == fact.uid # 0 ~> Terminal(fact)

=============================================================================
