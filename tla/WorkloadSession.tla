--------------------------- MODULE WorkloadSession ----------------------------
(***************************************************************************)
(* The workload's life cycle together with what the program in the Pod     *)
(* does to its mount: it writes, and what it wrote stays in memory until   *)
(* the flush barrier of a DELETE syncs the mount.  The barrier is a        *)
(* command run in the main container, whose end the handler learns only    *)
(* through Executor.Exec (PodExec).                                        *)
(*                                                                         *)
(* Every step of WorkloadLifecycle is a step here, with what it means for  *)
(* the writes; the sync command takes the place of its abstract flush.     *)
(***************************************************************************)
EXTENDS WorkloadLifecycle, PodExec

VARIABLES
  unsynced,  \* the live Pod's mount holds writes no sync has covered
  owed       \* history: owed[r] says such writes were there when r's DELETE
             \* began, and that Pod has neither been synced nor gone since

mount == <<unsynced, owed>>
svars == <<vars, mount>>

(* Both keep their type; only a Pod that has run has written, and a mount  *)
(* that is owed a sync is unsynced.                                        *)
MountTypeOK ==
  /\ unsynced \in BOOLEAN
  /\ owed \in [Req -> BOOLEAN]
  /\ unsynced => pod.uid # 0 /\ pod.phase # "Pending"
  /\ \A r \in Req : owed[r] => unsynced /\ pc[r] # "idle"

SessionTypeOK == TypeOK /\ MountTypeOK

SessionInit == /\ Init
               /\ unsynced = FALSE
               /\ owed = [r \in Req |-> FALSE]

-----------------------------------------------------------------------------
(* Writes stay unsynced, and owed to the DELETEs in flight, while kept.    *)
WritesStay(kept) ==
  /\ unsynced' = (unsynced /\ kept)
  /\ owed' = [r \in Req |-> owed[r] /\ kept /\ pc'[r] # "idle"]

(* A step of the life cycle: writes are gone with the Pod that made them.  *)
MountFollows == WritesStay(pod'.uid = pod.uid)

(* The program in the main container, or a command an exec started there,  *)
(* writes; termination leaves it a grace period to do so.                  *)
Write == /\ pod.uid # 0 /\ pod.phase = "Running"
         /\ unsynced' = TRUE
         /\ UNCHANGED <<vars, owed>>

BeginDelete(r) == /\ StartDelete(r)
                  /\ owed' = [owed EXCEPT ![r] = unsynced]
                  /\ UNCHANGED unsynced

(* flushWorkloadStorage: the sync command, however it ends, and what the   *)
(* barrier makes of it.  A sync that ended well has done its work even     *)
(* when its end comes too late to count.                                   *)
SyncEnds(r) ==
  \E how \in Endings, late \in BOOLEAN :
    /\ pc[r] = "flush"
    /\ Possible(how, late)
    /\ how \in {"exit0", "exit1"} => pod.phase = "Running"
    /\ IF FlushWorkloadMount(Exec(how, late))
         THEN Flush(r)
         ELSE Fail(r) \/ (pod.phase # "Running" /\ Flush(r))
    /\ WritesStay(how # "exit0")

-----------------------------------------------------------------------------
DeleteCallFollowed(r) == DeleteCall(r) /\ MountFollows
PutStepFollowed(r)    == PutStep(r) /\ MountFollows

SessionNext ==
  \/ \E r \in Req : \/ BeginDelete(r) \/ SyncEnds(r)
                    \/ DeleteCallFollowed(r) \/ PutStepFollowed(r)
                    \/ (StartPut(r) \/ Fail(r) \/ LostAnswer(r)) /\ MountFollows
  \/ (\E p \in Replica : Crash(p)) /\ MountFollows
  \/ Kubernetes /\ MountFollows
  \/ Write

SessionSpec == SessionInit /\ [][SessionNext]_svars

(* As in WorkloadLifecycle; a sync that may fail only so often succeeds.   *)
SessionFairness ==
  /\ \A r \in Req : /\ WF_svars(PutStepFollowed(r))
                    /\ WF_svars(DeleteCallFollowed(r) \/ SyncEnds(r))
  /\ WF_svars(PodGone /\ MountFollows)
  /\ WF_svars(\E r \in Req : BeginDelete(r))

SessionFairSpec == SessionSpec /\ SessionFairness

-----------------------------------------------------------------------------
(* What was written before a DELETE began is on storage when that DELETE   *)
(* releases the mount and when it removes the Pod: whatever the retries    *)
(* before it did, whichever stage it resumes at, and however its own sync  *)
(* command ended or seemed to end.                                         *)
WritesAreSynced == \A r \in Req : pc[r] \in {"release", "remove"} => ~owed[r]

(* Why it holds: a DELETE that owes a sync read its Pod after that Pod had *)
(* started, so the stages lead it to the barrier first; and a fact is      *)
(* marked deleted only when released, so no stage skips the look.          *)
BeforeLook == {"lock", "load", "confirm", "look"}

SyncDue(r) ==
  /\ mem[r].del => mem[r].rel
  /\ pc[r] \in {"remove", "wait"} => mem[r].rel
  /\ pc[r] \in {"release", "remove"} => ~owed[r]
  /\ pc[r] \in {"saveGet", "saveWrite", "flush"} /\ owed[r] /\ ~mem[r].del =>
       seen[r].started /\ ~synced[r]
  /\ pc[r] \in BeforeLook => ~synced[r]

SyncInv ==
  /\ FactInv
  /\ MountTypeOK
  /\ fact.del => fact.rel
  /\ \A r \in Req : SyncDue(r)
=============================================================================
