---------------------------- MODULE WorkloadExpiry ----------------------------
(***************************************************************************)
(* The life time of a workload: PUT gives its Pod an expiry, keepalives    *)
(* push it forward, and AFSCP hears a heartbeat for each of them.          *)
(*                                                                         *)
(* A keepalive reads the Pod and the clock, sends the heartbeat and then   *)
(* patches the Pod by name, with retries.  Nothing holds the Pod in        *)
(* between: other keepalives overtake it, and the Pod may go and come      *)
(* back as another one.  All times are read from one clock, in seconds.    *)
(***************************************************************************)
EXTENDS Integers

CONSTANTS
  Req,            \* request slots for keepalives
  IdleTimeouts,   \* the idle_timeout_sec a PUT may ask for
  Lifetimes,      \* the max_lifetime_sec a PUT may ask for
  MaxAttempts,    \* k8sRetryConfig.MaxAttempts
  ReuseIds,       \* may a keepalive be sent again under the same request id, or one
                  \* that agrees with it in what the key's 180 bytes keep of it?
  MaxTime,        \* bound: the clock
  MaxPods,        \* bound: Pods created
  MaxKeepalives,  \* bound: request ids given out
  MaxFaults       \* bound: failed calls, lost answers and hang-ups

ASSUME ExpiryAssumption ==
  /\ IdleTimeouts \subseteq Nat \ {0} /\ Lifetimes \subseteq Nat \ {0}
  /\ MaxAttempts \in Nat \ {0}
  /\ ReuseIds \in BOOLEAN
  /\ MaxTime \in Nat /\ MaxPods \in Nat /\ MaxKeepalives \in Nat /\ MaxFaults \in Nat

VARIABLES
  now,      \* the clock
  pod,      \* the Pod's annotations: idle timeout, maxExpiresAt, expires_at
  last,     \* which Pod expires_at was computed for, and when it was read
  born,     \* Pod uids handed out
  beat,     \* when AFSCP last got a heartbeat, or the Pod was created
  heard,    \* idempotency keys AFSCP has seen, by request id
  issued,   \* request ids handed out
  pc,       \* the call each keepalive makes next
  mem,      \* what it has read and computed
  tries,    \* failed attempts of the patch
  faults

kube   == <<pod, last, born>>
afscp  == <<beat, heard>>
locals == <<pc, mem, tries>>
vars   == <<now, kube, afscp, issued, locals, faults>>

-----------------------------------------------------------------------------
(* A uid of 0 stands for "no Pod".                                         *)
Pod   == [uid : Nat, idle : Nat, cap : Nat, expires : Nat]
NoPod == [uid |-> 0, idle |-> 0, cap |-> 0, expires |-> 0]

(* What a keepalive knows: its request id, the Pod it read and when, and   *)
(* the expiry it computed.                                                 *)
Local == [id : Nat, uid : Nat, read : Nat, expires : Nat]
NoLocal == [id |-> 0, uid |-> 0, read |-> 0, expires |-> 0]

Earlier(s, t) == IF s < t THEN s ELSE t

(* Every variable keeps its type; Retry makes at most MaxAttempts calls.   *)
TypeOK ==
  /\ now \in Nat
  /\ pod \in Pod
  /\ last \in [uid : Nat, read : Nat]
  /\ born \in Nat /\ beat \in Nat /\ issued \in Nat
  /\ heard \subseteq Nat
  /\ pc \in [Req -> {"idle", "look", "beat", "patch"}]
  /\ mem \in [Req -> Local]
  /\ tries \in [Req -> Nat]
  /\ \A r \in Req : tries[r] < MaxAttempts
  /\ faults \in Nat

Init ==
  /\ now = 0 /\ pod = NoPod /\ last = [uid |-> 0, read |-> 0] /\ born = 0
  /\ beat = 0 /\ heard = {} /\ issued = 0
  /\ pc = [r \in Req |-> "idle"]
  /\ mem = [r \in Req |-> NoLocal]
  /\ tries = [r \in Req |-> 0]
  /\ faults = 0

-----------------------------------------------------------------------------
Goto(r, l) == /\ pc' = [pc EXCEPT ![r] = l]
              /\ UNCHANGED tries

(* The request is answered, in whatever way.                               *)
Answer(r) == /\ pc' = [pc EXCEPT ![r] = "idle"]
             /\ mem' = [mem EXCEPT ![r] = NoLocal]
             /\ tries' = [tries EXCEPT ![r] = 0]

Fault == faults < MaxFaults /\ faults' = faults + 1

Tick == /\ now < MaxTime
        /\ now' = now + 1
        /\ UNCHANGED <<kube, afscp, issued, locals, faults>>

-----------------------------------------------------------------------------
(* PUT creates the Pod: it expires after the idle timeout or the maximum   *)
(* lifetime, whichever is first.                                           *)
CreatePod ==
  /\ pod.uid = 0 /\ born < MaxPods
  /\ \E i \in IdleTimeouts, l \in Lifetimes :
       pod' = [uid |-> born + 1, idle |-> i, cap |-> now + l,
               expires |-> Earlier(now + i, now + l)]
  /\ last' = [uid |-> born + 1, read |-> now]
  /\ born' = born + 1
  /\ beat' = now
  /\ UNCHANGED <<now, heard, issued, locals, faults>>

(* A DELETE completes, or Kubernetes evicts the Pod.                       *)
RemovePod ==
  /\ pod.uid # 0
  /\ pod' = NoPod
  /\ UNCHANGED <<now, last, born, afscp, issued, locals, faults>>

-----------------------------------------------------------------------------
(* POST keepalive.  A request has a fresh id, unless its sender repeats an *)
(* earlier one.                                                            *)
StartKeepalive(r) ==
  /\ pc[r] = "idle"
  /\ \/ /\ issued < MaxKeepalives
        /\ issued' = issued + 1
        /\ mem' = [mem EXCEPT ![r].id = issued + 1]
     \/ /\ ReuseIds
        /\ \E k \in 1..issued : mem' = [mem EXCEPT ![r].id = k]
        /\ UNCHANGED issued
  /\ pc' = [pc EXCEPT ![r] = "look"]
  /\ UNCHANGED <<now, kube, afscp, tries, faults>>

(* Mutant of NewExpiry: the maximum lifetime is forgotten.                 *)
NewExpiry_Uncapped(p) == now + p.idle

(* Mutant of NewExpiry: the default idle timeout instead of the Pod's.     *)
NewExpiry_DefaultIdle(p) ==
  Earlier(now + (CHOOSE i \in IdleTimeouts : \A j \in IdleTimeouts : i <= j), p.cap)

(* The idle timeout from now on, but not past maxExpiresAt.                *)
NewExpiry(p) == Earlier(now + p.idle, p.cap)

(* Mutant of Look: the heartbeat is forgotten.                             *)
Look_NoHeartbeat(r) ==
  /\ pc[r] = "look"
  /\ \/ /\ pod.uid = 0
        /\ Answer(r)
     \/ /\ pod.uid # 0
        /\ mem' = [mem EXCEPT ![r].uid = pod.uid, ![r].read = now,
                              ![r].expires = NewExpiry(pod)]
        /\ Goto(r, "patch")
  /\ UNCHANGED <<now, kube, afscp, issued, faults>>

(* getScopedWorkloadPod and the clock.                                     *)
Look(r) ==
  /\ pc[r] = "look"
  /\ \/ /\ pod.uid = 0
        /\ Answer(r)
     \/ /\ pod.uid # 0
        /\ mem' = [mem EXCEPT ![r].uid = pod.uid, ![r].read = now,
                              ![r].expires = NewExpiry(pod)]
        /\ Goto(r, "beat")
  /\ UNCHANGED <<now, kube, afscp, issued, faults>>

(* AFSCP takes a heartbeat in; under a key it knows it does nothing.       *)
HearBeat(id) == /\ beat' = IF id \in heard THEN beat ELSE now
                /\ heard' = heard \cup {id}

(* heartbeatWorkloadMount: the idempotency key names the Pod's name and    *)
(* the request.  The handler takes any answer but an error for done, and   *)
(* does not wait for the operation; a lost answer is a 502.                *)
Heartbeat(r) ==
  /\ pc[r] = "beat"
  /\ HearBeat(mem[r].id)
  /\ \/ Goto(r, "patch") /\ UNCHANGED <<mem, faults>>
     \/ Fault /\ Answer(r)
  /\ UNCHANGED <<now, kube, issued>>

(* Mutant of TryAgain: Retry never gives up.                               *)
TryAgain_Forever(r) == UNCHANGED locals

(* Mutant of TryAgain: one attempt too many.                               *)
TryAgain_OneMore(r) ==
  \/ /\ tries[r] < MaxAttempts
     /\ tries' = [tries EXCEPT ![r] = tries[r] + 1]
     /\ UNCHANGED <<pc, mem>>
  \/ /\ tries[r] >= MaxAttempts
     /\ Answer(r)

(* Retry: another attempt after a pause, or the last error.                *)
TryAgain(r) ==
  \/ /\ tries[r] + 1 < MaxAttempts
     /\ tries' = [tries EXCEPT ![r] = tries[r] + 1]
     /\ UNCHANGED <<pc, mem>>
  \/ /\ tries[r] + 1 >= MaxAttempts
     /\ Answer(r)

(* PatchActivity, by name: whichever Pod has it now gets the expiry.  The  *)
(* answer may be lost, and then the patch is sent again.                   *)
Patch(r) ==
  /\ pc[r] = "patch" /\ pod.uid # 0
  /\ pod' = [pod EXCEPT !.expires = mem[r].expires]
  /\ last' = [uid |-> mem[r].uid, read |-> mem[r].read]
  /\ \/ Answer(r) /\ UNCHANGED faults
     \/ Fault /\ TryAgain(r)
  /\ UNCHANGED <<now, born, afscp, issued>>

(* The patch fails: there is no Pod, or the call goes wrong.               *)
PatchFails(r) ==
  /\ pc[r] = "patch"
  /\ \/ pod.uid = 0 /\ UNCHANGED faults
     \/ Fault
  /\ TryAgain(r)
  /\ UNCHANGED <<now, kube, afscp, issued>>

(* The lookup or the heartbeat fails, the client hangs up during a pause   *)
(* of Retry, or the process dies.                                          *)
Fail(r) ==
  /\ pc[r] # "idle"
  /\ Fault
  /\ Answer(r)
  /\ UNCHANGED <<now, kube, afscp, issued>>

-----------------------------------------------------------------------------
KeepaliveStep(r) == Look(r) \/ Heartbeat(r) \/ Patch(r) \/ PatchFails(r)

Next == \/ Tick \/ CreatePod \/ RemovePod
        \/ \E r \in Req : StartKeepalive(r) \/ KeepaliveStep(r) \/ Fail(r)

Spec == Init /\ [][Next]_vars

(* Handlers run to their next call, and every call has a timeout.          *)
FairSpec == Spec /\ \A r \in Req : WF_vars(KeepaliveStep(r))

-----------------------------------------------------------------------------
(* Was expires_at computed for the Pod that has it?  A keepalive that read *)
(* an earlier Pod of the name may have patched this one.                   *)
OwnExpiry == pod.uid # 0 /\ last.uid = pod.uid

(* No sequence of keepalives, retried or overtaken, moves a Pod's expiry   *)
(* past its maximum lifetime.                                              *)
CappedByLifetime == OwnExpiry => pod.expires <= pod.cap

(* AFSCP is never behind: the Pod's expiry is at most one idle timeout     *)
(* after its creation or the last heartbeat, so no keepalive, however      *)
(* delayed or repeated, promises a life that AFSCP was not told of.        *)
LeaseCoversExpiry == OwnExpiry => pod.expires <= beat + pod.idle

(* An expiry is moved back only by a keepalive that was overtaken: one     *)
(* that read the Pod before the keepalive whose expiry it replaces.        *)
OnlyOvertakenShortens ==
  [][OwnExpiry /\ OwnExpiry' /\ pod'.uid = pod.uid /\ pod'.expires < pod.expires
       => last'.read < last.read]_vars

(* Every keepalive is answered, however often its patch fails.             *)
KeepaliveAnswered == \A r \in Req : pc[r] # "idle" ~> pc[r] = "idle"

(* Why these hold: every expiry, stored or on its way, is the idle timeout *)
(* after the clock its keepalive read, capped; that reading is no later    *)
(* than the heartbeat; and no two keepalives share a request id.           *)
Computed(e, read) == e = Earlier(read + pod.idle, pod.cap)

Fresh == /\ \A r \in Req : pc[r] \in {"look", "beat"} => mem[r].id \notin heard
         /\ \A r, q \in Req : r # q /\ pc[r] # "idle" /\ pc[q] # "idle"
                                => mem[r].id # mem[q].id
         /\ \A r \in Req : mem[r].id <= issued
         /\ \A k \in heard : k <= issued

ExpiryInv ==
  /\ TypeOK
  /\ pod.uid <= born
  /\ OwnExpiry => Computed(pod.expires, last.read)
  /\ beat <= now
  /\ \A r \in Req :
       /\ mem[r].uid <= born /\ mem[r].read <= now
       /\ pc[r] \in {"beat", "patch"} /\ mem[r].uid = pod.uid /\ pod.uid # 0
            => Computed(mem[r].expires, mem[r].read)
       /\ pc[r] \in {"beat", "patch"} => mem[r].uid # 0

LeaseInv ==
  /\ ExpiryInv
  /\ Fresh
  /\ last.read <= beat
  /\ \A r \in Req : pc[r] = "patch" => mem[r].read <= beat
=============================================================================
