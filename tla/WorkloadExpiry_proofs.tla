------------------------ MODULE WorkloadExpiry_proofs -------------------------
(***************************************************************************)
(* Proofs about WorkloadExpiry, for any number of keepalives, any timeouts *)
(* and lifetimes, and any interleaving of keepalives, failures, retries    *)
(* and changes of Pod.                                                     *)
(***************************************************************************)
EXTENDS WorkloadExpiry, TLAPS

(* The earlier of two times is one of them, and after neither.             *)
LEMMA EarlierIsLeast ==
  \A s, t \in Nat : Earlier(s, t) \in Nat /\ Earlier(s, t) <= s /\ Earlier(s, t) <= t
  BY DEF Earlier

(* Two readings give expiries in the order of the readings.                *)
LEMMA EarlierIsMonotone ==
  \A s, t, i, c \in Nat : s <= t => Earlier(s + i, c) <= Earlier(t + i, c)
  BY DEF Earlier

LEMMA NewExpiryType == ASSUME TypeOK PROVE NewExpiry(pod) \in Nat
  <1>1. now + pod.idle \in Nat /\ pod.cap \in Nat
    BY DEF TypeOK, Pod
  <1>2. QED
    BY <1>1, EarlierIsLeast DEF NewExpiry

(* Answering clears the request's locals and leaves the others alone.      *)
LEMMA AnswerTypes ==
  ASSUME TypeOK, NEW r \in Req, Answer(r)
  PROVE  /\ pc' \in [Req -> {"idle", "look", "beat", "patch"}]
         /\ mem' \in [Req -> Local]
         /\ tries' \in [Req -> Nat] /\ \A q \in Req : tries'[q] < MaxAttempts
         /\ pc'[r] = "idle" /\ mem'[r] = NoLocal
         /\ \A q \in Req : q # r => pc'[q] = pc[q] /\ mem'[q] = mem[q]
  BY ExpiryAssumption DEF Answer, TypeOK, NoLocal, Local

(* Retry counts an attempt or answers.                                     *)
LEMMA TryAgainTypes ==
  ASSUME TypeOK, NEW r \in Req, TryAgain(r)
  PROVE  /\ pc' \in [Req -> {"idle", "look", "beat", "patch"}]
         /\ mem' \in [Req -> Local]
         /\ tries' \in [Req -> Nat] /\ \A q \in Req : tries'[q] < MaxAttempts
         /\ \A q \in Req : \/ pc'[q] = pc[q] /\ mem'[q] = mem[q]
                           \/ pc'[q] = "idle" /\ mem'[q] = NoLocal
  <1>1. CASE Answer(r)
    BY <1>1, AnswerTypes
  <1>2. CASE /\ tries[r] + 1 < MaxAttempts
             /\ tries' = [tries EXCEPT ![r] = tries[r] + 1]
             /\ UNCHANGED <<pc, mem>>
    BY <1>2 DEF TypeOK
  <1>3. QED
    BY <1>1, <1>2 DEF TryAgain

-----------------------------------------------------------------------------
LEMMA TypeInit == Init => TypeOK
  BY ExpiryAssumption DEF Init, TypeOK, Pod, NoPod, Local, NoLocal

LEMMA TypeStep == TypeOK /\ [Next]_vars => TypeOK'
  <1> SUFFICES ASSUME TypeOK, [Next]_vars PROVE TypeOK'
    OBVIOUS
  <1> USE DEF kube, afscp, locals, Fault
  <1>1. CASE Tick
    BY <1>1 DEF Tick, TypeOK
  <1>2. CASE CreatePod
    <2>1. PICK i \in IdleTimeouts, l \in Lifetimes :
            pod' = [uid |-> born + 1, idle |-> i, cap |-> now + l,
                    expires |-> Earlier(now + i, now + l)]
      BY <1>2 DEF CreatePod
    <2>2. pod' \in Pod
      <3>1. i \in Nat /\ l \in Nat /\ now \in Nat /\ born \in Nat
        BY ExpiryAssumption DEF TypeOK
      <3>2. now + i \in Nat /\ now + l \in Nat /\ born + 1 \in Nat
        BY <3>1
      <3>3. Earlier(now + i, now + l) \in Nat
        BY <3>2, EarlierIsLeast
      <3>4. QED
        BY <2>1, <3>1, <3>2, <3>3 DEF Pod
    <2>3. QED
      BY <1>2, <2>2 DEF CreatePod, TypeOK
  <1>3. CASE RemovePod
    BY <1>3 DEF RemovePod, TypeOK, NoPod, Pod
  <1>4. ASSUME NEW r \in Req, StartKeepalive(r) PROVE TypeOK'
    BY <1>4 DEF StartKeepalive, TypeOK, Local
  <1>5. ASSUME NEW r \in Req, Look(r) PROVE TypeOK'
    <2>1. CASE Answer(r)
      BY <1>5, <2>1, AnswerTypes DEF Look, TypeOK
    <2>2. CASE ~Answer(r)
      BY <1>5, <2>2, NewExpiryType DEF Look, Goto, TypeOK, Local, Pod
    <2>3. QED
      BY <2>1, <2>2
  <1>6. ASSUME NEW r \in Req, Heartbeat(r) PROVE TypeOK'
    <2>1. beat' \in Nat /\ heard' \subseteq Nat
      BY <1>6 DEF Heartbeat, HearBeat, TypeOK, Local
    <2>2. CASE Answer(r) /\ Fault
      BY <1>6, <2>1, <2>2, AnswerTypes DEF Heartbeat, TypeOK
    <2>3. CASE Goto(r, "patch") /\ UNCHANGED <<mem, faults>>
      BY <1>6, <2>1, <2>3 DEF Heartbeat, Goto, TypeOK
    <2>4. QED
      BY <1>6, <2>2, <2>3 DEF Heartbeat
  <1>7. ASSUME NEW r \in Req, Patch(r) PROVE TypeOK'
    <2>1. pod' \in Pod /\ last' \in [uid : Nat, read : Nat]
      BY <1>7 DEF Patch, TypeOK, Pod, Local
    <2>2. CASE Answer(r) /\ UNCHANGED faults
      BY <1>7, <2>1, <2>2, AnswerTypes DEF Patch, TypeOK
    <2>3. CASE Fault /\ TryAgain(r)
      BY <1>7, <2>1, <2>3, TryAgainTypes DEF Patch, TypeOK
    <2>4. QED
      BY <1>7, <2>2, <2>3 DEF Patch
  <1>8. ASSUME NEW r \in Req, PatchFails(r) PROVE TypeOK'
    BY <1>8, TryAgainTypes DEF PatchFails, TypeOK
  <1>9. ASSUME NEW r \in Req, Fail(r) PROVE TypeOK'
    BY <1>9, AnswerTypes DEF Fail, TypeOK
  <1>10. CASE UNCHANGED vars
    BY <1>10 DEF vars, TypeOK
  <1>11. QED
    BY <1>1, <1>2, <1>3, <1>4, <1>5, <1>6, <1>7, <1>8, <1>9, <1>10 DEF Next, KeepaliveStep

(* Every variable keeps its type, and Retry its bound on attempts.         *)
THEOREM TypeCorrect == Spec => []TypeOK
  BY TypeInit, TypeStep, PTL DEF Spec

-----------------------------------------------------------------------------
(* What ExpiryInv asks of one request.                                     *)
Known(r) ==
  /\ mem[r].uid <= born /\ mem[r].read <= now
  /\ pc[r] \in {"beat", "patch"} /\ mem[r].uid = pod.uid /\ pod.uid # 0
       => Computed(mem[r].expires, mem[r].read)
  /\ pc[r] \in {"beat", "patch"} => mem[r].uid # 0

(* A step that leaves the Pods alone and takes one request to rest, or     *)
(* none anywhere, keeps what is known.                                     *)
LEMMA KnownAtRest ==
  ASSUME ExpiryInv, NEW q \in Req, TypeOK',
         born' \in Nat, born <= born', now <= now',
         \/ pc'[q] = pc[q] /\ mem'[q] = mem[q]
         \/ pc'[q] = "idle" /\ mem'[q] = NoLocal,
         \/ pod'.uid = pod.uid /\ pod'.idle = pod.idle /\ pod'.cap = pod.cap
         \/ pod'.uid = 0
         \/ pod'.uid = born + 1
  PROVE  Known(q)'
  <1>1. CASE pc'[q] = "idle" /\ mem'[q] = NoLocal
    BY <1>1 DEF Known, NoLocal, ExpiryInv, TypeOK
  <1>2. CASE pc'[q] = pc[q] /\ mem'[q] = mem[q]
    BY <1>2 DEF Known, ExpiryInv, TypeOK, Computed, Local, Pod
  <1>3. QED
    BY <1>1, <1>2

LEMMA ExpiryInit == Init => ExpiryInv
  BY TypeInit DEF Init, ExpiryInv, OwnExpiry, NoPod, NoLocal

LEMMA ExpiryStep == ExpiryInv /\ [Next]_vars => ExpiryInv'
  <1> SUFFICES ASSUME ExpiryInv, [Next]_vars PROVE ExpiryInv'
    OBVIOUS
  <1>t. TypeOK /\ TypeOK'
    BY TypeStep DEF ExpiryInv
  <1>k. (\A q \in Req : Known(q)) /\ pod.uid <= born /\ beat <= now
        /\ (OwnExpiry => Computed(pod.expires, last.read))
    BY DEF ExpiryInv, Known
  <1>q. SUFFICES /\ (pod.uid <= born)' /\ (beat <= now)'
                 /\ (OwnExpiry => Computed(pod.expires, last.read))'
                 /\ \A q \in Req : Known(q)'
    BY <1>t DEF ExpiryInv, Known
  <1> USE DEF kube, afscp, locals
  <1>1. CASE Tick
    <2>1. \A q \in Req : Known(q)'
      BY <1>1, <1>t, KnownAtRest DEF Tick, TypeOK
    <2>2. QED
      BY <1>1, <1>t, <1>k, <2>1 DEF Tick, OwnExpiry, Computed, TypeOK
  <1>2. CASE CreatePod
    <2>1. PICK i \in IdleTimeouts, l \in Lifetimes :
            pod' = [uid |-> born + 1, idle |-> i, cap |-> now + l,
                    expires |-> Earlier(now + i, now + l)]
      BY <1>2 DEF CreatePod
    <2>2. \A q \in Req : Known(q)'
      BY <1>2, <2>1, <1>t, KnownAtRest DEF CreatePod, TypeOK
    <2>3. QED
      BY <1>2, <2>1, <2>2, <1>t DEF CreatePod, OwnExpiry, Computed, TypeOK
  <1>3. CASE RemovePod
    <2>1. \A q \in Req : Known(q)'
      BY <1>3, <1>t, KnownAtRest DEF RemovePod, NoPod, TypeOK
    <2>2. QED
      BY <1>3, <1>t, <1>k, <2>1 DEF RemovePod, NoPod, OwnExpiry, TypeOK
  <1>4. ASSUME NEW r \in Req, StartKeepalive(r)
        PROVE  UNCHANGED <<now, kube, afscp>> /\ \A q \in Req : Known(q)'
    <2>1. UNCHANGED <<now, kube, afscp>>
      BY <1>4 DEF StartKeepalive
    <2>2. \A q \in Req : mem'[q].uid = mem[q].uid /\ mem'[q].read = mem[q].read
      BY <1>4, <1>t DEF StartKeepalive, TypeOK, Local
    <2>3. \A q \in Req : q # r => pc'[q] = pc[q] /\ mem'[q] = mem[q]
      BY <1>4, <1>t DEF StartKeepalive, TypeOK
    <2>4. pc'[r] = "look"
      BY <1>4, <1>t DEF StartKeepalive, TypeOK
    <2>5. Known(r)'
      BY <1>k, <2>1, <2>2, <2>4 DEF Known
    <2>6. \A q \in Req : q # r => Known(q)'
      BY <1>k, <2>1, <2>3 DEF Known, Computed
    <2>7. QED
      BY <2>1, <2>5, <2>6
  <1>5. ASSUME NEW r \in Req, Look(r)
        PROVE  UNCHANGED <<now, kube, afscp>> /\ \A q \in Req : Known(q)'
    <2>1. UNCHANGED <<now, kube, afscp>>
      BY <1>5 DEF Look
    <2>2. CASE Answer(r)
      BY <1>t, <2>1, <2>2, AnswerTypes, KnownAtRest DEF TypeOK
    <2>3. CASE ~Answer(r)
      <3>1. mem' = [mem EXCEPT ![r].uid = pod.uid, ![r].read = now,
                               ![r].expires = NewExpiry(pod)] /\ pc' = [pc EXCEPT ![r] = "beat"]
            /\ pod.uid # 0
        BY <1>5, <2>3 DEF Look, Goto
      <3>2. mem'[r].uid = pod.uid /\ mem'[r].read = now /\ mem'[r].expires = NewExpiry(pod)
            /\ pc'[r] = "beat"
        BY <3>1, <1>t DEF TypeOK, Local
      <3>3. Known(r)'
        BY <1>k, <1>t, <2>1, <3>1, <3>2 DEF Known, Computed, NewExpiry, TypeOK
      <3>4. \A q \in Req : q # r => pc'[q] = pc[q] /\ mem'[q] = mem[q]
        BY <3>1, <1>t DEF TypeOK
      <3>5. \A q \in Req : q # r => Known(q)'
        BY <1>k, <2>1, <3>4 DEF Known, Computed
      <3>6. QED
        BY <2>1, <3>3, <3>5
    <2>4. QED
      BY <2>2, <2>3
  <1>6. ASSUME NEW r \in Req, Heartbeat(r)
        PROVE  UNCHANGED <<now, kube>> /\ beat' <= now /\ \A q \in Req : Known(q)'
    <2>1. UNCHANGED <<now, kube>> /\ beat' <= now
      BY <1>6, <1>t, <1>k DEF Heartbeat, HearBeat, TypeOK
    <2>2. CASE Answer(r)
      BY <1>t, <2>1, <2>2, AnswerTypes, KnownAtRest DEF TypeOK
    <2>3. CASE ~Answer(r)
      <3>1. mem' = mem /\ pc' = [pc EXCEPT ![r] = "patch"] /\ pc[r] = "beat"
        BY <1>6, <2>3 DEF Heartbeat, Goto
      <3>2. mem[r].uid # 0 => Known(r)'
        BY <1>k, <1>t, <2>1, <3>1 DEF Known, Computed, TypeOK
      <3>3. \A q \in Req : q # r => Known(q)'
        BY <1>k, <1>t, <2>1, <3>1 DEF Known, Computed, TypeOK
      <3>4. mem[r].uid # 0
        BY <3>1, <1>k DEF Known
      <3>5. QED
        BY <2>1, <3>2, <3>3, <3>4
    <2>4. QED
      BY <2>2, <2>3
  <1>7. ASSUME NEW r \in Req, Patch(r)
        PROVE  /\ UNCHANGED <<now, born, beat>> /\ pod'.uid = pod.uid
               /\ (OwnExpiry => Computed(pod.expires, last.read))'
               /\ \A q \in Req : Known(q)'
    <2>1. UNCHANGED <<now, born, beat>> /\ pod'.uid = pod.uid /\ pod'.idle = pod.idle
          /\ pod'.cap = pod.cap /\ pod'.expires = mem[r].expires
          /\ last'.uid = mem[r].uid /\ last'.read = mem[r].read
      BY <1>7, <1>t DEF Patch, TypeOK, Pod
    <2>2. (OwnExpiry => Computed(pod.expires, last.read))'
      BY <1>7, <1>k, <2>1 DEF Patch, OwnExpiry, Computed, Known
    <2>3. \A q \in Req : \/ pc'[q] = pc[q] /\ mem'[q] = mem[q]
                         \/ pc'[q] = "idle" /\ mem'[q] = NoLocal
      BY <1>7, <1>t, AnswerTypes, TryAgainTypes DEF Patch
    <2>4. \A q \in Req : Known(q)'
      BY <1>t, <2>1, <2>3, KnownAtRest DEF TypeOK
    <2>5. QED
      BY <2>1, <2>2, <2>4
  <1>8. ASSUME NEW r \in Req, PatchFails(r) \/ Fail(r)
        PROVE  UNCHANGED <<now, kube, afscp>> /\ \A q \in Req : Known(q)'
    <2>1. UNCHANGED <<now, kube, afscp>>
      BY <1>8 DEF PatchFails, Fail
    <2>2. \A q \in Req : \/ pc'[q] = pc[q] /\ mem'[q] = mem[q]
                         \/ pc'[q] = "idle" /\ mem'[q] = NoLocal
      BY <1>8, <1>t, AnswerTypes, TryAgainTypes DEF PatchFails, Fail
    <2>3. QED
      BY <1>t, <2>1, <2>2, KnownAtRest DEF TypeOK
  <1>9. CASE UNCHANGED vars
    BY <1>9, <1>k DEF vars, OwnExpiry, Computed, Known
  <1>10. QED
    BY <1>1, <1>2, <1>3, <1>4, <1>5, <1>6, <1>7, <1>8, <1>9, <1>k
       DEF Next, KeepaliveStep, OwnExpiry, Computed

(* Every expiry, stored or on its way, is the idle timeout after the clock *)
(* its keepalive read, capped at the Pod's maximum lifetime.               *)
THEOREM ExpiryIsComputed == Spec => []ExpiryInv
  BY ExpiryInit, ExpiryStep, PTL DEF Spec

(* Hence the cap: an expiry computed for the Pod is never past it.         *)
LEMMA ExpiryCaps == ExpiryInv => CappedByLifetime
  <1> SUFFICES ASSUME ExpiryInv, OwnExpiry PROVE pod.expires <= pod.cap
    BY DEF CappedByLifetime
  <1>1. last.read + pod.idle \in Nat /\ pod.cap \in Nat
    BY DEF ExpiryInv, TypeOK, Pod
  <1>2. pod.expires = Earlier(last.read + pod.idle, pod.cap)
    BY DEF ExpiryInv, Computed
  <1>3. QED
    BY <1>1, <1>2, EarlierIsLeast

(* No sequence of keepalives, retried or overtaken, moves a Pod's expiry   *)
(* past its maximum lifetime.                                              *)
THEOREM LifetimeCaps == Spec => []CappedByLifetime
  BY ExpiryIsComputed, ExpiryCaps, PTL

(* A Pod that stays keeps its idle timeout and its cap.                    *)
LEMMA SamePod ==
  ASSUME ExpiryInv, [Next]_vars, pod'.uid = pod.uid, pod.uid # 0
  PROVE  pod'.idle = pod.idle /\ pod'.cap = pod.cap
  <1> USE DEF kube, afscp, locals
  <1>t. TypeOK
    BY DEF ExpiryInv
  <1>1. CASE \E r \in Req : Patch(r)
    BY <1>1, <1>t DEF Patch, TypeOK, Pod
  <1>2. CASE CreatePod \/ RemovePod
    BY <1>2 DEF CreatePod, RemovePod, NoPod
  <1>3. CASE UNCHANGED pod
    BY <1>3
  <1>4. QED
    BY <1>1, <1>2, <1>3 DEF Next, KeepaliveStep, Tick, StartKeepalive, Look, Heartbeat,
       PatchFails, Fail, vars

(* An expiry is moved back only by a keepalive that read the Pod before    *)
(* the one whose expiry it replaces.                                       *)
THEOREM OvertakenOnly == Spec => OnlyOvertakenShortens
  <1>1. ASSUME ExpiryInv, ExpiryInv', [Next]_vars
        PROVE  [OwnExpiry /\ OwnExpiry' /\ pod'.uid = pod.uid /\ pod'.expires < pod.expires
              => last'.read < last.read]_vars
    <2> SUFFICES ASSUME OwnExpiry, OwnExpiry', pod'.uid = pod.uid,
                        ~ (last'.read < last.read)
                 PROVE  ~ (pod'.expires < pod.expires)
      OBVIOUS
    <2>1. pod'.idle = pod.idle /\ pod'.cap = pod.cap
      BY <1>1, SamePod DEF OwnExpiry
    <2>2. pod.expires = Earlier(last.read + pod.idle, pod.cap)
      BY <1>1 DEF ExpiryInv, Computed
    <2>3. pod'.expires = Earlier(last'.read + pod.idle, pod.cap)
      BY <1>1, <2>1 DEF ExpiryInv, Computed
    <2>4. /\ last.read \in Nat /\ last'.read \in Nat /\ pod.idle \in Nat /\ pod.cap \in Nat
          /\ pod.expires \in Nat /\ pod'.expires \in Nat
      BY <1>1 DEF ExpiryInv, TypeOK, Pod
    <2>5. last.read <= last'.read
      BY <2>4
    <2>6. pod.expires <= pod'.expires
      BY <2>2, <2>3, <2>4, <2>5, EarlierIsMonotone
    <2>7. QED
      BY <2>4, <2>6
  <1>2. QED
    BY <1>1, ExpiryIsComputed, PTL DEF Spec, OnlyOvertakenShortens

-----------------------------------------------------------------------------
(* The lease, when no keepalive is sent again under the same request id.   *)

LEMMA LeaseInit == Init => LeaseInv
  BY ExpiryInit DEF Init, LeaseInv, Fresh, NoLocal

(* A step that only puts requests to rest keeps ids fresh.                 *)
Resting ==
  \A q \in Req : \/ pc'[q] = pc[q] /\ mem'[q] = mem[q]
                 \/ pc'[q] = "idle" /\ mem'[q] = NoLocal

LEMMA FreshAtRest ==
  LeaseInv /\ heard' = heard /\ issued' = issued /\ Resting => Fresh'
  BY DEF LeaseInv, ExpiryInv, TypeOK, Fresh, NoLocal, Resting

LEMMA LeaseStep == ~ReuseIds /\ LeaseInv /\ [Next]_vars => LeaseInv'
  <1> SUFFICES ASSUME ~ReuseIds, LeaseInv, [Next]_vars PROVE LeaseInv'
    OBVIOUS
  <1>t. TypeOK /\ ExpiryInv'
    BY ExpiryStep DEF LeaseInv, ExpiryInv
  <1>k. /\ beat \in Nat /\ now \in Nat /\ beat <= now
        /\ last.read \in Nat /\ last.read <= beat
        /\ \A q \in Req : /\ mem[q].id \in Nat /\ mem[q].read \in Nat /\ mem[q].read <= now
                          /\ pc[q] = "patch" => mem[q].read <= beat
    BY DEF LeaseInv, ExpiryInv, TypeOK, Local
  <1>q. /\ Fresh' /\ (last.read <= beat)'
        /\ \A q \in Req : pc'[q] = "patch" => mem'[q].read <= beat'
        => LeaseInv'
    BY <1>t DEF LeaseInv
  <1> USE DEF kube, afscp, locals
  <1>1. CASE Tick \/ RemovePod \/ UNCHANGED vars
    BY <1>1, <1>k, <1>q DEF Tick, RemovePod, vars, LeaseInv, Fresh
  <1>2. CASE CreatePod
    <2>1. Fresh'
      BY <1>2 DEF CreatePod, LeaseInv, Fresh
    <2>2. beat' = now /\ last'.read = now /\ UNCHANGED <<pc, mem>>
      BY <1>2 DEF CreatePod
    <2>3. QED
      BY <1>q, <1>k, <2>1, <2>2
  <1>3. ASSUME NEW r \in Req, StartKeepalive(r) PROVE LeaseInv'
    <2>1. /\ pc' = [pc EXCEPT ![r] = "look"] /\ mem' = [mem EXCEPT ![r].id = issued + 1]
          /\ issued' = issued + 1 /\ UNCHANGED <<last, beat, heard>>
      BY <1>3 DEF StartKeepalive
    <2>2. /\ pc'[r] = "look" /\ mem'[r].id = issued + 1
          /\ \A q \in Req : q # r => pc'[q] = pc[q] /\ mem'[q] = mem[q]
      BY <1>t, <2>1 DEF TypeOK, Local
    <2>3. issued \in Nat /\ \A k \in heard : k \in Nat
      BY <1>t DEF TypeOK
    <2>4. Fresh'
      <3>1. \A q \in Req : pc'[q] \in {"look", "beat"} => mem'[q].id \notin heard'
        BY <1>k, <2>1, <2>2, <2>3 DEF LeaseInv, Fresh
      <3>2. \A q, p \in Req : q # p /\ pc'[q] # "idle" /\ pc'[p] # "idle"
                             => mem'[q].id # mem'[p].id
        BY <1>k, <2>1, <2>2, <2>3 DEF LeaseInv, Fresh
      <3>3. (\A q \in Req : mem'[q].id <= issued') /\ \A k \in heard' : k <= issued'
        BY <1>k, <2>1, <2>2, <2>3 DEF LeaseInv, Fresh
      <3>4. QED
        BY <3>1, <3>2, <3>3 DEF Fresh
    <2>5. QED
      BY <1>q, <1>k, <2>1, <2>2, <2>4
  <1>4. ASSUME NEW r \in Req, Look(r) PROVE LeaseInv'
    <2>1. UNCHANGED <<last, beat, heard, issued>>
      BY <1>4 DEF Look
    <2>2. CASE Answer(r)
      <3>1. Resting
        BY <1>t, <2>2, AnswerTypes DEF Resting
      <3>2. Fresh'
        BY <2>1, <3>1, FreshAtRest
      <3>3. \A q \in Req : pc'[q] = "patch" => mem'[q].read <= beat'
        BY <1>k, <2>1, <3>1 DEF Resting
      <3>4. QED
        BY <1>q, <1>k, <2>1, <3>2, <3>3
    <2>3. CASE ~Answer(r)
      <3>1. /\ \A q \in Req : mem'[q].id = mem[q].id
            /\ pc[r] = "look" /\ pc'[r] = "beat"
            /\ \A q \in Req : q # r => pc'[q] = pc[q] /\ mem'[q] = mem[q]
        BY <1>4, <1>t, <2>3 DEF Look, Goto, TypeOK, Local
      <3>2. Fresh'
        BY <2>1, <3>1 DEF LeaseInv, Fresh
      <3>3. QED
        BY <1>q, <1>k, <2>1, <3>1, <3>2
    <2>4. QED
      BY <2>2, <2>3
  <1>5. ASSUME NEW r \in Req, Heartbeat(r) PROVE LeaseInv'
    <2>1. /\ pc[r] = "beat" /\ heard' = heard \cup {mem[r].id}
          /\ UNCHANGED <<last, issued>>
      BY <1>5 DEF Heartbeat, HearBeat
    <2>2. beat' = now
      BY <1>5, <2>1 DEF Heartbeat, HearBeat, LeaseInv, Fresh
    <2>3. /\ pc'[r] \in {"patch", "idle"} /\ mem'[r] \in {mem[r], NoLocal}
          /\ pc'[r] = "patch" => mem'[r] = mem[r]
          /\ \A q \in Req : q # r => pc'[q] = pc[q] /\ mem'[q] = mem[q]
      BY <1>5, <1>t, AnswerTypes DEF Heartbeat, Goto, TypeOK
    <2>4. Fresh'
      <3>1. \A q \in Req : pc'[q] \in {"look", "beat"} => mem'[q].id \notin heard'
        BY <2>1, <2>3 DEF LeaseInv, Fresh
      <3>2. \A q, p \in Req : q # p /\ pc'[q] # "idle" /\ pc'[p] # "idle"
                             => mem'[q].id # mem'[p].id
        BY <2>1, <2>3 DEF LeaseInv, Fresh
      <3>3. (\A q \in Req : mem'[q].id <= issued') /\ \A k \in heard' : k <= issued'
        BY <1>t, <2>1, <2>3 DEF LeaseInv, Fresh, NoLocal, TypeOK
      <3>4. QED
        BY <3>1, <3>2, <3>3 DEF Fresh
    <2>5. last'.read <= beat'
      BY <1>k, <2>1, <2>2
    <2>6. \A q \in Req : pc'[q] = "patch" => mem'[q].read <= beat'
      <3>1. ASSUME NEW q \in Req, q # r, pc'[q] = "patch" PROVE mem'[q].read <= now
        BY <1>k, <2>3, <3>1
      <3>2. pc'[r] = "patch" => mem'[r].read <= now
        BY <1>k, <2>3
      <3>3. QED
        BY <2>2, <3>1, <3>2
    <2>7. QED
      BY <1>q, <2>4, <2>5, <2>6
  <1>6. ASSUME NEW r \in Req, Patch(r) \/ PatchFails(r) \/ Fail(r) PROVE LeaseInv'
    <2>1. UNCHANGED <<beat, heard, issued>>
      BY <1>6 DEF Patch, PatchFails, Fail
    <2>2. Resting
      BY <1>6, <1>t, AnswerTypes, TryAgainTypes DEF Patch, PatchFails, Fail, Resting
    <2>3. last'.read <= beat
      <3>1. CASE Patch(r)
        BY <1>k, <3>1 DEF Patch
      <3>2. CASE PatchFails(r) \/ Fail(r)
        BY <1>k, <3>2 DEF PatchFails, Fail
      <3>3. QED
        BY <1>6, <3>1, <3>2
    <2>4. Fresh'
      BY <2>1, <2>2, FreshAtRest
    <2>5. \A q \in Req : pc'[q] = "patch" => mem'[q].read <= beat'
      BY <1>k, <2>1, <2>2 DEF Resting
    <2>6. QED
      BY <1>q, <2>1, <2>3, <2>4, <2>5
  <1>7. QED
    BY <1>1, <1>2, <1>3, <1>4, <1>5, <1>6 DEF Next, KeepaliveStep, LeaseInv

LEMMA LeaseCoversAll == LeaseInv => LeaseCoversExpiry
  <1> SUFFICES ASSUME LeaseInv, OwnExpiry PROVE pod.expires <= beat + pod.idle
    BY DEF LeaseCoversExpiry
  <1>1. /\ last.read \in Nat /\ pod.idle \in Nat /\ pod.cap \in Nat /\ beat \in Nat
        /\ last.read <= beat
    BY DEF LeaseInv, ExpiryInv, TypeOK, Pod
  <1>2. pod.expires = Earlier(last.read + pod.idle, pod.cap)
    BY DEF LeaseInv, ExpiryInv, Computed
  <1>3. last.read + pod.idle \in Nat
    BY <1>1
  <1>4. pod.expires \in Nat /\ pod.expires <= last.read + pod.idle
    BY <1>1, <1>2, <1>3, EarlierIsLeast
  <1>5. QED
    BY <1>1, <1>4

(* As long as no request id comes twice, the Pod's expiry is at most one   *)
(* idle timeout after AFSCP last heard of the mount.                       *)
THEOREM LeaseCovers == ~ReuseIds /\ Spec => []LeaseCoversExpiry
  <1>1. ~ReuseIds /\ Spec => []LeaseInv
    <2> SUFFICES ASSUME ~ReuseIds PROVE Spec => []LeaseInv
      OBVIOUS
    <2>1. LeaseInv /\ [Next]_vars => LeaseInv'
      BY LeaseStep
    <2>2. QED
      BY LeaseInit, <2>1, PTL DEF Spec
  <1>2. QED
    BY <1>1, LeaseCoversAll, PTL
=============================================================================
