----------------------------- MODULE KeyedMutex -----------------------------
(***************************************************************************)
(* What workloadDeleteLocks promises to handleDeletePod: one mutex per     *)
(* workload scope.  At most one request is inside a scope's section, and   *)
(* a request leaves only a section it is in.                               *)
(***************************************************************************)
CONSTANTS
  Thread,    \* goroutines serving DELETE requests
  Key,       \* lock keys: workspace, project and workload id joined
  NoThread   \* nobody

VARIABLE holder    \* holder[k]: the request inside the section of k

TypeOK == holder \in [Key -> Thread \cup {NoThread}]

Init == holder = [k \in Key |-> NoThread]

Enter(t, k) == /\ holder[k] = NoThread
               /\ holder' = [holder EXCEPT ![k] = t]

Leave(t, k) == /\ holder[k] = t
               /\ holder' = [holder EXCEPT ![k] = NoThread]

Next == \E t \in Thread, k \in Key : Enter(t, k) \/ Leave(t, k)

Spec == Init /\ [][Next]_holder
=============================================================================
