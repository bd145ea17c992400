-------------------------- MODULE MCWorkloadSession ---------------------------
(* Instances of the workload's session: two request slots, in one process  *)
(* or in one process each.                                                 *)
EXTENDS WorkloadSession, TLC

CONSTANTS r1, r2, p1, p2

OneProcess == [r \in {r1, r2} |-> p1]
TwoProcesses == r1 :> p1 @@ r2 :> p2
(* Swapping the two slots together with their processes.                   *)
Symmetry == {s \in Permutations({r1, r2, p1, p2}) :
               s[r1] \in Req /\ s[p1] = ReplicaOf[s[r1]]}
=============================================================================
