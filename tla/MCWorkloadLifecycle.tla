------------------------ MODULE MCWorkloadLifecycle -------------------------
(* Instances of the workload's life cycle: two request slots of one process.*)
EXTENDS WorkloadLifecycle

CONSTANTS r1, r2, p1

OneProcess == [r \in {r1, r2} |-> p1]
=============================================================================
