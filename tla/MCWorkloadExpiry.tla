-------------------------- MODULE MCWorkloadExpiry --------------------------
(* Instances of the workload's life time.                                  *)
EXTENDS WorkloadExpiry
=============================================================================
