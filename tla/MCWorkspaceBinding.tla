------------------------- MODULE MCWorkspaceBinding -------------------------
(* Instances of the workspace binding.                                     *)
EXTENDS WorkspaceBinding, TLC

(* Workloads and request slots are interchangeable in the safety runs.     *)
Symmetry == Permutations(Req) \cup Permutations(Workload)
=============================================================================
