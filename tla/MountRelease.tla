---------------------------- MODULE MountRelease ----------------------------
(***************************************************************************)
(* What the control plane promises AFSCP about one workload's mount, for   *)
(* every Pod the workload ever had: the Pod's release is confirmed, the    *)
(* Pod goes away, and only a Pod that is both released and gone is ever    *)
(* reported "released".  At most one Pod of the workload is alive.         *)
(***************************************************************************)
EXTENDS Integers

VARIABLES
  live,       \* uid of the workload's Pod, 0 when there is none
  born,       \* uids handed out so far are 1 .. born
  released,   \* uids whose AFSCP release succeeded
  reported    \* uids whose mount was reported released after the Pod was gone

vars == <<live, born, released, reported>>

Init == live = 0 /\ born = 0 /\ released = {} /\ reported = {}

Launch == /\ live = 0
          /\ born' = born + 1
          /\ live' = born + 1
          /\ UNCHANGED <<released, reported>>

Vanish == /\ live # 0
          /\ live' = 0
          /\ UNCHANGED <<born, released, reported>>

Release == \E u \in 1..born : /\ released' = released \cup {u}
                              /\ UNCHANGED <<live, born, reported>>

Report == \E u \in released : /\ u # live
                              /\ reported' = reported \cup {u}
                              /\ UNCHANGED <<live, born, released>>

Next == Launch \/ Vanish \/ Release \/ Report

Spec == Init /\ [][Next]_vars
=============================================================================
