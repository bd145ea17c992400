--------------------------- MODULE BindingRelease ----------------------------
(***************************************************************************)
(* What the control plane promises AFSCP about one workspace binding.  The *)
(* mount reference is written down before the storage that carries it goes *)
(* away; AFSCP is told "released" at most once, with one observed_at; and  *)
(* the release is marked done only with the observed_at AFSCP was told.    *)
(***************************************************************************)
EXTENDS Integers

VARIABLES
  present,   \* is there a volume or a claim of the binding?
  recorded,  \* observed_at in the stored release fact, 0 without one
  done,      \* does that fact say AFSCP has accepted the status?
  told       \* observed_at AFSCP accepted, 0 before it

vars == <<present, recorded, done, told>>

Init == ~present /\ recorded = 0 /\ ~done /\ told = 0

Appear == /\ present' = TRUE
          /\ UNCHANGED <<recorded, done, told>>

Vanish == /\ recorded # 0
          /\ present' = FALSE
          /\ UNCHANGED <<recorded, done, told>>

(* Requests that overlap may each record an observed_at of their own.      *)
Record == /\ recorded' \in Nat \ {0}
          /\ done' = FALSE
          /\ UNCHANGED <<present, told>>

Tell == /\ recorded # 0 /\ told = 0
        /\ told' \in Nat \ {0}
        /\ UNCHANGED <<present, recorded, done>>

Confirm == /\ told # 0
           /\ recorded' = told /\ done' = TRUE
           /\ UNCHANGED <<present, told>>

Next == Appear \/ Vanish \/ Record \/ Tell \/ Confirm

Spec == Init /\ [][Next]_vars
=============================================================================
