------------------------------ MODULE AfscpCall -------------------------------
(***************************************************************************)
(* What a caller may rely on when it asks AFSCP for a mutation, here under *)
(* one idempotency key: AFSCP settles the operation once, an answer that   *)
(* calls it confirmed or failed is true, and "pending" is never said of an *)
(* operation that was settled before the call began.                       *)
(***************************************************************************)
CONSTANT Caller

VARIABLES
  fate,   \* what became of the operation: open, succeeded or failed
  busy,   \* callers inside a call
  late,   \* callers whose call began after the operation was settled
  out     \* what each caller's last call returned

vars == <<fate, busy, late, out>>

Init == /\ fate = "open"
        /\ busy = {} /\ late = {}
        /\ out = [c \in Caller |-> "none"]

Begin(c) == /\ c \notin busy
            /\ busy' = busy \cup {c}
            /\ late' = IF fate = "open" THEN late \ {c} ELSE late \cup {c}
            /\ out' = [out EXCEPT ![c] = "none"]
            /\ UNCHANGED fate

Settle == /\ fate = "open"
          /\ fate' \in {"succeeded", "failed"}
          /\ UNCHANGED <<busy, late, out>>

Return(c, a) == /\ c \in busy
                /\ busy' = busy \ {c}
                /\ out' = [out EXCEPT ![c] = a]
                /\ UNCHANGED <<fate, late>>

Next == \/ Settle
        \/ \E c \in Caller : \/ Begin(c)
                             \/ fate = "succeeded" /\ Return(c, "confirmed")
                             \/ fate = "failed" /\ Return(c, "failed")
                             \/ c \notin late /\ Return(c, "pending")
                             \/ Return(c, "error")

Spec == Init /\ [][Next]_vars
=============================================================================
