---------------------------- MODULE AfscpOperation ----------------------------
(***************************************************************************)
(* confirmedMutation: how the AFSCP client turns an operation that AFSCP   *)
(* works on in its own time into one call.  The client sends the same      *)
(* request under the same idempotency key until an answer is final or the  *)
(* wait timeout is over.  The callers are all requests that use the key:   *)
(* the retries of one DELETE and DELETEs that overlap.                     *)
(*                                                                         *)
(* AFSCP keeps one operation per key.  It may settle the operation at any  *)
(* time, also for a request whose sender has long given up.                *)
(***************************************************************************)
EXTENDS Naturals

CONSTANTS
  Caller,
  MaxStrays,  \* bound: requests under way whose senders gave up
  MaxFaults   \* bound: refusals, failed calls and undecodable answers

ASSUME AfscpAssumption == MaxStrays \in Nat /\ MaxFaults \in Nat

VARIABLES
  op,      \* the operation under the key, as AFSCP has it
  strays,  \* requests AFSCP may still get from callers that gave up
  pc,      \* what each caller waits for
  reply,   \* the answer on its way to each caller
  last,    \* has the call had a pending answer?
  late,    \* history: was the operation settled when the call began?
  out,     \* what each caller's last call returned
  faults

afscp  == <<op, strays>>
caller == <<pc, reply, last, late, out>>
vars   == <<afscp, caller, faults>>

-----------------------------------------------------------------------------
(* operationSucceeded, operationFailed and operationPending sort the       *)
(* states by name; of each class one stands here.                          *)
Settled == {"succeeded", "failed"}
OpState == {"none", "pending"} \cup Settled

(* An answer: 2xx or not, the state it names, and whether the code or      *)
(* reason of an error sounds like "not yet".                               *)
Reply == [ok : BOOLEAN, state : OpState \cup {"unknown"}, notYet : BOOLEAN]
NoReply == [ok |-> FALSE, state |-> "none", notYet |-> FALSE]

Outcomes == {"none", "confirmed", "failed", "pending", "error"}

(* Every variable keeps its type, and no call starts with the last         *)
(* envelope of another.                                                    *)
TypeOK ==
  /\ op \in OpState /\ strays \in Nat
  /\ pc \in [Caller -> {"idle", "sent", "answered", "pause"}]
  /\ reply \in [Caller -> Reply]
  /\ last \in [Caller -> BOOLEAN] /\ late \in [Caller -> BOOLEAN]
  /\ out \in [Caller -> Outcomes]
  /\ faults \in Nat
  /\ \A c \in Caller : pc[c] = "idle" => ~last[c]

Init ==
  /\ op = "none" /\ strays = 0
  /\ pc = [c \in Caller |-> "idle"]
  /\ reply = [c \in Caller |-> NoReply]
  /\ last = [c \in Caller |-> FALSE] /\ late = [c \in Caller |-> FALSE]
  /\ out = [c \in Caller |-> "none"]
  /\ faults = 0

Fault == faults < MaxFaults /\ faults' = faults + 1

-----------------------------------------------------------------------------
(* AFSCP.  The first request starts the operation and may find it settled  *)
(* at once; every later one only looks at it.                              *)
Looked == IF op = "none" THEN {"pending"} \cup Settled ELSE {op}

Answer(s) == [ok |-> TRUE, state |-> s, notYet |-> FALSE]

(* Errors: with the operation's state or without, under a code that may    *)
(* sound like "not yet" as long as the operation has not succeeded and the *)
(* answer does not conceal that it has failed; and states the client does  *)
(* not know.                                                               *)
Refusals(s) ==
  {m \in Reply : /\ ~m.ok
                 /\ m.state \in {s, "none"}
                 /\ m.notYet => s # "succeeded" /\ (s = "failed" => m.state = s)}
  \cup {Answer("unknown")}

Handle(c) ==
  /\ pc[c] = "sent"
  /\ \/ /\ op' \in Looked
        /\ reply' = [reply EXCEPT ![c] = Answer(op')]
        /\ UNCHANGED faults
     \/ /\ Fault
        /\ op' \in Looked \cup {op}
        /\ \E m \in Refusals(op') : reply' = [reply EXCEPT ![c] = m]
  /\ pc' = [pc EXCEPT ![c] = "answered"]
  /\ UNCHANGED <<strays, last, late, out>>

HandleStray ==
  /\ strays > 0
  /\ strays' = strays - 1
  /\ op' \in Looked
  /\ UNCHANGED <<caller, faults>>

Settle ==
  /\ op = "pending"
  /\ op' \in Settled
  /\ UNCHANGED <<strays, caller, faults>>

-----------------------------------------------------------------------------
(* The call.                                                               *)

(* Mutant of Return: the last envelope is kept in the Client.              *)
Return_KeepsLast(c, a) ==
  /\ pc' = [pc EXCEPT ![c] = "idle"]
  /\ out' = [out EXCEPT ![c] = a]
  /\ UNCHANGED last

Return(c, a) ==
  /\ pc' = [pc EXCEPT ![c] = "idle"]
  /\ out' = [out EXCEPT ![c] = a]
  /\ last' = [last EXCEPT ![c] = FALSE]

Call(c) ==
  /\ pc[c] = "idle"
  /\ pc' = [pc EXCEPT ![c] = "sent"]
  /\ out' = [out EXCEPT ![c] = "none"]
  /\ late' = [late EXCEPT ![c] = op \in Settled]
  /\ UNCHANGED <<afscp, reply, last, faults>>

(* Mutant of ErrorVerdict: what sounds like "not yet" is looked for first.  *)
ErrorVerdict_NotYetFirst(m) ==
  CASE m.state = "pending" \/ m.notYet -> "pending"
    [] m.state = "failed" /\ ~m.notYet -> "failed"
    [] OTHER -> "error"

(* afscpErrorFromResponse: a final state is looked for first, then         *)
(* anything that sounds like "not yet".                                    *)
ErrorVerdict(m) ==
  CASE m.state = "failed" -> "failed"
    [] m.state = "pending" \/ (m.notYet /\ m.state # "failed") -> "pending"
    [] OTHER -> "error"

(* Mutant of Verdict: any 2xx confirms.                                    *)
Verdict_AnyAnswer(m) == IF m.ok THEN "confirmed" ELSE ErrorVerdict(m)

(* Mutant of Verdict: "succeeded" is taken for one more state on the way.  *)
Verdict_NeverDone(m) ==
  IF ~m.ok THEN ErrorVerdict(m)
  ELSE CASE m.state \in {"pending", "succeeded"} -> "again"
         [] m.state = "failed" -> "failed"
         [] OTHER -> "error"

(* What an answer comes to; "again" is to ask once more.                   *)
Verdict(m) ==
  IF ~m.ok THEN ErrorVerdict(m)
  ELSE CASE m.state = "succeeded" -> "confirmed"
         [] m.state = "failed" -> "failed"
         [] m.state = "pending" -> "again"
         [] OTHER -> "error"

Receive(c) ==
  /\ pc[c] = "answered"
  /\ \/ /\ Verdict(reply[c]) = "again"
        /\ pc' = [pc EXCEPT ![c] = "pause"]
        /\ last' = [last EXCEPT ![c] = TRUE]
        /\ UNCHANGED out
     \/ /\ Verdict(reply[c]) # "again"
        /\ Return(c, Verdict(reply[c]))
  /\ UNCHANGED <<afscp, reply, late, faults>>

(* The poll interval is over.                                              *)
Poll(c) ==
  /\ pc[c] = "pause"
  /\ pc' = [pc EXCEPT ![c] = "sent"]
  /\ UNCHANGED <<afscp, reply, last, late, out, faults>>

(* A request under way when its sender gives up may still arrive.          *)
LeaveRequest(c) ==
  \/ UNCHANGED strays
  \/ pc[c] = "sent" /\ strays < MaxStrays /\ strays' = strays + 1

(* Mutant of Expire: only the first request is sent with the deadline.     *)
Expire_FirstOnly(c) ==
  /\ pc[c] # "idle" /\ ~last[c]
  /\ Return(c, "error")
  /\ LeaveRequest(c)
  /\ UNCHANGED <<op, reply, late, faults>>

(* The wait timeout, or the end of the handler's own context: it cuts off  *)
(* a request or the pause, and what is said depends on the last envelope.  *)
Expire(c) ==
  /\ pc[c] # "idle"
  /\ Return(c, IF last[c] THEN "pending" ELSE "error")
  /\ LeaveRequest(c)
  /\ UNCHANGED <<op, reply, late, faults>>

(* doJSON fails by itself: no connection, the HTTP client's own timeout,   *)
(* an answer that cannot be decoded.                                       *)
CallFails(c) ==
  /\ pc[c] \in {"sent", "answered"}
  /\ Fault
  /\ Return(c, "error")
  /\ LeaveRequest(c)
  /\ UNCHANGED <<op, reply, late>>

-----------------------------------------------------------------------------
Next == \/ HandleStray \/ Settle
        \/ \E c \in Caller : \/ Call(c) \/ Handle(c) \/ Receive(c) \/ Poll(c)
                             \/ Expire(c) \/ CallFails(c)

Spec == Init /\ [][Next]_vars

(* Timers fire and the call runs on; a DELETE that was not confirmed is    *)
(* sent again; and of calls repeated for ever, some are answered in time.  *)
Fairness == \A c \in Caller : /\ WF_vars(Call(c)) /\ WF_vars(Poll(c)) /\ WF_vars(Expire(c))
                              /\ SF_vars(Handle(c)) /\ SF_vars(Receive(c))

FairSpec == Spec /\ Fairness

-----------------------------------------------------------------------------
(* A call that says confirmed, or failed, is right, whoever started the    *)
(* operation and whatever was lost on the way.                             *)
VerdictIsTrue ==
  \A c \in Caller : /\ out[c] = "confirmed" => op = "succeeded"
                    /\ out[c] = "failed" => op = "failed"

(* "Pending" is never said of an operation that was settled before the     *)
(* call began: a retry of a finished operation does not tell the client to *)
(* come back later.                                                        *)
PendingIsCurrent == \A c \in Caller : out[c] = "pending" => ~late[c]

(* Every call returns, also when AFSCP never settles the operation.        *)
CallReturns == \A c \in Caller : pc[c] # "idle" ~> pc[c] = "idle"

(* Once AFSCP has settled, whoever keeps retrying learns how.              *)
EventuallyKnown ==
  \A c \in Caller : op \in Settled /\ pc[c] # "idle" ~> out[c] \in {"confirmed", "failed"}

(* A caller sees one operation and one answer: AfscpCall.                  *)
OneCall == INSTANCE AfscpCall WITH
  fate <- IF op \in Settled THEN op ELSE "open",
  busy <- {c \in Caller : pc[c] # "idle"},
  late <- {c \in Caller : late[c]}

ImplementsAfscpCall == OneCall!Spec

(* Why: an answer on its way is still true of a settled operation, and a   *)
(* "not yet" was true after the call began.                                *)
AnswerInv ==
  /\ TypeOK
  /\ VerdictIsTrue /\ PendingIsCurrent
  /\ \A c \in Caller :
       /\ last[c] => ~late[c]
       /\ late[c] => op \in Settled
       /\ pc[c] = "answered" =>
            /\ Verdict(reply[c]) = "confirmed" => op = "succeeded"
            /\ Verdict(reply[c]) = "failed" => op = "failed"
            /\ Verdict(reply[c]) \in {"again", "pending"} => ~late[c]
=============================================================================
