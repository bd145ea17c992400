------------------------ MODULE AfscpOperation_proofs -------------------------
(***************************************************************************)
(* Proofs about AfscpOperation, for any number of callers and any requests *)
(* lost, late or refused: what a call says of the operation is true, and   *)
(* the polling implements the one call of AfscpCall.                       *)
(***************************************************************************)
EXTENDS AfscpOperation, TLAPS

(* What an answer is taken for is an outcome, or "again".                  *)
LEMMA VerdictType == \A m \in Reply : Verdict(m) \in Outcomes \cup {"again"}
  BY DEF Verdict, ErrorVerdict, Outcomes

(* An answer about the operation in state s confirms only if it has        *)
(* succeeded, fails only if it has failed, and asks to wait only if it is  *)
(* not settled.                                                            *)
LEMMA AnswersAreTrue ==
  \A s \in OpState \ {"none"} :
    /\ Answer(s) \in Reply
    /\ Verdict(Answer(s)) = "confirmed" => s = "succeeded"
    /\ Verdict(Answer(s)) = "failed" => s = "failed"
    /\ Verdict(Answer(s)) \in {"again", "pending"} => s \notin Settled
  BY DEF Answer, Verdict, Reply, OpState, Settled

LEMMA RefusalsAreTrue ==
  \A s \in OpState : \A m \in Refusals(s) :
    /\ m \in Reply
    /\ Verdict(m) = "confirmed" => s = "succeeded"
    /\ Verdict(m) = "failed" => s = "failed"
    /\ Verdict(m) \in {"again", "pending"} => s \notin Settled
  <1> SUFFICES ASSUME NEW s \in OpState, NEW m \in Refusals(s)
               PROVE  /\ m \in Reply
                      /\ Verdict(m) = "confirmed" => s = "succeeded"
                      /\ Verdict(m) = "failed" => s = "failed"
                      /\ Verdict(m) \in {"again", "pending"} => s \notin Settled
    OBVIOUS
  <1>1. CASE m = Answer("unknown")
    BY <1>1 DEF Answer, Verdict, Reply, OpState, Settled
  <1>2. CASE m \in Reply /\ ~m.ok /\ m.state \in {s, "none"}
             /\ (m.notYet => s # "succeeded" /\ (s = "failed" => m.state = s))
    <2>1. Verdict(m) = ErrorVerdict(m)
      BY <1>2 DEF Verdict
    <2>2. m.state \in OpState /\ m.notYet \in BOOLEAN
      BY <1>2 DEF Reply, OpState
    <2>3. QED
      BY <1>2, <2>1, <2>2 DEF ErrorVerdict, OpState, Settled
  <1>3. QED
    BY <1>1, <1>2 DEF Refusals

(* Returning takes a caller to rest.                                       *)
LEMMA ReturnTypes ==
  ASSUME TypeOK, NEW c \in Caller, NEW a \in Outcomes, Return(c, a)
  PROVE  /\ pc' \in [Caller -> {"idle", "sent", "answered", "pause"}]
         /\ out' \in [Caller -> Outcomes] /\ last' \in [Caller -> BOOLEAN]
         /\ pc'[c] = "idle" /\ out'[c] = a /\ ~last'[c]
         /\ \A d \in Caller : d # c => pc'[d] = pc[d] /\ out'[d] = out[d] /\ last'[d] = last[d]
  BY DEF Return, TypeOK

-----------------------------------------------------------------------------
LEMMA TypeInit == Init => TypeOK
  BY DEF Init, TypeOK, OpState, Settled, Reply, NoReply, Outcomes

(* A handled request leaves an operation, and an answer that fits it.      *)
LEMMA Handled ==
  ASSUME TypeOK, NEW c \in Caller, Handle(c)
  PROVE  /\ op' \in OpState /\ (op # "none" => op' = op)
         /\ \E m \in Reply : /\ reply' = [reply EXCEPT ![c] = m]
                             /\ Verdict(m) = "confirmed" => op' = "succeeded"
                             /\ Verdict(m) = "failed" => op' = "failed"
                             /\ Verdict(m) \in {"again", "pending"} => op' \notin Settled
  <1>1. CASE op' \in Looked /\ reply' = [reply EXCEPT ![c] = Answer(op')]
    <2>1. op' \in OpState \ {"none"} /\ (op # "none" => op' = op)
      BY <1>1 DEF Looked, OpState, Settled, TypeOK
    <2>2. QED
      BY <1>1, <2>1, AnswersAreTrue
  <1>2. CASE op' \in Looked \cup {op} /\ \E m \in Refusals(op') : reply' = [reply EXCEPT ![c] = m]
    <2>1. op' \in OpState /\ (op # "none" => op' = op)
      BY <1>2 DEF Looked, OpState, Settled, TypeOK
    <2>2. QED
      BY <1>2, <2>1, RefusalsAreTrue
  <1>3. QED
    BY <1>1, <1>2 DEF Handle

LEMMA TypeStep == TypeOK /\ [Next]_vars => TypeOK'
  <1> SUFFICES ASSUME TypeOK, [Next]_vars PROVE TypeOK'
    OBVIOUS
  <1> USE DEF afscp, caller, Fault
  <1>1. CASE HandleStray
    BY <1>1 DEF HandleStray, Looked, TypeOK, OpState, Settled
  <1>2. CASE Settle
    BY <1>2 DEF Settle, TypeOK, OpState, Settled
  <1>3. ASSUME NEW c \in Caller, Call(c) PROVE TypeOK'
    BY <1>3 DEF Call, TypeOK, Outcomes
  <1>4. ASSUME NEW c \in Caller, Handle(c) PROVE TypeOK'
    <2>1. op' \in OpState /\ reply' \in [Caller -> Reply]
      BY <1>4, Handled DEF TypeOK
    <2>2. QED
      BY <1>4, <2>1 DEF Handle, TypeOK
  <1>5. ASSUME NEW c \in Caller, Receive(c) PROVE TypeOK'
    <2>1. CASE Verdict(reply[c]) = "again"
      BY <1>5, <2>1 DEF Receive, Return, TypeOK
    <2>2. CASE Verdict(reply[c]) # "again"
      <3>1. Verdict(reply[c]) \in Outcomes /\ Return(c, Verdict(reply[c]))
        BY <1>5, <2>2, VerdictType DEF Receive, TypeOK
      <3>2. QED
        BY <1>5, <3>1, ReturnTypes DEF Receive, TypeOK
    <2>3. QED
      BY <2>1, <2>2
  <1>6. ASSUME NEW c \in Caller, Poll(c) PROVE TypeOK'
    BY <1>6 DEF Poll, TypeOK
  <1>7. ASSUME NEW c \in Caller, Expire(c) \/ CallFails(c) PROVE TypeOK'
    <2>1. PICK a \in Outcomes : Return(c, a)
      BY <1>7 DEF Expire, CallFails, Outcomes
    <2>2. strays' \in Nat /\ faults' \in Nat /\ UNCHANGED <<op, reply, late>>
      BY <1>7 DEF Expire, CallFails, LeaveRequest, TypeOK
    <2>3. QED
      BY <2>1, <2>2, ReturnTypes DEF TypeOK
  <1>8. CASE UNCHANGED vars
    BY <1>8 DEF vars, TypeOK
  <1>9. QED
    BY <1>1, <1>2, <1>3, <1>4, <1>5, <1>6, <1>7, <1>8 DEF Next

(* Every variable keeps its type, and no call starts with another's        *)
(* pending envelope.                                                       *)
THEOREM TypeCorrect == Spec => []TypeOK
  BY TypeInit, TypeStep, PTL DEF Spec

-----------------------------------------------------------------------------
(* What AnswerInv asks about one caller.                                   *)
Truthful(c) ==
  /\ out[c] = "confirmed" => op = "succeeded"
  /\ out[c] = "failed" => op = "failed"
  /\ out[c] = "pending" => ~late[c]
  /\ last[c] => ~late[c]
  /\ late[c] => op \in Settled
  /\ pc[c] = "answered" =>
       /\ Verdict(reply[c]) = "confirmed" => op = "succeeded"
       /\ Verdict(reply[c]) = "failed" => op = "failed"
       /\ Verdict(reply[c]) \in {"again", "pending"} => ~late[c]

LEMMA InvParts == AnswerInv <=> TypeOK /\ \A c \in Caller : Truthful(c)
  BY DEF AnswerInv, Truthful, VerdictIsTrue, PendingIsCurrent

(* AFSCP settling the operation harms no caller.                           *)
LEMMA TruthSurvives ==
  ASSUME NEW d \in Caller, Truthful(d), op \in Settled => op' = op,
         out'[d] = out[d], last'[d] = last[d], late'[d] = late[d], pc'[d] = pc[d],
         reply'[d] = reply[d]
  PROVE  Truthful(d)'
  <1>1. Verdict(reply[d])' = Verdict(reply[d])
    BY DEF Verdict, ErrorVerdict
  <1>2. QED
    BY <1>1 DEF Truthful, Settled

LEMMA TruthReturned ==
  ASSUME TypeOK, NEW c \in Caller, Truthful(c), NEW a \in Outcomes, Return(c, a),
         UNCHANGED <<op, late>>,
         a = "confirmed" => op = "succeeded",
         a = "failed" => op = "failed",
         a = "pending" => ~late[c]
  PROVE  Truthful(c)'
  BY ReturnTypes DEF Truthful

LEMMA InvInit == Init => AnswerInv
  BY TypeInit DEF Init, AnswerInv, VerdictIsTrue, PendingIsCurrent

LEMMA InvStep == AnswerInv /\ [Next]_vars => AnswerInv'
  <1> SUFFICES ASSUME TypeOK, \A d \in Caller : Truthful(d), [Next]_vars
               PROVE  \A d \in Caller : Truthful(d)'
    <2>1. TypeOK' /\ (\A d \in Caller : Truthful(d)') => AnswerInv'
      BY DEF AnswerInv, Truthful, VerdictIsTrue, PendingIsCurrent
    <2>2. QED
      BY <2>1, InvParts, TypeStep
  <1> USE DEF afscp, caller, Fault
  <1>1. CASE HandleStray \/ Settle \/ UNCHANGED vars
    <2>1. (op \in Settled => op' = op) /\ UNCHANGED caller
      BY <1>1 DEF HandleStray, Settle, vars, Looked, Settled
    <2>2. QED
      BY <2>1, TruthSurvives
  <1>2. ASSUME NEW c \in Caller, Call(c) PROVE \A d \in Caller : Truthful(d)'
    <2>1. \A d \in Caller : d # c => Truthful(d)'
      BY <1>2, TruthSurvives DEF Call, TypeOK
    <2>2. Truthful(c)'
      BY <1>2 DEF Call, Truthful, TypeOK
    <2>3. QED
      BY <2>1, <2>2
  <1>3. ASSUME NEW c \in Caller, Handle(c) PROVE \A d \in Caller : Truthful(d)'
    <2>1. /\ op \in Settled => op' = op
          /\ UNCHANGED <<last, late, out>> /\ pc' = [pc EXCEPT ![c] = "answered"]
      BY <1>3, Handled DEF Handle, Settled
    <2>2. PICK m \in Reply : /\ reply' = [reply EXCEPT ![c] = m]
                             /\ Verdict(m) = "confirmed" => op' = "succeeded"
                             /\ Verdict(m) = "failed" => op' = "failed"
                             /\ Verdict(m) \in {"again", "pending"} => op' \notin Settled
      BY <1>3, Handled
    <2>3. \A d \in Caller : d # c => Truthful(d)'
      BY <2>1, <2>2, TruthSurvives DEF TypeOK
    <2>4. reply'[c] = m
      BY <2>1, <2>2 DEF TypeOK
    <2>5. Verdict(reply[c])' = Verdict(m)
      BY <2>4 DEF Verdict, ErrorVerdict
    <2>6. Truthful(c)'
      BY <2>1, <2>2, <2>5 DEF Truthful, Settled
    <2>7. QED
      BY <2>3, <2>6
  <1>4. ASSUME NEW c \in Caller, Receive(c) PROVE \A d \in Caller : Truthful(d)'
    <2>1. CASE Verdict(reply[c]) = "again"
      <3>1. /\ pc[c] = "answered" /\ pc' = [pc EXCEPT ![c] = "pause"]
            /\ last' = [last EXCEPT ![c] = TRUE]
            /\ UNCHANGED <<op, out, reply, late>>
        BY <1>4, <2>1 DEF Receive
      <3>2. \A d \in Caller : d # c => Truthful(d)'
        BY <3>1, TruthSurvives DEF TypeOK
      <3>3. Truthful(c)'
        BY <2>1, <3>1 DEF Truthful, TypeOK
      <3>4. QED
        BY <3>2, <3>3
    <2>2. CASE Verdict(reply[c]) # "again"
      <3>1. /\ Verdict(reply[c]) \in Outcomes /\ Return(c, Verdict(reply[c]))
            /\ pc[c] = "answered" /\ UNCHANGED <<op, late, reply>>
        BY <1>4, <2>2, VerdictType DEF Receive, TypeOK
      <3>2. \A d \in Caller : d # c => Truthful(d)'
        BY <3>1, ReturnTypes, TruthSurvives
      <3>3. Truthful(c)'
        BY <3>1, TruthReturned DEF Truthful
      <3>4. QED
        BY <3>2, <3>3
    <2>3. QED
      BY <2>1, <2>2
  <1>5. ASSUME NEW c \in Caller, Poll(c) PROVE \A d \in Caller : Truthful(d)'
    <2>1. \A d \in Caller : d # c => Truthful(d)'
      BY <1>5, TruthSurvives DEF Poll, TypeOK
    <2>2. Truthful(c)'
      BY <1>5 DEF Poll, Truthful, TypeOK
    <2>3. QED
      BY <2>1, <2>2
  <1>6. ASSUME NEW c \in Caller, Expire(c) \/ CallFails(c)
        PROVE  \A d \in Caller : Truthful(d)'
    <2>1. UNCHANGED <<op, reply, late>>
      BY <1>6 DEF Expire, CallFails
    <2>2. PICK a \in {"pending", "error"} : Return(c, a) /\ (a = "pending" => last[c])
      BY <1>6 DEF Expire, CallFails
    <2>3. a \in Outcomes
      BY DEF Outcomes
    <2>4. \A d \in Caller : d # c => Truthful(d)'
      BY <2>1, <2>2, <2>3, ReturnTypes, TruthSurvives
    <2>5. Truthful(c)'
      BY <2>1, <2>2, <2>3, TruthReturned DEF Truthful
    <2>6. QED
      BY <2>4, <2>5
  <1>7. QED
    BY <1>1, <1>2, <1>3, <1>4, <1>5, <1>6 DEF Next

(* The inductive invariant: answers on their way, and what callers made of *)
(* earlier ones, stay true of the operation.                               *)
THEOREM Invariance == Spec => []AnswerInv
  BY InvInit, InvStep, PTL DEF Spec

(* A call that says confirmed, or failed, is right.                        *)
THEOREM VerdictsAreTrue == Spec => []VerdictIsTrue
  <1>1. AnswerInv => VerdictIsTrue
    BY DEF AnswerInv
  <1>2. QED
    BY <1>1, Invariance, PTL

(* "Pending" is never said of an operation settled before the call began.  *)
THEOREM PendingsAreCurrent == Spec => []PendingIsCurrent
  <1>1. AnswerInv => PendingIsCurrent
    BY DEF AnswerInv
  <1>2. QED
    BY <1>1, Invariance, PTL

-----------------------------------------------------------------------------
(* What AfscpCall sees of a state.                                         *)
Fate == IF op \in Settled THEN op ELSE "open"
Busy == {c \in Caller : pc[c] # "idle"}
Late == {c \in Caller : late[c]}

(* A step that is no call's beginning or end settles the operation or is   *)
(* not seen.                                                               *)
LEMMA AfscpStep ==
  ASSUME Busy' = Busy, UNCHANGED <<late, out>>, op \in Settled => op' = op
  PROVE  [OneCall!Next]_(OneCall!vars)
  <1>1. Late' = Late
    BY DEF Late
  <1>2. CASE op \in Settled \/ op' \notin Settled
    <2>1. Fate' = Fate
      BY <1>2 DEF Fate
    <2>2. QED
      BY <1>1, <2>1 DEF OneCall!vars, Fate, Busy, Late
  <1>3. CASE op \notin Settled /\ op' \in Settled
    BY <1>1, <1>3 DEF OneCall!Next, OneCall!Settle, Settled, Fate, Busy, Late
  <1>4. QED
    BY <1>2, <1>3

(* A call ends with something true of the operation.                       *)
LEMMA EndStep ==
  ASSUME TypeOK, NEW c \in Caller, pc[c] # "idle", NEW a \in Outcomes, Return(c, a),
         UNCHANGED <<op, late>>, a # "none",
         a = "confirmed" => op = "succeeded",
         a = "failed" => op = "failed",
         a = "pending" => ~late[c]
  PROVE  [OneCall!Next]_(OneCall!vars)
  <1>1. Fate' = Fate /\ Late' = Late /\ out' = [out EXCEPT ![c] = a]
    BY DEF Fate, Late, Return
  <1>2. c \in Busy /\ Busy' = Busy \ {c}
    BY DEF Busy, Return, TypeOK
  <1>3. OneCall!Return(c, a)
    BY <1>1, <1>2 DEF OneCall!Return, Fate, Busy, Late
  <1>4. \/ Fate = "succeeded" /\ a = "confirmed"
        \/ Fate = "failed" /\ a = "failed"
        \/ c \notin Late /\ a = "pending"
        \/ a = "error"
    BY DEF Fate, Late, Settled, Outcomes
  <1>5. QED
    BY <1>3, <1>4 DEF OneCall!Next, Fate, Late

(* Every step of the polling client is a step of the one call, or unseen.  *)
LEMMA StepRefines == AnswerInv /\ [Next]_vars => [OneCall!Next]_(OneCall!vars)
  <1> SUFFICES ASSUME TypeOK, \A d \in Caller : Truthful(d), [Next]_vars
               PROVE  [OneCall!Next]_(OneCall!vars)
    BY InvParts
  <1> USE DEF afscp, caller, Fault
  <1>1. CASE HandleStray \/ Settle \/ UNCHANGED vars
    <2>1. (op \in Settled => op' = op) /\ UNCHANGED <<pc, late, out>>
      BY <1>1 DEF HandleStray, Settle, vars, Looked, Settled
    <2>2. Busy' = Busy
      BY <2>1 DEF Busy
    <2>3. QED
      BY <2>1, <2>2, AfscpStep
  <1>2. ASSUME NEW c \in Caller, Call(c) PROVE [OneCall!Next]_(OneCall!vars)
    <2>1. /\ c \notin Busy /\ Busy' = Busy \cup {c}
          /\ Late' = IF Fate = "open" THEN Late \ {c} ELSE Late \cup {c}
          /\ Fate' = Fate /\ out' = [out EXCEPT ![c] = "none"]
      BY <1>2 DEF Call, TypeOK, Busy, Late, Fate, Settled
    <2>2. OneCall!Begin(c)
      BY <2>1 DEF OneCall!Begin, Fate, Busy, Late
    <2>3. QED
      BY <2>2 DEF OneCall!Next
  <1>3. ASSUME NEW c \in Caller, Handle(c) PROVE [OneCall!Next]_(OneCall!vars)
    <2>1. (op \in Settled => op' = op) /\ UNCHANGED <<late, out>>
      BY <1>3, Handled DEF Handle, Settled
    <2>2. Busy' = Busy
      BY <1>3 DEF Handle, Busy, TypeOK
    <2>3. QED
      BY <2>1, <2>2, AfscpStep
  <1>4. ASSUME NEW c \in Caller, Receive(c) PROVE [OneCall!Next]_(OneCall!vars)
    <2>1. CASE Verdict(reply[c]) = "again"
      <3>1. UNCHANGED <<op, late, out>>
        BY <1>4, <2>1 DEF Receive
      <3>2. Busy' = Busy
        BY <1>4, <2>1 DEF Receive, Busy, TypeOK
      <3>3. QED
        BY <3>1, <3>2, AfscpStep
    <2>2. CASE Verdict(reply[c]) # "again"
      <3>1. /\ pc[c] = "answered" /\ UNCHANGED <<op, late>>
            /\ Return(c, Verdict(reply[c])) /\ Verdict(reply[c]) \in Outcomes
        BY <1>4, <2>2, VerdictType DEF Receive, TypeOK
      <3>2. Verdict(reply[c]) # "none"
        BY DEF Verdict, ErrorVerdict
      <3>3. QED
        BY <3>1, <3>2, EndStep DEF Truthful
    <2>3. QED
      BY <2>1, <2>2
  <1>5. ASSUME NEW c \in Caller, Poll(c) PROVE [OneCall!Next]_(OneCall!vars)
    <2>1. Busy' = Busy
      BY <1>5 DEF Poll, Busy, TypeOK
    <2>2. QED
      BY <1>5, <2>1, AfscpStep DEF Poll
  <1>6. ASSUME NEW c \in Caller, Expire(c) \/ CallFails(c)
        PROVE  [OneCall!Next]_(OneCall!vars)
    <2>1. PICK a \in {"pending", "error"} : Return(c, a) /\ (a = "pending" => last[c])
      BY <1>6 DEF Expire, CallFails
    <2>2. a \in Outcomes /\ UNCHANGED <<op, late>> /\ pc[c] # "idle"
      BY <1>6 DEF Expire, CallFails, Outcomes
    <2>3. QED
      BY <2>1, <2>2, EndStep DEF Truthful
  <1>7. QED
    BY <1>1, <1>2, <1>3, <1>4, <1>5, <1>6 DEF Next

(* Polling, giving up and asking again under one key implement one call    *)
(* whose answers are true.                                                 *)
THEOREM PollingIsOneCall == Spec => ImplementsAfscpCall
  <1>1. Init => OneCall!Init
    BY DEF Init, OneCall!Init, Settled
  <1>2. QED
    BY <1>1, StepRefines, Invariance, PTL DEF Spec, ImplementsAfscpCall, OneCall!Spec
=============================================================================
