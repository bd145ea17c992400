----------------------------- MODULE ExecRequest ------------------------------
(***************************************************************************)
(* POST /exec: a request runs its command in the main container of the     *)
(* workload's Pod and is answered with what Executor.Exec returned.  The   *)
(* command runs in the container whatever becomes of the request.          *)
(***************************************************************************)
EXTENDS PodExec

CONSTANT Req   \* one request each

VARIABLES
  main,    \* the main container: no Pod, "waiting", "running" or "ended"
  pc,      \* "new", "stream" while Exec waits for the stream, "answered"
  cmd,     \* the request's command: "none", "running", an exit or "killed"
  late,    \* has the request's deadline passed?
  answer   \* exit_code of a 200 answer, NotFound or none yet

vars == <<main, pc, cmd, late, answer>>

NoAnswer == -3
NotFound == -2

TypeOK ==
  /\ main \in {"none", "waiting", "running", "ended"}
  /\ pc \in [Req -> {"new", "stream", "answered"}]
  /\ cmd \in [Req -> {"none", "running", "exit0", "exit1", "killed"}]
  /\ late \in [Req -> BOOLEAN]
  /\ answer \in [Req -> {NoAnswer, NotFound, -1, 0, 1}]

Init == /\ main = "waiting"
        /\ pc = [x \in Req |-> "new"]
        /\ cmd = [x \in Req |-> "none"]
        /\ late = [x \in Req |-> FALSE]
        /\ answer = [x \in Req |-> NoAnswer]

Answer(x, a) == /\ pc' = [pc EXCEPT ![x] = "answered"]
                /\ answer' = [answer EXCEPT ![x] = a]

(* getScopedWorkloadPod: a Pod in any phase will do.                       *)
LookUpPod(x) ==
  /\ pc[x] = "new"
  /\ IF main = "none" THEN Answer(x, NotFound)
                      ELSE pc' = [pc EXCEPT ![x] = "stream"] /\ UNCHANGED answer
  /\ UNCHANGED <<main, cmd, late>>

(* StreamWithContext has returned: the command's exit, an error, or, after *)
(* the deadline, nothing.                                                  *)
ExecReturns(x) ==
  \E how \in Endings :
    /\ pc[x] = "stream"
    /\ how \in {"exit0", "exit1"} => cmd[x] = how
    /\ Possible(how, late[x])
    /\ Answer(x, ExecResponse(Exec(how, late[x])))
    /\ UNCHANGED <<main, cmd, late>>

DeadlinePasses(x) == /\ pc[x] = "stream"
                     /\ late' = [late EXCEPT ![x] = TRUE]
                     /\ UNCHANGED <<main, pc, cmd, answer>>

CommandStarts(x) == /\ pc[x] = "stream" /\ main = "running" /\ cmd[x] = "none"
                    /\ cmd' = [cmd EXCEPT ![x] = "running"]
                    /\ UNCHANGED <<main, pc, late, answer>>

CommandExits(x) == /\ cmd[x] = "running"
                   /\ \E e \in {"exit0", "exit1"} : cmd' = [cmd EXCEPT ![x] = e]
                   /\ UNCHANGED <<main, pc, late, answer>>

(* The container starts, ends or goes with its Pod, and its commands with  *)
(* it.                                                                     *)
MainMoves ==
  /\ \/ main = "waiting" /\ main' = "running"
     \/ main = "running" /\ main' = "ended"
     \/ main # "none" /\ main' = "none"
  /\ cmd' = [x \in Req |-> IF cmd[x] = "running" /\ main' # "running" THEN "killed" ELSE cmd[x]]
  /\ UNCHANGED <<pc, late, answer>>

Next == \/ \E x \in Req : \/ LookUpPod(x) \/ ExecReturns(x) \/ DeadlinePasses(x)
                          \/ CommandStarts(x) \/ CommandExits(x)
        \/ MainMoves

Spec == Init /\ [][Next]_vars

-----------------------------------------------------------------------------
(* An answer with exit_code 0 tells the caller that the command ran and    *)
(* exited with 0; a command that timed out is to be told apart by -1.      *)
ZeroMeansDone == \A x \in Req : answer[x] = 0 => cmd[x] = "exit0"
=============================================================================
