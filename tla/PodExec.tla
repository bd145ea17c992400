------------------------------- MODULE PodExec --------------------------------
(***************************************************************************)
(* Running one command in a Pod's main container: what Executor.Exec makes *)
(* of the way the command ended, and what its two callers make of that.    *)
(***************************************************************************)
EXTENDS Integers

(* How a command came to its end, as the stream shows it: its exit status, *)
(* a stream that was refused or broke, or no end at all before the         *)
(* deadline.                                                               *)
Endings == {"exit0", "exit1", "broken", "unfinished"}

(* late: the deadline had passed when the stream returned.  A command may  *)
(* well have ended by then.                                                *)
Possible(how, late) == how = "unfinished" => late

(* Executor.Exec returns a result in all these cases.  The deadline is     *)
(* looked at first, and a late result keeps the exit code it was made with.*)
Exec(how, late) ==
  CASE late                       -> [code |-> 0, err |-> TRUE]
    [] ~late /\ how = "broken"    -> [code |-> -1, err |-> TRUE]
    [] ~late /\ how = "exit1"     -> [code |-> 1, err |-> FALSE]
    [] ~late /\ how = "exit0"     -> [code |-> 0, err |-> FALSE]

(* Mutant of FlushWorkloadMount: only the exit code is looked at.          *)
FlushWorkloadMount_CodeOnly(res) == res.code = 0

(* The flush barrier takes the mount for synced on no error and code 0.    *)
FlushWorkloadMount(res) == ~res.err /\ res.code = 0

(* handleExec answers 200 with the code of every result it gets.           *)
ExecResponse(res) == res.code
=============================================================================
