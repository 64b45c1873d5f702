-------------------------------- MODULE Batch --------------------------------
(***************************************************************************)
(* What a batch of tasks promises to the playbook that executes it: every  *)
(* task is run exactly once, at most limit of them at a time, and the      *)
(* verdict, given when all of them have finished, is an error if and only  *)
(* if one of them failed, and then it is the error of a task that failed.  *)
(*                                                                         *)
(* An outcome is an integer: NoError, SkipTask (task.ERR_SKIP_TASK), or    *)
(* the number of the task whose error it is.                               *)
(***************************************************************************)
EXTENDS Integers, FiniteSets

CONSTANT N                 \* how many tasks the batch has, a natural number

VARIABLES
  limit,      \* how many tasks may run at the same time
  phase,      \* [Task -> {"todo", "busy", "done"}]
  outcome,    \* [Task -> Outcome]: what a finished task returned
  verdict     \* Pending, or what the batch returned

bvars == <<limit, phase, outcome, verdict>>

Task     == 1 .. N
NoError  == 0
SkipTask == -1
Pending  == -2
Outcome  == {NoError, SkipTask} \cup Task

Busy   == {t \in Task : phase[t] = "busy"}
Failed == {t \in Task : outcome[t] \in Task}

BatchInit ==
  /\ limit \in Nat \ {0}
  /\ phase = [t \in Task |-> "todo"]
  /\ outcome = [t \in Task |-> NoError]
  /\ verdict = Pending

Begin(t) ==
  /\ phase[t] = "todo"
  /\ Cardinality(Busy) < limit
  /\ phase' = [phase EXCEPT ![t] = "busy"]
  /\ UNCHANGED <<limit, outcome, verdict>>

\* A task can only report success, a skip, or its own error.
End(t) ==
  /\ phase[t] = "busy"
  /\ phase' = [phase EXCEPT ![t] = "done"]
  /\ \E o \in {NoError, SkipTask, t} : outcome' = [outcome EXCEPT ![t] = o]
  /\ UNCHANGED <<limit, verdict>>

Conclude ==
  /\ verdict = Pending
  /\ \A t \in Task : phase[t] = "done"
  /\ verdict' \in IF Failed = {} THEN {NoError} ELSE Failed
  /\ UNCHANGED <<limit, phase, outcome>>

BatchNext ==
  \/ \E t \in Task : Begin(t) \/ End(t)
  \/ Conclude

BatchSpec == BatchInit /\ [][BatchNext]_bvars

\* With fairness: the batch ends, whatever its tasks return.
BatchFairSpec ==
  /\ BatchSpec
  /\ WF_bvars(Conclude)
  /\ \A t \in Task : WF_bvars(Begin(t)) /\ WF_bvars(End(t))

=============================================================================
