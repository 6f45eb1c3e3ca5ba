----------------------------- MODULE StepRunner -----------------------------
(***************************************************************************)
(* The dependency-driven task runner: internal/task/runner.go over the     *)
(* rows that manager.go and repo.go keep of one task and its steps.        *)
(*                                                                         *)
(* Run reads the steps once, and then works in rounds: every step whose    *)
(* dependencies this run has finished is executed, until none is left or   *)
(* none is ready.  A run that fails may be tried again, and nothing keeps  *)
(* two runs of a task apart.                                               *)
(***************************************************************************)
EXTENDS Naturals

CONSTANTS
  StepNames,      \* the steps of the task; their names are unique
  NoStep,
  Runs,           \* calls of Run: one value per call
  RepoMayFail     \* whether a call of the repository may return an error

ASSUME RunnerConstants ==
  /\ NoStep \notin StepNames
  /\ RepoMayFail \in BOOLEAN

VARIABLES
  dependsOn,   \* the DAG of the task; {} before CreateTask
  taskStatus,  \* tasks.status
  stepStatus,  \* task_steps.status
  run          \* run[r]: where call r is, and its local variables

runnerVars == <<dependsOn, taskStatus, stepStatus, run>>

-----------------------------------------------------------------------------
StepStatuses == {"pending", "running", "done", "failed"}

\* seen is stepsRaw, which nothing updates; done is the map of finished steps;
\* ready are the steps of this round that are still to be executed.
Run == [at : {"idle", "read", "round", "start", "execute", "failing", "completing", "ended"},
        seen : [StepNames -> StepStatuses], done : SUBSET StepNames,
        ready : SUBSET StepNames, step : StepNames \cup {NoStep}]

Created == taskStatus # "absent"

SetStep(r, f) == run' = [run EXCEPT ![r] = f]

End(r) == SetStep(r, [run[r] EXCEPT !.at = "ended", !.ready = {}])

\* CreateTask: the task and its steps in one transaction, whatever the DAG is.
CreateTask(dag) ==
  /\ ~Created
  /\ dependsOn' = dag
  /\ taskStatus' = "pending"
  /\ stepStatus' = [n \in StepNames |-> "pending"]
  /\ UNCHANGED run

\* GetTaskWithSteps.
ReadSteps(r) ==
  /\ Created
  /\ run[r].at = "idle"
  /\ \/ SetStep(r, [run[r] EXCEPT !.at = "read", !.seen = stepStatus])
     \/ RepoMayFail /\ End(r)
  /\ UNCHANGED <<dependsOn, taskStatus, stepStatus>>

\* BeginTask, without a look at the status the task has.
BeginRun(r) ==
  /\ run[r].at = "read"
  /\ \/ SetStep(r, [run[r] EXCEPT !.at = "round"]) /\ taskStatus' = "running"
     \/ RepoMayFail /\ End(r) /\ UNCHANGED taskStatus
  /\ UNCHANGED <<dependsOn, stepStatus>>

\* Variant: one finished dependency is enough.
ReadyOnAny(r) ==
  {n \in StepNames \ run[r].done :
     /\ run[r].seen[n] # "running"
     /\ dependsOn[n] # {} => dependsOn[n] \cap run[r].done # {}}

\* stepLoop: a step that was running when the steps were read is left out.
Ready(r) ==
  {n \in StepNames \ run[r].done :
     run[r].seen[n] # "running" /\ dependsOn[n] \subseteq run[r].done}

\* Variant: with nothing ready the loop goes on.
RoundForever(r) ==
  /\ run[r].at = "round"
  /\ run[r].done # StepNames
  /\ SetStep(r, [run[r] EXCEPT !.at = IF Ready(r) = {} THEN "round" ELSE "start", !.ready = Ready(r)])
  /\ UNCHANGED <<dependsOn, taskStatus, stepStatus>>

\* The next round, or the end of the loop.  With nothing ready the task fails
\* if a step was read as failed and is not done; else the loop just ends.
Round(r) ==
  /\ run[r].at = "round"
  /\ IF run[r].done = StepNames THEN SetStep(r, [run[r] EXCEPT !.at = "completing"])
     ELSE IF Ready(r) # {} THEN SetStep(r, [run[r] EXCEPT !.at = "start", !.ready = Ready(r)])
     ELSE IF \E n \in StepNames \ run[r].done : run[r].seen[n] = "failed"
          THEN SetStep(r, [run[r] EXCEPT !.at = "failing"])
     ELSE SetStep(r, [run[r] EXCEPT !.at = "completing"])
  /\ UNCHANGED <<dependsOn, taskStatus, stepStatus>>

\* executeStep: the step is marked running.
StartStep(r, n) ==
  /\ run[r].at = "start"
  /\ n \in run[r].ready
  /\ \/ /\ SetStep(r, [run[r] EXCEPT !.at = "execute", !.step = n, !.ready = @ \ {n}])
        /\ stepStatus' = [stepStatus EXCEPT ![n] = "running"]
     \/ RepoMayFail /\ End(r) /\ UNCHANGED stepStatus
  /\ UNCHANGED <<dependsOn, taskStatus>>

\* Its function returns: the step is done, and the next one follows.
StepDone(r) ==
  /\ run[r].at = "execute"
  /\ stepStatus' = [stepStatus EXCEPT ![run[r].step] = "done"]
  /\ SetStep(r, [run[r] EXCEPT !.at = IF run[r].ready = {} THEN "round" ELSE "start",
                           !.done = @ \cup {run[r].step}, !.step = NoStep])
  /\ UNCHANGED <<dependsOn, taskStatus>>

\* It returns an error, and the step is marked failed if the repository can;
\* or it has no executor, or cannot be marked done, and stays running.  In
\* each case Run returns at once, and the task keeps its status.
StepFails(r) ==
  /\ run[r].at = "execute"
  /\ \E status \in {"failed", "running"} :
       stepStatus' = [stepStatus EXCEPT ![run[r].step] = status]
  /\ End(r)
  /\ UNCHANGED <<dependsOn, taskStatus>>

\* FailTask and CompleteTask: an error of theirs is ignored.
Finish(r, at, status) ==
  /\ run[r].at = at
  /\ \/ taskStatus' = status
     \/ RepoMayFail /\ UNCHANGED taskStatus
  /\ End(r)
  /\ UNCHANGED <<dependsOn, stepStatus>>

FailTask(r) == Finish(r, "failing", "failed")

CompleteTask(r) == Finish(r, "completing", "done")

-----------------------------------------------------------------------------
RunnerInit ==
  /\ dependsOn = [n \in StepNames |-> {}]
  /\ taskStatus = "absent"
  /\ stepStatus = [n \in StepNames |-> "pending"]
  /\ run = [r \in Runs |-> [at |-> "idle", seen |-> [n \in StepNames |-> "pending"],
                            done |-> {}, ready |-> {}, step |-> NoStep]]

RunStep(r) ==
  \/ BeginRun(r)
  \/ Round(r)
  \/ \E n \in StepNames : StartStep(r, n)
  \/ StepDone(r)
  \/ StepFails(r)
  \/ FailTask(r)
  \/ CompleteTask(r)

RunnerNext ==
  \/ \E dag \in [StepNames -> SUBSET StepNames] : CreateTask(dag)
  \/ \E r \in Runs : ReadSteps(r) \/ RunStep(r)

RunnerSpec == RunnerInit /\ [][RunnerNext]_runnerVars

\* A run that has read its task goes on: the functions of its steps return.
RunnerFairness == \A r \in Runs : WF_runnerVars(RunStep(r))

-----------------------------------------------------------------------------
(* Properties.                                                             *)

RunnerTypeOK ==
  /\ dependsOn \in [StepNames -> SUBSET StepNames]
  /\ taskStatus \in StepStatuses \cup {"absent"}
  /\ stepStatus \in [StepNames -> StepStatuses]
  /\ run \in [Runs -> Run]

\* A run executes a step, once, after all it depends on, whatever steps share
\* a round ("Runner executes task step DAGs with topological ordering").
DependenciesFirst ==
  \A r \in Runs :
    /\ \A n \in run[r].ready \cup ({run[r].step} \ {NoStep}) :
         dependsOn[n] \subseteq run[r].done /\ n \notin run[r].done
    /\ run[r].step \notin run[r].ready

\* A run that completes its task has left out only steps that it read as
\* running, those that wait for them, and cycles.  (It completes the task all
\* the same: a step that lost its executor or its end in an earlier run stays
\* running and the task is done without it.)
OnlyStuckLeftOut ==
  \A r \in Runs : run[r].at = "completing" =>
    \A n \in StepNames \ run[r].done :
      run[r].seen[n] = "running" \/ \E d \in dependsOn[n] : d \notin run[r].done

RunnerInv == RunnerTypeOK /\ DependenciesFirst /\ OnlyStuckLeftOut

\* Every run ends, whatever the DAG.
RunsEnd == \A r \in Runs : run[r].at # "idle" ~> run[r].at = "ended"

=============================================================================
