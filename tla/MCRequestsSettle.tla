-------------------------- MODULE MCRequestsSettle --------------------------
(***************************************************************************)
(* Finite instances, for TLC, of the modules whose requests must come to   *)
(* an end.  One of them runs, and the others stay in their first state,    *)
(* where none of the steps that fairness is stated for is enabled.         *)
(***************************************************************************)
EXTENDS PendingActions, ChatTurns, StepRunner, WorkerPools, TLC

VARIABLE part   \* which module runs

PartInit ==
  /\ part \in {"actions", "chat", "runner", "pool"}
  /\ Init
  /\ ChatInit
  /\ RunnerInit
  /\ PoolInit

PartNext ==
  \/ part = "actions" /\ Next /\ UNCHANGED <<part, chatVars, runnerVars, poolVars>>
  \/ part = "chat" /\ ChatNext /\ UNCHANGED <<part, vars, runnerVars, poolVars>>
  \/ part = "runner" /\ RunnerNext /\ UNCHANGED <<part, vars, chatVars, poolVars>>
  \/ part = "pool" /\ PoolNext /\ UNCHANGED <<part, vars, chatVars, runnerVars>>

PartSpec ==
  /\ PartInit
  /\ [][PartNext]_<<part, vars, chatVars, runnerVars, poolVars>>
  /\ \A t \in Turns : WF_vars(TurnStep(t))
  /\ \A c \in Confirms : WF_vars(ConfirmStep(c))
  /\ ChatFairness
  /\ RunnerFairness
  /\ PoolFairness

=============================================================================
