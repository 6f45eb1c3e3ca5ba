--------------------------- MODULE TaskLifecycle ---------------------------
(***************************************************************************)
(* What a client that polls GET /task/:id may rely on, whatever the        *)
(* tracker, its store, the runner and the pipeline do to provide it.       *)
(*                                                                         *)
(*   - an accepted task is pending, then running, then done or failed, and *)
(*     never goes back; one that never ran can only fail;                  *)
(*   - only an ended task disappears while the gateway serves;             *)
(*   - after a restart no task is pending or running, and a task is done   *)
(*     only if it had been done before: a restart invents no result.       *)
(***************************************************************************)
CONSTANT Ids

VARIABLES
  serving,      \* whether the gateway serves
  accepted,     \* the ids handed out so far
  visible,      \* what GET /task/:id answers; "absent" is 404
  recoverable   \* the ids that may come back as done

lifecycleVars == <<serving, accepted, visible, recoverable>>

Ended(id) == visible[id] \in {"done", "failed"}
NothingGained == recoverable' \subseteq recoverable

\* visible without the tasks of S.
Without(S) == [id \in Ids |-> IF id \in S THEN "absent" ELSE visible[id]]

LifecycleInit ==
  /\ serving = TRUE
  /\ accepted = {}
  /\ visible = [id \in Ids |-> "absent"]
  /\ recoverable = {}

Accept(id) ==
  /\ serving
  /\ id \notin accepted
  /\ accepted' = accepted \cup {id}
  /\ \E S \in SUBSET {i \in Ids : Ended(i)} :
       visible' = [Without(S) EXCEPT ![id] = "pending"]
  /\ UNCHANGED serving
  /\ NothingGained

Begin(id) ==
  /\ serving
  /\ visible[id] = "pending"
  /\ visible' = [visible EXCEPT ![id] = "running"]
  /\ UNCHANGED <<serving, accepted>>
  /\ NothingGained

Finish(id) ==
  /\ serving
  /\ visible[id] = "running"
  /\ visible' = [visible EXCEPT ![id] = "done"]
  /\ UNCHANGED <<serving, accepted>>
  /\ recoverable' \subseteq recoverable \cup {id}

Break(id) ==
  /\ serving
  /\ visible[id] \in {"pending", "running"}
  /\ visible' = [visible EXCEPT ![id] = "failed"]
  /\ UNCHANGED <<serving, accepted>>
  /\ NothingGained

Forget ==
  /\ \E S \in SUBSET {i \in Ids : Ended(i)} : visible' = Without(S)
  /\ UNCHANGED <<serving, accepted>>
  /\ NothingGained

Stop ==
  /\ serving
  /\ serving' = FALSE
  /\ visible' = [id \in Ids |-> "absent"]
  /\ UNCHANGED accepted
  /\ NothingGained

Resume ==
  /\ ~serving
  /\ serving' = TRUE
  /\ \E S \in SUBSET accepted, D \in SUBSET recoverable :
       visible' = [id \in Ids |-> IF id \in D THEN "done"
                                  ELSE IF id \in S THEN "failed" ELSE "absent"]
  /\ UNCHANGED accepted
  /\ NothingGained

LifecycleNext ==
  \/ \E id \in Ids : Accept(id) \/ Begin(id) \/ Finish(id) \/ Break(id)
  \/ Forget
  \/ Stop
  \/ Resume

LifecycleSpec == LifecycleInit /\ [][LifecycleNext]_lifecycleVars

=============================================================================
