---------------------------- MODULE TaskTracker ----------------------------
(***************************************************************************)
(* The in-process task tracker of internal/task/tracker.go.                *)
(*                                                                         *)
(* The tracker keeps its tasks in a map behind a mutex and mirrors every   *)
(* change to a TrackerStore.  The mutex is released BEFORE the store is    *)
(* called (TestTrackerDoesNotHoldLockDuringPersistence), so a call is two  *)
(* steps: the change of the map, and later the SaveTask and DeleteTasks    *)
(* that carry the snapshot taken then.  Between the two, other goroutines  *)
(* change the map and call the store.                                      *)
(*                                                                         *)
(* A map of Go is a function whose domain is the set of its keys.  An      *)
(* actor is a goroutine that calls the tracker; it is inside one tracker   *)
(* call at a time.  Main is the goroutine that builds the tracker.         *)
(***************************************************************************)
EXTENDS Naturals, FiniteSets, Maps

CONSTANTS
  Ids,            \* the task ids that uuid.New may return
  Actors,         \* the goroutines that call the tracker
  Main,           \* the goroutine that runs NewTrackerWithOptions
  Steps,          \* the step names given to Create
  Outputs,        \* the values a task's output map may have
  MaxTasks,       \* Tracker.maxTasks
  RetainFor,      \* Tracker.retainFor, in clock ticks
  LockWait,       \* longest wait, in ticks, between reading the clock and the lock
  MaxClock,       \* bound of the model: the clock stops here
  StoreMayFail    \* whether SaveTask, DeleteTasks and Load may return an error

\* The output map after PatchOutput: the patch's values win.
Merge(patch, output) ==
  [k \in DOMAIN patch \cup DOMAIN output |->
     IF k \in DOMAIN patch THEN patch[k] ELSE output[k]]

\* copyOutput keeps no empty map, and a nil map reads like an empty one.
EmptyOutput == <<>>

ASSUME TrackerConstants ==
  /\ Main \in Actors
  /\ MaxTasks \in Nat \ {0}   \* normalizeTrackerOptions replaces 0 by a default
  /\ RetainFor \in Nat \ {0}
  /\ LockWait \in Nat
  /\ MaxClock \in Nat \ {0}
  /\ StoreMayFail \in BOOLEAN
  /\ EmptyOutput \in Outputs
  /\ \A patch, output \in Outputs : Merge(patch, output) \in Outputs

VARIABLES
  up,         \* whether the gateway process runs
  clock,      \* the wall clock; 0 is the zero time.Time
  used,       \* ids that uuid.New has returned: it returns no id twice
  tasks,      \* Tracker.tasks
  store,      \* the records the TrackerStore holds durably
  saving,     \* saving[a]: snapshots a has still to pass to SaveTask
  deleting,   \* deleting[a]: ids a has then to pass to DeleteTasks
  lost        \* ids whose last store call returned an error (logged, not retried)

trackerVars == <<up, clock, used, tasks, store, saving, deleting, lost>>

-----------------------------------------------------------------------------
(* Tasks.                                                                  *)

TaskStatus == {"pending", "running", "done", "failed"}
StepStatus == {"pending", "running", "done", "failed", "skipped"}

Terminal(status) == status \in {"done", "failed"}
TerminalStep(status) == status \in {"done", "failed", "skipped"}

Task == [status : TaskStatus,
         steps : [Steps -> StepStatus],
         output : Outputs,
         finishedAt : 0..MaxClock]     \* 0 stands for nil

NewTask == [status |-> "pending",
            steps |-> [s \in Steps |-> "pending"],
            output |-> EmptyOutput,
            finishedAt |-> 0]

IsTaskMap(f) == DOMAIN f \subseteq Ids /\ f \in [DOMAIN f -> Task]
NoTasks == [id \in {} |-> NewTask]

-----------------------------------------------------------------------------
(* Pruning.                                                                *)

\* Variant: a prune that takes every task that started for one that ended.
StartedIds(ts) == {id \in DOMAIN ts : ts[id].status # "pending"}

TerminalIds(ts) == {id \in DOMAIN ts : Terminal(ts[id].status)}

\* Terminal tasks at least RetainFor old at time now.
Expired(ts, now) ==
  {id \in TerminalIds(ts) : now >= ts[id].finishedAt + RetainFor}

\* The sets the capacity loop may delete: oldest terminal tasks first, until
\* the map fits or holds no terminal task.  Ids are random, so the order of
\* two tasks that finished at the same instant is arbitrary.
Evictions(ts) ==
  {E \in SUBSET TerminalIds(ts) :
     /\ \A e \in E, k \in TerminalIds(ts) \ E : ts[e].finishedAt <= ts[k].finishedAt
     /\ Cardinality(DOMAIN ts \ E) >= MaxTasks \/ E = {}
     /\ Cardinality(DOMAIN ts \ E) <= MaxTasks \/ E = TerminalIds(ts)}

\* pruneLocked: the sets of ids it may remove from ts.
Prunings(ts, now) ==
  LET expired == Expired(ts, now)
  IN  {expired \cup E : E \in Evictions(Drop(ts, expired))}

-----------------------------------------------------------------------------
(* Calls.  An actor starts a call when it is in none and the process       *)
(* serves; the map changes at once and the store calls stay pending.       *)

Idle(a) == saving[a] = NoTasks /\ deleting[a] = {}
Free(a) == up /\ Idle(Main) /\ Idle(a)

\* Create, List and Prune read the clock before they wait for the lock.
ReadTimes == {t \in 1..clock : clock - t <= LockWait}

Create(a, id) ==
  /\ Free(a)
  /\ id \notin used
  /\ used' = used \cup {id}
  /\ LET ts == Put(tasks, id, NewTask)
     IN  \E now \in ReadTimes : \E gone \in Prunings(ts, now) :
           /\ tasks' = Drop(ts, gone)
           /\ deleting' = [deleting EXCEPT ![a] = gone]
  /\ saving' = [saving EXCEPT ![a] = Put(NoTasks, id, NewTask)]
  /\ UNCHANGED <<up, clock, store, lost>>

\* update: replaces the task and hands the new value to persistTask.
Update(a, id, task) ==
  /\ Free(a)
  /\ IF id \in DOMAIN tasks
     THEN /\ tasks' = [tasks EXCEPT ![id] = task]
          /\ saving' = [saving EXCEPT ![a] = Put(NoTasks, id, task)]
     ELSE UNCHANGED <<tasks, saving>>
  /\ UNCHANGED <<up, clock, used, store, deleting, lost>>

Start(a, id) ==
  Update(a, id, [tasks[id] EXCEPT !.status = "running"])

Complete(a, id, output) ==
  Update(a, id, [tasks[id] EXCEPT !.status = "done",
                                  !.output = output,
                                  !.finishedAt = clock])

Fail(a, id) ==
  Update(a, id, [tasks[id] EXCEPT !.status = "failed", !.finishedAt = clock])

PatchOutput(a, id, patch) ==
  Update(a, id, [tasks[id] EXCEPT !.output = Merge(patch, @)])

\* updateStep with the mutations of StartStep, CompleteStep, FailStep, SkipStep.
UpdateStep(a, id, step, status) ==
  Update(a, id, [tasks[id] EXCEPT !.steps[step] = status])

\* Variant: List deletes from the store what it only leaves out of its answer.
ListKeepsInMap(a) ==
  /\ Free(a)
  /\ \E now \in ReadTimes : \E gone \in Prunings(tasks, now) :
       deleting' = [deleting EXCEPT ![a] = gone]
  /\ UNCHANGED <<up, clock, used, tasks, store, saving, lost>>

\* List (and Prune) remove what pruneLocked finds; the listing is read-only.
List(a) ==
  /\ Free(a)
  /\ \E now \in ReadTimes : \E gone \in Prunings(tasks, now) :
       /\ tasks' = Drop(tasks, gone)
       /\ deleting' = [deleting EXCEPT ![a] = gone]
  /\ UNCHANGED <<up, clock, used, store, saving, lost>>

-----------------------------------------------------------------------------
(* The store calls of an actor: its saves, then one DeleteTasks.           *)

SaveTask(a, id) ==
  /\ id \in DOMAIN saving[a]
  /\ saving' = [saving EXCEPT ![a] = Drop(@, {id})]
  /\ \/ /\ store' = Put(store, id, saving[a][id])
        /\ lost' = lost \ {id}
     \/ /\ StoreMayFail
        /\ store' = store
        /\ lost' = lost \cup {id}
  /\ UNCHANGED <<up, clock, used, tasks, deleting>>

DeleteTasks(a) ==
  /\ saving[a] = NoTasks
  /\ deleting[a] # {}
  /\ deleting' = [deleting EXCEPT ![a] = {}]
  /\ \/ /\ store' = Drop(store, deleting[a])
        /\ lost' = lost \ deleting[a]
     \/ /\ StoreMayFail
        /\ store' = store
        /\ lost' = lost \cup deleting[a]
  /\ UNCHANGED <<up, clock, used, tasks, saving>>

-----------------------------------------------------------------------------
(* The process stops at any moment: the map and the pending calls vanish.  *)
(* At the next start the tracker restores itself before it serves.         *)

Crash ==
  /\ up
  /\ up' = FALSE
  /\ tasks' = NoTasks
  /\ saving' = [a \in Actors |-> NoTasks]
  /\ deleting' = [a \in Actors |-> {}]
  /\ UNCHANGED <<clock, used, store, lost>>

\* failInterruptedTasksLocked for one task.
Interrupted(task) ==
  [task EXCEPT
     !.status = "failed",
     !.steps = [s \in Steps |-> IF TerminalStep(task.steps[s]) THEN task.steps[s]
                                                               ELSE "failed"],
     !.finishedAt = clock]

\* Variant: every task is failed by a restart, the ended ones too.
AllInterrupted == [id \in DOMAIN store |-> Interrupted(store[id])]

RestoredTasks ==
  [id \in DOMAIN store |->
     IF Terminal(store[id].status) THEN store[id] ELSE Interrupted(store[id])]

\* Variant: the tasks failed by the restart are not persisted.
RestoreUnsaved ==
  /\ ~up
  /\ up' = TRUE
  /\ \E gone \in Prunings(RestoredTasks, clock) :
       /\ tasks' = Drop(RestoredTasks, gone)
       /\ deleting' = [deleting EXCEPT ![Main] = gone]
  /\ UNCHANGED <<clock, used, store, saving, lost>>

Restore ==
  /\ ~up
  /\ up' = TRUE
  /\ \/ /\ \E gone \in Prunings(RestoredTasks, clock) :
             /\ tasks' = Drop(RestoredTasks, gone)
             /\ deleting' = [deleting EXCEPT ![Main] = gone]
        /\ saving' = [saving EXCEPT ![Main] =
                        Drop(RestoredTasks, TerminalIds(store))]
     \/ /\ StoreMayFail      \* Load failed: the gateway starts with no tasks
        /\ UNCHANGED <<tasks, saving, deleting>>
  /\ UNCHANGED <<clock, used, store, lost>>

Tick ==
  /\ clock < MaxClock
  /\ clock' = clock + 1
  /\ UNCHANGED <<up, used, tasks, store, saving, deleting, lost>>

-----------------------------------------------------------------------------
TrackerInit ==
  /\ up = TRUE
  /\ clock = 1
  /\ used = {}
  /\ tasks = NoTasks
  /\ store = NoTasks
  /\ saving = [a \in Actors |-> NoTasks]
  /\ deleting = [a \in Actors |-> {}]
  /\ lost = {}

\* A snapshot of task id waits to be saved.
Unsaved(id) == \E a \in Actors : id \in DOMAIN saving[a]

\* The obligation of the goroutines that use the tracker: while a snapshot of
\* a task waits to be saved, or once the task has ended, no call changes its
\* status or its steps.  (Such a snapshot also shares its Steps slice with the
\* map until persistTask copies it, and updateStep writes into that slice.)
\* PatchOutput, List and the creation of other tasks come at any time.
OwnerMay(id) ==
  /\ ~Unsaved(id)
  /\ id \in DOMAIN tasks => ~Terminal(tasks[id].status)

TrackerCall(a) ==
  \/ List(a)
  \/ \E id \in Ids :
       \/ Create(a, id)
       \/ \E patch \in Outputs : PatchOutput(a, id, patch)
       \/ OwnerMay(id) /\ Start(a, id)
       \/ OwnerMay(id) /\ Fail(a, id)
       \/ OwnerMay(id) /\ \E output \in Outputs : Complete(a, id, output)
       \/ OwnerMay(id) /\ \E s \in Steps, status \in StepStatus \ {"pending"} : UpdateStep(a, id, s, status)

TrackerStoreStep(a) == (\E id \in Ids : SaveTask(a, id)) \/ DeleteTasks(a)

TrackerNext ==
  \/ \E a \in Actors \ {Main} : TrackerCall(a)
  \/ \E a \in Actors : TrackerStoreStep(a)
  \/ Crash
  \/ Restore
  \/ Tick

TrackerSpec == TrackerInit /\ [][TrackerNext]_trackerVars

-----------------------------------------------------------------------------
(* Properties.                                                             *)

TrackerTypeOK ==
  /\ up \in BOOLEAN
  /\ clock \in 1..MaxClock
  /\ used \subseteq Ids
  /\ IsTaskMap(tasks)
  /\ IsTaskMap(store)
  /\ DOMAIN saving = Actors /\ \A a \in Actors : IsTaskMap(saving[a])
  /\ deleting \in [Actors -> SUBSET Ids]
  /\ lost \subseteq Ids

\* No DeleteTasks in flight names a task that is still in the map: the store
\* call runs after the lock is released, and would destroy the durable record
\* of a task that clients still see (deleteTasks, after Create, List, restore).
TrackedNotBeingDeleted ==
  \A a \in Actors : deleting[a] \cap DOMAIN tasks = {}

ForgetsOnlyEnded ==
  up' => \A id \in DOMAIN tasks \ DOMAIN tasks' : Terminal(tasks[id].status)

\* While the process runs, only a task that ended leaves the map: pruning
\* never forgets one that is pending or running (pruneLocked).
OnlyTerminalForgotten == [][ForgetsOnlyEnded]_trackerVars

\* When a call adds a task, the map it leaves fits max_tracked unless every
\* task in it is unfinished (the capacity loop of pruneLocked in Create).
CreateMakesRoom ==
  [][DOMAIN tasks' \subseteq DOMAIN tasks
     \/ Cardinality(DOMAIN tasks') <= MaxTasks
     \/ TerminalIds(tasks') = {}]_trackerVars

\* When no save of a task is pending and none failed, the task has a durable
\* record, with the status and the steps of the task in memory, whatever the
\* order in which goroutines reached the store (persistTask runs outside the
\* lock): a crash cannot silently forget a task whose creation was acknowledged.
StatusReachesStore ==
  \A id \in DOMAIN tasks :
    ~Unsaved(id) /\ id \notin lost =>
      /\ id \in DOMAIN store
      /\ store[id].status = tasks[id].status
      /\ store[id].steps = tasks[id].steps

KeepsOutcomes ==
  \A id \in DOMAIN store \cap DOMAIN store' :
    Terminal(store[id].status) => store'[id].status = store[id].status

\* A durable record that says done or failed never says anything else until it
\* is deleted, across crashes and restarts: no late or repeated SaveTask of an
\* older snapshot, and no restore, rewrites the outcome of a task.
DurableEndIsFinal == [][KeepsOutcomes]_trackerVars

-----------------------------------------------------------------------------
(* The inductive invariant behind these properties.                        *)

\* The store, the map and the calls in flight only name ids handed out, so an
\* id that Create gets is in none of them.
KnownIds ==
  /\ DOMAIN tasks \subseteq used
  /\ DOMAIN store \subseteq used
  /\ \A a \in Actors : DOMAIN saving[a] \subseteq used /\ deleting[a] \subseteq used

\* A process that stopped holds nothing.
DownIsEmpty ==
  ~up => tasks = NoTasks /\ \A a \in Actors : saving[a] = NoTasks /\ deleting[a] = {}

\* A snapshot on its way to the store says of status and steps what the map
\* says; and of the status, once ended, what the store and every other
\* snapshot on its way say.
SnapshotsAgree ==
  \A a \in Actors : \A id \in DOMAIN saving[a] :
    /\ id \in DOMAIN tasks => /\ saving[a][id].status = tasks[id].status
                              /\ saving[a][id].steps = tasks[id].steps
    /\ id \in DOMAIN store /\ Terminal(store[id].status) =>
         saving[a][id].status = store[id].status
    /\ \A b \in Actors : id \in DOMAIN saving[b] =>
         saving[b][id].status = saving[a][id].status

\* What ended on durable storage ended the same way in the map.
EndsAgree ==
  \A id \in DOMAIN tasks \cap DOMAIN store :
    Terminal(store[id].status) => tasks[id].status = store[id].status

\* The conjunction that every step of the tracker preserves.
TrackerInv ==
  /\ TrackerTypeOK
  /\ KnownIds
  /\ DownIsEmpty
  /\ TrackedNotBeingDeleted
  /\ StatusReachesStore
  /\ SnapshotsAgree
  /\ EndsAgree

=============================================================================
