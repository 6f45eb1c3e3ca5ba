-------------------------- MODULE TaskWork_proofs --------------------------
(***************************************************************************)
(* Theorems about the work on a task and what is left of it: the file      *)
(* store and the MySQL store of tasks, the runner of steps, the pools that *)
(* format texts, and speech recognition, of a stream and of a file.        *)
(***************************************************************************)
EXTENDS FileStore, TaskRepo, StepRunner, WorkerPools, AsrStream, AsrBackends,
        MapTheorems, FiniteSetTheorems, SequenceTheorems, TLAPS

-----------------------------------------------------------------------------
(* FileStore: as long as the file can be read, the file store keeps what   *)
(* it acknowledged, whatever fails to be written and whenever the process  *)
(* ends.                                                                   *)

\* A change gives the tasks of the call their value and no other task another.
LEMMA ChangeSays ==
  ASSUME NEW m, IsTaskMap(m), NEW ids \in SUBSET FileIds,
         NEW value \in Snapshots \cup {Absent}
  PROVE  /\ IsTaskMap(Change(m, ids, value))
         /\ \A id \in FileIds : Says(Change(m, ids, value), id) =
                              IF id \in ids THEN value ELSE Says(m, id)
<1>1. CASE value = Absent
  <2>1. Change(m, ids, value) = [x \in DOMAIN m \ ids |-> m[x]]
    BY <1>1 DEF Change, Drop, Restrict
  <2> QED BY <1>1, <2>1 DEF IsTaskMap, Says
<1>2. CASE value # Absent
  <2>1. Change(m, ids, value) =
          [x \in DOMAIN m \cup ids |-> IF x \in ids THEN value ELSE m[x]]
    BY <1>2 DEF Change
  <2> QED BY <1>2, <2>1 DEF IsTaskMap, Says
<1> QED BY <1>1, <1>2

\* A file that can be read loads as it is.
LEMMA LoadsFile ==
  ASSUME ~ReadMayFail, FileInv, NEW l \in Loads
  PROVE  /\ l.ok
         /\ IsTaskMap(l.tasks)
         /\ \A id \in FileIds : Says(l.tasks, id) \in allowed[id]
BY DEF Loads, FileInv, FileTypeOK, PersistsAcrossInstances, MemoryAgrees

LEMMA FileInvInit == FileInit => FileInv
BY DEF FileInit, FileInv, FileTypeOK, IsTaskMap, NoTasks, PersistsAcrossInstances, MemoryAgrees,
       SuccessCatchesUp, CallsAgree, Says

LEMMA FileInvBegin ==
  ASSUME ~ReadMayFail, FileInv, NEW ids \in SUBSET FileIds,
         NEW value \in Snapshots \cup {Absent}, Begin(ids, value)
  PROVE  FileInv'
<1>1. PICK l \in Loads :
        /\ tasks' = Change(l.tasks, ids, value)
        /\ call' = [ids |-> ids, value |-> value, at |-> "writing"]
        /\ allowed' = Doubt(ids, value)
  BY LoadsFile DEF Begin
<1>2. loaded' = TRUE /\ file' = file
  BY DEF Begin
<1>3. IsTaskMap(l.tasks) /\ \A id \in FileIds : Says(l.tasks, id) \in allowed[id]
  BY LoadsFile
<1>4. /\ IsTaskMap(tasks')
      /\ \A id \in FileIds : Says(tasks', id) = IF id \in ids THEN value ELSE Says(l.tasks, id)
  BY <1>1, <1>3, ChangeSays
<1>5. /\ allowed' \in [FileIds -> SUBSET (Snapshots \cup {Absent})]
      /\ \A id \in FileIds : /\ allowed[id] \subseteq allowed'[id]
                             /\ id \in ids => value \in allowed'[id]
  BY <1>1 DEF Doubt, FileInv, FileTypeOK
<1>6. FileTypeOK'
  BY <1>1, <1>2, <1>4, <1>5 DEF FileInv, FileTypeOK, Call
<1>7. PersistsAcrossInstances' /\ MemoryAgrees'
  BY <1>2, <1>3, <1>4, <1>5 DEF FileInv, PersistsAcrossInstances, MemoryAgrees
<1>8. SuccessCatchesUp' /\ CallsAgree'
  BY <1>1, <1>2, <1>4, <1>5 DEF SuccessCatchesUp, CallsAgree
<1> QED BY <1>6, <1>7, <1>8 DEF FileInv

LEMMA FileInvLoad == ASSUME ~ReadMayFail, FileInv, Load PROVE FileInv'
<1>1. PICK l \in Loads : tasks' = l.tasks
  BY DEF Load
<1>2. /\ call = Nobody /\ call' = Nobody /\ loaded' = TRUE
      /\ file' = file /\ allowed' = allowed
  BY DEF Load
<1>3. IsTaskMap(tasks') /\ \A id \in FileIds : Says(tasks', id) \in allowed'[id]
  BY <1>1, <1>2, LoadsFile
<1> QED BY <1>2, <1>3 DEF FileInv, FileTypeOK, PersistsAcrossInstances, MemoryAgrees,
              SuccessCatchesUp, CallsAgree

LEMMA FileInvWriteFails == ASSUME FileInv, WriteFails PROVE FileInv'
BY DEF WriteFails, FileInv, FileTypeOK, PersistsAcrossInstances, MemoryAgrees,
       SuccessCatchesUp, CallsAgree

LEMMA FileInvReplace == ASSUME FileInv, call # Nobody, Replace PROVE FileInv'
<1>1. /\ call \in Call
      /\ call' = [call EXCEPT !.at = "replaced"]
  BY DEF Replace, FileInv, FileTypeOK
<1>2. /\ call' \in Call
      /\ call'.ids = call.ids /\ call'.value = call.value
      /\ file' = tasks
      /\ UNCHANGED <<loaded, tasks, allowed>>
  BY <1>1 DEF Replace, Call
<1>3. loaded
  BY DEF FileInv, CallsAgree
<1> QED BY <1>2, <1>3 DEF FileInv, FileTypeOK, PersistsAcrossInstances, MemoryAgrees,
              SuccessCatchesUp, CallsAgree

\* The file holds the change when it is acknowledged.
LEMMA FileInvReturn == ASSUME FileInv, Return PROVE FileInv'
<1>1. /\ call \in Call /\ call' = Nobody /\ file = tasks /\ loaded
      /\ UNCHANGED <<file, loaded, tasks>>
      /\ allowed' = [id \in FileIds |-> IF id \in call.ids THEN {call.value} ELSE allowed[id]]
  BY DEF Return, FileInv, FileTypeOK, SuccessCatchesUp, CallsAgree
<1>2. \A id \in FileIds : Says(tasks, id) \in allowed'[id]
  BY <1>1 DEF FileInv, MemoryAgrees, CallsAgree, Return
<1>3. allowed' \in [FileIds -> SUBSET (Snapshots \cup {Absent})]
  BY <1>1 DEF FileInv, FileTypeOK, Call
<1> QED BY <1>1, <1>2, <1>3 DEF FileInv, FileTypeOK, PersistsAcrossInstances, MemoryAgrees,
              SuccessCatchesUp, CallsAgree

LEMMA FileInvCrash == ASSUME FileInv, FileCrash PROVE FileInv'
BY DEF FileCrash, FileInv, FileTypeOK, IsTaskMap, NoTasks, PersistsAcrossInstances, MemoryAgrees,
       SuccessCatchesUp, CallsAgree

LEMMA FileInvNext == ASSUME ~ReadMayFail, FileInv, [FileNext]_fileVars PROVE FileInv'
<1>1. CASE UNCHANGED fileVars
  BY <1>1 DEF fileVars, FileInv, FileTypeOK, IsTaskMap, PersistsAcrossInstances, MemoryAgrees,
              SuccessCatchesUp, CallsAgree, Says
<1>2. ASSUME NEW id \in FileIds, NEW snapshot \in Snapshots, SaveTask(id, snapshot)
      PROVE  FileInv'
  BY <1>2, FileInvBegin DEF SaveTask
<1>3. ASSUME NEW ids \in SUBSET FileIds, DeleteTasks(ids) PROVE FileInv'
  BY <1>3, FileInvBegin DEF DeleteTasks
<1>4. CASE Replace
  BY <1>4, FileInvReplace DEF Replace
<1> QED BY <1>1, <1>2, <1>3, <1>4, FileInvLoad, FileInvWriteFails, FileInvReturn, FileInvCrash DEF FileNext

-----------------------------------------------------------------------------
\* While the file can be read, FileInv holds for every number of tasks and
\* snapshots: what SaveTask and DeleteTasks acknowledged is what this process
\* and the next one read, and a successful call also writes what earlier calls
\* could not.
THEOREM FileKeeps ==
  ASSUME ~ReadMayFail
  PROVE  FileSpec => []FileInv
<1>1. FileInit => FileInv
  BY FileInvInit
<1>2. FileInv /\ [FileNext]_fileVars => FileInv'
  BY FileInvNext
<1> QED BY <1>1, <1>2, PTL DEF FileSpec

\* In particular nothing acknowledged is lost by a restart, which an unreadable
\* file refutes.
THEOREM FilePersists ==
  ASSUME ~ReadMayFail
  PROVE  FileSpec => []PersistsAcrossInstances
<1>1. FileInv => PersistsAcrossInstances
  BY DEF FileInv
<1> QED BY <1>1, FileKeeps, PTL

-----------------------------------------------------------------------------
(* StepRunner: the runner keeps RunnerInv, whatever the DAG of the task,   *)
(* the number of runs and the failures of the repository.                  *)

\* A run holds a step while it executes one, and otherwise none unless it has
\* ended: so a round that starts finds no step that it could offer again.
StepHeld ==
  \A r \in Runs :
    /\ run[r].at = "execute" => run[r].step # NoStep
    /\ run[r].at \notin {"execute", "ended"} => run[r].step = NoStep

\* Nothing runs before the task is there, so no run sees its DAG change.
IdleUntilCreated ==
  ~Created => \A r \in Runs : run[r].at = "idle" /\ run[r].ready = {}

RunnerIndInv == RunnerInv /\ StepHeld /\ IdleUntilCreated

\* What RunnerIndInv says of one run with the local variables f.
Sound(f) ==
  /\ f \in Run
  /\ \A n \in f.ready \cup ({f.step} \ {NoStep}) :
       dependsOn[n] \subseteq f.done /\ n \notin f.done
  /\ f.step \notin f.ready
  /\ f.at = "completing" =>
       \A n \in StepNames \ f.done :
         f.seen[n] = "running" \/ \E d \in dependsOn[n] : d \notin f.done
  /\ f.at = "execute" => f.step # NoStep
  /\ f.at \notin {"execute", "ended"} => f.step = NoStep

LEMMA EachIsSound ==
  ASSUME RunnerIndInv, NEW r \in Runs
  PROVE  Sound(run[r])
BY DEF RunnerIndInv, RunnerInv, RunnerTypeOK, DependenciesFirst, OnlyStuckLeftOut, StepHeld,
       Sound

\* A step of run r leaves the others, and with them their part of the
\* invariant, as they are.
LEMMA OneRunMoves ==
  ASSUME RunnerIndInv, Created, dependsOn' = dependsOn,
         NEW r \in Runs, NEW f, SetStep(r, f), Sound(f),
         taskStatus' \in StepStatuses,
         stepStatus' \in [StepNames -> StepStatuses]
  PROVE  RunnerIndInv'
<1>1. run \in [Runs -> Run] /\ run' = [run EXCEPT ![r] = f] /\ f \in Run
  BY DEF RunnerIndInv, RunnerInv, RunnerTypeOK, SetStep, Sound
<1>2. \A q \in Runs : run'[q] = IF q = r THEN f ELSE run[q]
  BY <1>1
<1>3. \A q \in Runs : Sound(run[q])
  BY EachIsSound
<1>4. RunnerTypeOK'
  BY <1>1 DEF RunnerIndInv, RunnerInv, RunnerTypeOK
<1>5. DependenciesFirst'
  BY <1>2, <1>3 DEF Sound, DependenciesFirst
<1>6. OnlyStuckLeftOut'
  BY <1>2, <1>3 DEF Sound, OnlyStuckLeftOut
<1>7. StepHeld'
  BY <1>2, <1>3 DEF Sound, StepHeld
<1>8. IdleUntilCreated'
  BY DEF IdleUntilCreated, Created, StepStatuses
<1> QED BY <1>4, <1>5, <1>6, <1>7, <1>8 DEF RunnerIndInv, RunnerInv

-----------------------------------------------------------------------------
(* The invariant holds at the start, and each action keeps it.             *)

LEMMA RunnerInvInit == RunnerInit => RunnerIndInv
<1> SUFFICES ASSUME RunnerInit PROVE RunnerIndInv
  OBVIOUS
<1>1. RunnerTypeOK
  BY DEF RunnerInit, RunnerTypeOK, Run, StepStatuses
<1>2. DependenciesFirst /\ OnlyStuckLeftOut /\ StepHeld /\ IdleUntilCreated
  BY DEF RunnerInit, DependenciesFirst, OnlyStuckLeftOut, StepHeld, IdleUntilCreated
<1> QED BY <1>1, <1>2 DEF RunnerIndInv, RunnerInv

LEMMA RunnerInvCreates ==
  ASSUME RunnerIndInv, NEW dag \in [StepNames -> SUBSET StepNames], CreateTask(dag)
  PROVE  RunnerIndInv'
<1>1. \A r \in Runs : run[r].at = "idle" /\ run[r].ready = {} /\ run[r].step = NoStep
  BY DEF RunnerIndInv, IdleUntilCreated, StepHeld, CreateTask
<1>2. run' = run /\ dependsOn' = dag /\ taskStatus' = "pending"
  BY DEF CreateTask
<1>3. RunnerTypeOK'
  BY DEF RunnerIndInv, RunnerInv, RunnerTypeOK, CreateTask, StepStatuses
<1>4. DependenciesFirst' /\ OnlyStuckLeftOut' /\ StepHeld'
  BY <1>1, <1>2 DEF DependenciesFirst, OnlyStuckLeftOut, StepHeld
<1>5. IdleUntilCreated'
  BY <1>2 DEF IdleUntilCreated, Created
<1> QED BY <1>3, <1>4, <1>5 DEF RunnerIndInv, RunnerInv

\* A run that has read its task runs on a task that is there.
LEMMA RunningIsCreated ==
  ASSUME RunnerIndInv, NEW r \in Runs, run[r].at # "idle"
  PROVE  Created
BY DEF RunnerIndInv, IdleUntilCreated

LEMMA StatusesTyped ==
  ASSUME RunnerIndInv
  PROVE  /\ Created => taskStatus \in StepStatuses
         /\ stepStatus \in [StepNames -> StepStatuses]
         /\ dependsOn \in [StepNames -> SUBSET StepNames]
         /\ run \in [Runs -> Run]
BY DEF RunnerIndInv, RunnerInv, RunnerTypeOK, Created

LEMMA RunnerInvEnds ==
  ASSUME RunnerIndInv, NEW r \in Runs, Created, End(r), dependsOn' = dependsOn,
         taskStatus' \in StepStatuses, stepStatus' \in [StepNames -> StepStatuses]
  PROVE  RunnerIndInv'
<1> DEFINE f == [run[r] EXCEPT !.at = "ended", !.ready = {}]
<1>1. Sound(run[r])
  BY EachIsSound
<1>2. Sound(f)
  BY <1>1 DEF Sound, Run
<1> QED BY <1>2, OneRunMoves DEF End

LEMMA RunnerInvReads ==
  ASSUME RunnerIndInv, NEW r \in Runs, ReadSteps(r)
  PROVE  RunnerIndInv'
<1> USE StatusesTyped DEF ReadSteps
<1>1. CASE End(r)
  BY <1>1, RunnerInvEnds
<1>2. CASE SetStep(r, [run[r] EXCEPT !.at = "read", !.seen = stepStatus])
  <2> DEFINE f == [run[r] EXCEPT !.at = "read", !.seen = stepStatus]
  <2>1. Sound(run[r])
    BY EachIsSound
  <2>2. Sound(f)
    BY <2>1 DEF Sound, Run
  <2> QED BY <1>2, <2>2, OneRunMoves
<1> QED BY <1>1, <1>2

LEMMA RunnerInvBegins ==
  ASSUME RunnerIndInv, NEW r \in Runs, BeginRun(r)
  PROVE  RunnerIndInv'
<1>1. Created
  BY RunningIsCreated DEF BeginRun
<1>2. CASE End(r) /\ UNCHANGED taskStatus
  BY <1>1, <1>2, RunnerInvEnds, StatusesTyped DEF BeginRun
<1>3. CASE SetStep(r, [run[r] EXCEPT !.at = "round"]) /\ taskStatus' = "running"
  <2> DEFINE f == [run[r] EXCEPT !.at = "round"]
  <2>1. Sound(f)
    BY EachIsSound DEF Sound, Run, BeginRun
  <2>2. taskStatus' \in StepStatuses
    BY <1>3 DEF StepStatuses
  <2> QED BY <1>1, <1>3, <2>1, <2>2, OneRunMoves, StatusesTyped DEF BeginRun
<1> QED BY <1>2, <1>3 DEF BeginRun

\* A round offers only steps whose dependencies are done, and comes to the end
\* of the task only when it can offer none.
LEMMA RunnerInvRounds ==
  ASSUME RunnerIndInv, NEW r \in Runs, Round(r)
  PROVE  RunnerIndInv'
<1>1. Created
  BY RunningIsCreated DEF Round
<1>2. Sound(run[r]) /\ run[r].at = "round"
  BY EachIsSound DEF Round
<1>3. \A f : SetStep(r, f) /\ Sound(f) => RunnerIndInv'
  BY <1>1, OneRunMoves, StatusesTyped DEF Round
<1>4. CASE run[r].done = StepNames
  <2>1. Sound([run[r] EXCEPT !.at = "completing"])
    BY <1>2, <1>4 DEF Sound, Run
  <2> QED BY <1>3, <1>4, <2>1 DEF Round
<1>5. CASE run[r].done # StepNames /\ Ready(r) # {}
  <2>1. Sound([run[r] EXCEPT !.at = "start", !.ready = Ready(r)])
    BY <1>2, RunnerConstants DEF Sound, Run, Ready
  <2> QED BY <1>3, <1>5, <2>1 DEF Round
<1>6. CASE run[r].done # StepNames /\ Ready(r) = {}
  <2>1. Sound([run[r] EXCEPT !.at = "failing"])
    BY <1>2 DEF Sound, Run
  <2>2. \A n \in StepNames \ run[r].done :
          run[r].seen[n] = "running" \/ \E d \in dependsOn[n] : d \notin run[r].done
    BY <1>6 DEF Ready
  <2>3. Sound([run[r] EXCEPT !.at = "completing"])
    BY <1>2, <2>2 DEF Sound, Run
  <2> QED BY <1>3, <1>6, <2>1, <2>3 DEF Round
<1> QED BY <1>4, <1>5, <1>6

LEMMA RunnerInvStarts ==
  ASSUME RunnerIndInv, NEW r \in Runs, NEW n \in StepNames, StartStep(r, n)
  PROVE  RunnerIndInv'
<1>1. Created
  BY RunningIsCreated DEF StartStep
<1>2. CASE End(r) /\ UNCHANGED stepStatus
  BY <1>1, <1>2, RunnerInvEnds, StatusesTyped DEF StartStep
<1>3. CASE /\ SetStep(r, [run[r] EXCEPT !.at = "execute", !.step = n, !.ready = @ \ {n}])
           /\ stepStatus' = [stepStatus EXCEPT ![n] = "running"]
  <2> DEFINE f == [run[r] EXCEPT !.at = "execute", !.step = n, !.ready = @ \ {n}]
  <2>1. Sound(run[r]) /\ n \in run[r].ready
    BY EachIsSound DEF StartStep
  <2>2. Sound(f)
    <3>1. f \in Run
      BY <2>1 DEF Sound, Run
    <3>2. \A m \in f.ready \cup ({f.step} \ {NoStep}) : m \in run[r].ready
      BY <2>1 DEF Sound, Run
    <3>3. f.done = run[r].done /\ f.step = n /\ f.step \notin f.ready /\ f.at = "execute"
      BY <2>1 DEF Sound, Run
    <3> HIDE DEF f
    <3> QED BY <2>1, <3>1, <3>2, <3>3, RunnerConstants DEF Sound
  <2>3. stepStatus' \in [StepNames -> StepStatuses]
    BY <1>3, StatusesTyped DEF StepStatuses
  <2> QED BY <1>1, <1>3, <2>2, <2>3, OneRunMoves, StatusesTyped DEF StartStep
<1> QED BY <1>2, <1>3 DEF StartStep

LEMMA RunnerInvDone ==
  ASSUME RunnerIndInv, NEW r \in Runs, StepDone(r)
  PROVE  RunnerIndInv'
<1> DEFINE f == [run[r] EXCEPT !.at = IF run[r].ready = {} THEN "round" ELSE "start",
                               !.done = @ \cup {run[r].step}, !.step = NoStep]
<1>1. Created
  BY RunningIsCreated DEF StepDone
<1>2. Sound(run[r]) /\ run[r].step \in StepNames
  BY EachIsSound DEF StepDone, Sound, Run
<1>3. Sound(f)
  <2>1. f \in Run
    BY <1>2 DEF Sound, Run
  <2>2. \A n \in f.ready : n \in run[r].ready /\ n # run[r].step
    BY <1>2 DEF Sound, Run
  <2>3. f.step \notin f.ready
    BY <1>2, RunnerConstants DEF Sound, Run
  <2> QED BY <1>2, <2>1, <2>2, <2>3 DEF Sound, Run
<1>4. stepStatus' \in [StepNames -> StepStatuses]
  BY StatusesTyped DEF StepDone, StepStatuses
<1> QED BY <1>1, <1>3, <1>4, OneRunMoves, StatusesTyped DEF StepDone

LEMMA RunnerInvFails ==
  ASSUME RunnerIndInv, NEW r \in Runs, StepFails(r)
  PROVE  RunnerIndInv'
<1>1. Created
  BY RunningIsCreated DEF StepFails
<1>2. stepStatus' \in [StepNames -> StepStatuses]
  BY StatusesTyped DEF StepFails, StepStatuses
<1> QED BY <1>1, <1>2, RunnerInvEnds, StatusesTyped DEF StepFails

LEMMA RunnerInvFinishes ==
  ASSUME RunnerIndInv, NEW r \in Runs, FailTask(r) \/ CompleteTask(r)
  PROVE  RunnerIndInv'
<1>1. Created
  BY RunningIsCreated DEF FailTask, CompleteTask, Finish
<1>2. taskStatus' \in StepStatuses
  BY <1>1, StatusesTyped DEF FailTask, CompleteTask, Finish, StepStatuses
<1> QED BY <1>1, <1>2, RunnerInvEnds, StatusesTyped DEF FailTask, CompleteTask, Finish

LEMMA RunnerInvNext == RunnerIndInv /\ [RunnerNext]_runnerVars => RunnerIndInv'
<1> SUFFICES ASSUME RunnerIndInv, [RunnerNext]_runnerVars PROVE RunnerIndInv'
  OBVIOUS
<1>1. CASE UNCHANGED runnerVars
  BY <1>1 DEF runnerVars, RunnerIndInv, RunnerInv, RunnerTypeOK, DependenciesFirst,
              OnlyStuckLeftOut, StepHeld, IdleUntilCreated, Created
<1>2. ASSUME NEW dag \in [StepNames -> SUBSET StepNames], CreateTask(dag) PROVE RunnerIndInv'
  BY <1>2, RunnerInvCreates
<1>3. ASSUME NEW r \in Runs, ReadSteps(r) PROVE RunnerIndInv'
  BY <1>3, RunnerInvReads
<1>4. ASSUME NEW r \in Runs, RunStep(r) PROVE RunnerIndInv'
  BY <1>4, RunnerInvBegins, RunnerInvRounds, RunnerInvStarts, RunnerInvDone, RunnerInvFails,
     RunnerInvFinishes DEF RunStep
<1> QED BY <1>1, <1>2, <1>3, <1>4 DEF RunnerNext

\* The runner executes a step once, after all it depends on, and completes a
\* task without a step only if that was left running, waits for one that was,
\* or is in a cycle.
THEOREM RunnerKeeps == RunnerSpec => []RunnerInv
<1>1. RunnerIndInv => RunnerInv
  BY DEF RunnerIndInv
<1> QED BY <1>1, RunnerInvInit, RunnerInvNext, PTL DEF RunnerSpec

-----------------------------------------------------------------------------
(* TaskRepo: Load tells of every task what was last saved of it, over any  *)
(* series of saves, deletions, failed transactions, restarts and imports.  *)

TranscriptRow == [raw : Transcripts \cup {NoText}, formatted : Transcripts \cup {NoText}]

\* The rows of task id, if it has any, are those of v.  A view without texts
\* leaves the transcript of an older one.
RowsAreOf(id, v) ==
  /\ records[id] = [status |-> v.status, output |-> v.output]
  /\ stepRows[id] = v.steps
  /\ HasText(v.output) =>
       /\ id \in DOMAIN transcripts
       /\ transcripts[id] = [raw |-> RawText(v.output), formatted |-> v.output.formatted_text]

RowsAreExpected(id) ==
  IF id \in DOMAIN records THEN \E v \in expected[id] \cap Views : RowsAreOf(id, v)
  ELSE NoRecord \in expected[id]

\* An import comes only to tasks that have no rows, as it started when MySQL
\* had none and nothing else saves while it lasts.
ImportsIntoNothing ==
  /\ toImport \cap DOMAIN records = {}
  /\ gateway # "importing" => toImport = {}

RepoIndInv ==
  /\ RepoTypeOK
  /\ \A id \in DOMAIN transcripts : transcripts[id] \in TranscriptRow
  /\ RowsHaveTask
  /\ \A id \in TaskIds : RowsAreExpected(id)
  /\ ImportsIntoNothing

\* What the rows of v say when they are put together again is v.
LEMMA RowsTell ==
  ASSUME NEW o \in Output, NEW t,
         HasText(o) => t = [raw |-> RawText(o), formatted |-> o.formatted_text]
  PROVE  Completes(Patched(o, t), o)
<1>1. CASE HasText(o)
  BY <1>1 DEF Output, Marks, HasText, RawText, Patched, Default, Completes
<1>2. CASE ~HasText(o)
  BY <1>2 DEF Output, Marks, HasText, RawText, Patched, Default, Completes
<1> QED BY <1>1, <1>2

LEMMA RepoIndInvImplies == RepoIndInv => RepoInv
<1> SUFFICES ASSUME RepoIndInv PROVE LoadTellsLastSave
  BY DEF RepoIndInv, RepoInv
<1> SUFFICES ASSUME NEW id \in TaskIds, id \in DOMAIN records
             PROVE  /\ Loaded(id) # NoRecord
                    /\ \E v \in expected[id] \ {NoRecord} :
                         /\ Loaded(id).status = v.status
                         /\ Loaded(id).steps = v.steps
                         /\ Completes(Loaded(id).output, v.output)
                         /\ HasText(v.output) =>
                              Loaded(id).output =
                                Patched(v.output, [raw |-> RawText(v.output),
                                                   formatted |-> v.output.formatted_text])
  BY DEF LoadTellsLastSave, RepoIndInv, RowsAreExpected, Loaded
<1>1. PICK v \in expected[id] \cap Views : RowsAreOf(id, v)
  BY DEF RepoIndInv, RowsAreExpected
<1>2. v.output \in Output /\ v # NoRecord
  BY RepoConstants DEF View
<1>3. Loaded(id) = [status |-> v.status, steps |-> v.steps,
                    output |-> Patched(v.output, TranscriptOf(id))]
  BY <1>1 DEF Loaded, RowsAreOf
<1>4. HasText(v.output) =>
        TranscriptOf(id) = [raw |-> RawText(v.output), formatted |-> v.output.formatted_text]
  BY <1>1 DEF RowsAreOf, TranscriptOf
<1>5. Completes(Patched(v.output, TranscriptOf(id)), v.output)
  BY <1>2, <1>4, RowsTell
<1>6. TranscriptOf(id) \in TranscriptRow
  BY DEF RepoIndInv, TranscriptOf, NoTranscript, TranscriptRow
<1>7. Patched(v.output, TranscriptOf(id)) \in Output
  BY <1>2, <1>6 DEF Output, Marks, Patched, Default, TranscriptRow
<1>8. v \in View
  BY RepoConstants
<1>9. Loaded(id) \in View
  BY <1>3, <1>7, <1>8 DEF View
<1>10. Loaded(id) # NoRecord
  BY <1>9, RepoConstants
<1> QED BY <1>1, <1>2, <1>3, <1>4, <1>5, <1>10 DEF RowsAreOf

LEMMA RepoInvInit == RepoInit => RepoIndInv
<1> SUFFICES ASSUME RepoInit PROVE RepoIndInv
  OBVIOUS
<1>1. /\ DOMAIN records = {} /\ DOMAIN stepRows = {} /\ DOMAIN transcripts = {}
      /\ DOMAIN taskFile = {} /\ toImport = {} /\ gateway = "down"
  BY DEF RepoInit
<1>2. /\ records \in [DOMAIN records -> [status : RowStatuses, output : Output]]
      /\ taskFile \in [DOMAIN taskFile -> Views]
      /\ expected \in [TaskIds -> SUBSET (Views \cup {NoRecord})]
  BY DEF RepoInit
<1>3. \A id \in TaskIds : RowsAreExpected(id)
  BY DEF RepoInit, RowsAreExpected
<1> QED BY <1>1, <1>2, <1>3 DEF RepoIndInv, RepoTypeOK, RowsHaveTask, ImportsIntoNothing

\* The part of RepoIndInv that is about the rows: all of it but the import.
RowsInv ==
  /\ DOMAIN records \subseteq TaskIds
  /\ records \in [DOMAIN records -> [status : RowStatuses, output : Output]]
  /\ DOMAIN stepRows = DOMAIN records
  /\ DOMAIN transcripts \subseteq DOMAIN records
  /\ \A id \in DOMAIN transcripts : transcripts[id] \in TranscriptRow
  /\ expected \in [TaskIds -> SUBSET (Views \cup {NoRecord})]
  /\ \A id \in TaskIds : RowsAreExpected(id)

LEMMA RowsOfInv ==
  RepoIndInv <=>
    /\ RowsInv
    /\ ImportsIntoNothing
    /\ DOMAIN taskFile \subseteq TaskIds
    /\ taskFile \in [DOMAIN taskFile -> Views]
    /\ gateway \in {"down", "importing", "mysql", "file"}
    /\ toImport \subseteq DOMAIN taskFile
BY DEF RepoIndInv, RepoTypeOK, RowsHaveTask, RowsInv

\* A transaction that commits makes the rows of id those of v, and leaves those
\* of other tasks alone.
LEMMA Commits ==
  ASSUME RowsInv, NEW id \in TaskIds, NEW v \in Views, Commit(id, v)
  PROVE  /\ DOMAIN records' = DOMAIN records \cup {id}
         /\ records' \in [DOMAIN records' -> [status : RowStatuses, output : Output]]
         /\ DOMAIN stepRows' = DOMAIN records'
         /\ DOMAIN transcripts' \subseteq DOMAIN records'
         /\ \A x \in DOMAIN transcripts' : transcripts'[x] \in TranscriptRow
         /\ RowsAreOf(id, v)'
         /\ \A x \in DOMAIN records \ {id}, u \in Views : RowsAreOf(x, u) => RowsAreOf(x, u)'
<1> DEFINE row == [status |-> v.status, output |-> v.output]
           text == [raw |-> RawText(v.output), formatted |-> v.output.formatted_text]
<1>1. v.status \in RowStatuses /\ v.output \in Output
  BY RepoConstants DEF View
<1>2. row \in [status : RowStatuses, output : Output] /\ text \in TranscriptRow
  BY <1>1 DEF TranscriptRow, RawText, Output
<1>3. /\ records' = Put(records, id, row)
      /\ stepRows' = Put(stepRows, id, v.steps)
      /\ IF HasText(v.output) THEN transcripts' = Put(transcripts, id, text)
                              ELSE transcripts' = transcripts
  BY DEF Commit, SavedSteps, SavedTranscript
<1> HIDE DEF row, text
<1>4. /\ DOMAIN records' = DOMAIN records \cup {id}
      /\ records'[id] = row
      /\ \A x \in DOMAIN records \ {id} : records'[x] = records[x]
  BY <1>3 DEF Put
<1>5. records' \in [DOMAIN records' -> [status : RowStatuses, output : Output]]
  BY <1>2, <1>3, <1>4 DEF RowsInv, Put
<1>6. /\ DOMAIN stepRows' = DOMAIN records'
      /\ stepRows'[id] = v.steps
      /\ \A x \in DOMAIN records \ {id} : stepRows'[x] = stepRows[x]
  BY <1>3, <1>4 DEF RowsInv, Put
<1>7. /\ HasText(v.output) => id \in DOMAIN transcripts' /\ transcripts'[id] = text
      /\ DOMAIN transcripts \subseteq DOMAIN transcripts'
      /\ DOMAIN transcripts' \subseteq DOMAIN transcripts \cup {id}
      /\ \A x \in DOMAIN transcripts \ {id} : transcripts'[x] = transcripts[x]
      /\ \A x \in DOMAIN transcripts' : transcripts'[x] \in TranscriptRow
  <2>1. CASE HasText(v.output)
    <3>1. transcripts' = Put(transcripts, id, text)
      BY <1>3, <2>1
    <3>2. /\ DOMAIN transcripts' = DOMAIN transcripts \cup {id}
          /\ transcripts'[id] = text
          /\ \A x \in DOMAIN transcripts \ {id} : transcripts'[x] = transcripts[x]
      BY <3>1 DEF Put
    <3> QED BY <1>2, <3>2 DEF RowsInv
  <2>2. CASE ~HasText(v.output)
    BY <1>3, <2>2 DEF RowsInv
  <2> QED BY <2>1, <2>2
<1>8. RowsAreOf(id, v)'
  BY <1>4, <1>6, <1>7 DEF RowsAreOf, row, text
<1>9. ASSUME NEW x \in DOMAIN records \ {id}, NEW u \in Views, RowsAreOf(x, u)
      PROVE  RowsAreOf(x, u)'
  BY <1>4, <1>6, <1>7, <1>9 DEF RowsAreOf
<1> QED BY <1>4, <1>5, <1>6, <1>7, <1>8, <1>9 DEF RowsInv

LEMMA SavesRows ==
  ASSUME RowsInv, NEW id \in TaskIds, NEW v \in Views, SaveRows(id, v, {v})
  PROVE  /\ RowsInv'
         /\ DOMAIN records' \subseteq DOMAIN records \cup {id}
<1>1. \A x \in TaskIds : /\ expected[x] \subseteq Views \cup {NoRecord}
                         /\ RowsAreExpected(x)
  BY DEF RowsInv
<1>2. /\ expected' \in [TaskIds -> SUBSET (Views \cup {NoRecord})]
      /\ v \in expected'[id]
      /\ \A x \in TaskIds \ {id} : expected'[x] = expected[x]
  BY DEF SaveRows, RowsInv
<1>3. CASE Commit(id, v)
  <2>1. /\ DOMAIN records' = DOMAIN records \cup {id}
        /\ records' \in [DOMAIN records' -> [status : RowStatuses, output : Output]]
        /\ DOMAIN stepRows' = DOMAIN records'
        /\ DOMAIN transcripts' \subseteq DOMAIN records'
        /\ \A x \in DOMAIN transcripts' : transcripts'[x] \in TranscriptRow
        /\ RowsAreOf(id, v)'
        /\ \A x \in DOMAIN records \ {id}, u \in Views : RowsAreOf(x, u) => RowsAreOf(x, u)'
    BY <1>3, Commits
  <2>2. RowsAreExpected(id)'
    BY <1>2, <2>1 DEF RowsAreExpected
  <2>3. ASSUME NEW x \in TaskIds \ {id} PROVE RowsAreExpected(x)'
    <3>1. CASE x \in DOMAIN records
      <4>1. PICK u \in expected[x] \cap Views : RowsAreOf(x, u)
        BY <1>1, <3>1 DEF RowsAreExpected
      <4>2. RowsAreOf(x, u)' /\ u \in expected'[x] \cap Views /\ x \in DOMAIN records'
        BY <1>2, <2>1, <3>1, <4>1
      <4> QED BY <4>2 DEF RowsAreExpected
    <3>2. CASE x \notin DOMAIN records
      BY <1>1, <1>2, <2>1, <3>2 DEF RowsAreExpected
    <3> QED BY <3>1, <3>2
  <2>4. DOMAIN records' \subseteq TaskIds
    BY <2>1 DEF RowsInv
  <2> QED BY <1>2, <2>1, <2>2, <2>3, <2>4 DEF RowsInv
<1>4. CASE ~Commit(id, v)
  <2>1. Unchanged /\ expected' = [expected EXCEPT ![id] = @ \cup {v}]
    BY <1>4 DEF SaveRows
  <2>2. \A x \in TaskIds : expected[x] \subseteq expected'[x]
    BY <2>1 DEF RowsInv
  <2>3. \A x, u : RowsAreOf(x, u)' <=> RowsAreOf(x, u)
    BY <2>1 DEF RowsAreOf, Unchanged
  <2>4. ASSUME NEW x \in TaskIds PROVE RowsAreExpected(x)'
    BY <1>1, <2>1, <2>2, <2>3 DEF RowsAreExpected, Unchanged
  <2> QED BY <1>2, <2>1, <2>4 DEF RowsInv, Unchanged
<1> QED BY <1>3, <1>4

LEMMA RepoInvSaves ==
  ASSUME RepoIndInv, NEW id \in TaskIds, NEW v \in Views, RepoSaveTask(id, v)
  PROVE  RepoIndInv'
<1>1. /\ gateway = "mysql" /\ toImport = {}
      /\ UNCHANGED <<taskFile, gateway, toImport>>
      /\ SaveRows(id, v, {v})
  BY DEF RepoSaveTask, RepoIndInv, ImportsIntoNothing
<1>2. RowsInv'
  BY <1>1, SavesRows, RowsOfInv
<1>3. ImportsIntoNothing'
  BY <1>1 DEF ImportsIntoNothing
<1> QED BY <1>1, <1>2, <1>3, RowsOfInv DEF RepoIndInv, RepoTypeOK, RowsHaveTask, RowsInv

\* What an import saves of a task is what the file says, as MySQL has no rows of
\* the task.
LEMMA RepoInvImports ==
  ASSUME RepoIndInv, NEW id \in TaskIds, ImportTask(id)
  PROVE  RepoIndInv'
<1>1. /\ id \in toImport /\ id \notin DOMAIN records
      /\ toImport' = toImport \ {id} /\ taskFile' = taskFile
      /\ gateway' = IF toImport' = {} THEN "mysql" ELSE "importing"
  BY DEF ImportTask, RepoIndInv, ImportsIntoNothing
<1>2. taskFile[id] \in Views
  BY <1>1 DEF RepoIndInv, RepoTypeOK
<1>3. SaveRows(id, taskFile[id], {taskFile[id]})
  BY <1>1 DEF ImportTask
<1>4. RowsInv' /\ DOMAIN records' \subseteq DOMAIN records \cup {id}
  BY <1>2, <1>3, SavesRows, RowsOfInv
<1>5. ImportsIntoNothing'
  BY <1>1, <1>4 DEF ImportsIntoNothing, RepoIndInv
<1>6. /\ taskFile' \in [DOMAIN taskFile' -> Views] /\ DOMAIN taskFile' \subseteq TaskIds
      /\ toImport' \subseteq DOMAIN taskFile'
      /\ gateway' \in {"down", "importing", "mysql", "file"}
  BY <1>1 DEF RepoIndInv, RepoTypeOK
<1> QED BY <1>4, <1>5, <1>6 DEF RepoIndInv, RepoTypeOK, RowsHaveTask, RowsInv

LEMMA RepoInvDeletes ==
  ASSUME RepoIndInv, NEW ids \in SUBSET TaskIds, RepoDeleteTasks(ids)
  PROVE  RepoIndInv'
<1>1. /\ gateway = "mysql" /\ toImport = {}
      /\ UNCHANGED <<taskFile, gateway, toImport>>
      /\ RowsInv
  BY RowsOfInv DEF RepoDeleteTasks, RepoIndInv, ImportsIntoNothing
<1>2. /\ expected' \in [TaskIds -> SUBSET (Views \cup {NoRecord})]
      /\ \A x \in ids : NoRecord \in expected'[x]
      /\ \A x \in TaskIds \ ids : expected'[x] = expected[x]
  BY <1>1 DEF RepoDeleteTasks, RowsInv
<1>3. CASE DropTask(ids)
  <2>1. /\ DOMAIN records' = DOMAIN records \ ids
        /\ \A x \in DOMAIN records \ ids : records'[x] = records[x]
        /\ records' = [x \in DOMAIN records \ ids |-> records[x]]
    BY <1>3 DEF DropTask, Drop, Restrict
  <2>2. /\ DOMAIN stepRows' = DOMAIN stepRows \ ids
        /\ \A x \in DOMAIN stepRows \ ids : stepRows'[x] = stepRows[x]
    BY <1>3 DEF DropTask, Drop, Restrict
  <2>3. /\ DOMAIN transcripts' = DOMAIN transcripts \ ids
        /\ \A x \in DOMAIN transcripts \ ids : transcripts'[x] = transcripts[x]
    BY <1>3 DEF DropTask, Drop, Restrict
  <2>4. records' \in [DOMAIN records' -> [status : RowStatuses, output : Output]]
    BY <1>1, <2>1 DEF RowsInv
  <2>5. ASSUME NEW x \in DOMAIN records \ ids, NEW u, RowsAreOf(x, u)
        PROVE  RowsAreOf(x, u)'
    BY <1>1, <2>1, <2>2, <2>3, <2>5 DEF RowsAreOf, RowsInv
  <2>6. ASSUME NEW x \in TaskIds PROVE RowsAreExpected(x)'
    <3>1. RowsAreExpected(x)
      BY <1>1 DEF RowsInv
    <3>2. CASE x \in DOMAIN records \ ids
      BY <1>2, <2>1, <2>5, <3>1, <3>2 DEF RowsAreExpected
    <3>3. CASE x \in ids
      BY <1>2, <2>1, <3>3 DEF RowsAreExpected
    <3>4. CASE x \notin DOMAIN records /\ x \notin ids
      BY <1>2, <2>1, <3>1, <3>4 DEF RowsAreExpected
    <3> QED BY <3>2, <3>3, <3>4
  <2>7. RowsInv'
    BY <1>1, <1>2, <2>1, <2>2, <2>3, <2>4, <2>6 DEF RowsInv
  <2> QED BY <1>1, <2>7 DEF RepoIndInv, RepoTypeOK, RowsHaveTask, RowsInv, ImportsIntoNothing
<1>4. CASE ~DropTask(ids)
  <2>1. /\ Unchanged
        /\ expected' = [x \in TaskIds |-> IF x \in ids THEN expected[x] \cup {NoRecord}
                                          ELSE expected[x]]
    BY <1>4 DEF RepoDeleteTasks
  <2>2. \A x \in TaskIds : expected[x] \subseteq expected'[x]
    BY <2>1
  <2>3. \A x, u : RowsAreOf(x, u)' <=> RowsAreOf(x, u)
    BY <2>1 DEF RowsAreOf, Unchanged
  <2>4. ASSUME NEW x \in TaskIds PROVE RowsAreExpected(x)'
    BY <1>1, <2>1, <2>2, <2>3 DEF RowsAreExpected, RowsInv, Unchanged
  <2>5. RowsInv'
    BY <1>1, <1>2, <2>1, <2>4 DEF RowsInv, Unchanged
  <2> QED BY <1>1, <2>5 DEF RepoIndInv, RepoTypeOK, RowsHaveTask, RowsInv, ImportsIntoNothing
<1> QED BY <1>3, <1>4

LEMMA RowsStay ==
  ASSUME RowsInv, UNCHANGED <<records, stepRows, transcripts, expected>>
  PROVE  RowsInv'
BY DEF RowsInv, RowsAreExpected, RowsAreOf

LEMMA RepoInvStarts ==
  ASSUME RepoIndInv, StartWithMySQL \/ StartWithFile \/ Stop
  PROVE  RepoIndInv'
<1>1. RowsInv'
  BY RowsOfInv, RowsStay DEF StartWithMySQL, StartWithFile, Stop
<1>2. /\ UNCHANGED <<records, taskFile>>
      /\ toImport' \subseteq DOMAIN taskFile'
      /\ gateway' \in {"down", "importing", "mysql", "file"}
      /\ ImportsIntoNothing'
  BY DEF StartWithMySQL, StartWithFile, Stop, Importable, ImportsIntoNothing, RepoIndInv,
         RepoTypeOK
<1> QED BY <1>1, <1>2 DEF RepoIndInv, RepoTypeOK, RowsHaveTask, RowsInv

LEMMA RepoInvFile ==
  ASSUME RepoIndInv,
         \/ \E id \in TaskIds, v \in Views : SaveToFile(id, v)
         \/ \E ids \in SUBSET TaskIds : DeleteFromFile(ids)
  PROVE  RepoIndInv'
<1>1. /\ UNCHANGED <<records, stepRows, transcripts, expected, gateway, toImport>>
      /\ gateway = "file" /\ toImport = {}
  BY DEF SaveToFile, DeleteFromFile, RepoIndInv, ImportsIntoNothing
<1>2. RowsInv'
  BY <1>1, RowsOfInv, RowsStay
<1>3. DOMAIN taskFile' \subseteq TaskIds /\ taskFile' \in [DOMAIN taskFile' -> Views]
  BY DEF SaveToFile, DeleteFromFile, RepoIndInv, RepoTypeOK, Put, Drop, Restrict
<1> QED BY <1>1, <1>2, <1>3 DEF RepoIndInv, RepoTypeOK, RowsHaveTask, RowsInv,
                                ImportsIntoNothing

LEMMA RepoInvNext == RepoIndInv /\ [RepoNext]_repoVars => RepoIndInv'
<1> SUFFICES ASSUME RepoIndInv, [RepoNext]_repoVars PROVE RepoIndInv'
  OBVIOUS
<1>1. CASE UNCHANGED repoVars
  <2>1. RowsInv'
    BY <1>1, RowsOfInv, RowsStay DEF repoVars
  <2> QED BY <1>1, <2>1 DEF repoVars, RepoIndInv, RepoTypeOK, RowsHaveTask, RowsInv,
                            ImportsIntoNothing
<1>2. ASSUME NEW id \in TaskIds, NEW v \in Views, RepoSaveTask(id, v) PROVE RepoIndInv'
  BY <1>2, RepoInvSaves
<1>3. ASSUME NEW ids \in SUBSET TaskIds, RepoDeleteTasks(ids) PROVE RepoIndInv'
  BY <1>3, RepoInvDeletes
<1>4. ASSUME NEW id \in TaskIds, ImportTask(id) PROVE RepoIndInv'
  BY <1>4, RepoInvImports
<1> QED BY <1>1, <1>2, <1>3, <1>4, RepoInvStarts, RepoInvFile DEF RepoNext

\* Whatever saves, deletions, failed transactions, restarts and imports there
\* were, no row is left without its task, and Load tells of every task what was
\* last saved of it.
THEOREM RepoTells == RepoSpec => []RepoInv
<1>1. RepoInit => RepoIndInv
  BY RepoInvInit
<1>2. RepoIndInv /\ [RepoNext]_repoVars => RepoIndInv'
  BY RepoInvNext
<1>3. RepoIndInv => RepoInv
  BY RepoIndInvImplies
<1> QED BY <1>1, <1>2, <1>3, PTL DEF RepoSpec

-----------------------------------------------------------------------------
(* WorkerPools: every job has its own place, whoever does it and when.     *)

\* What stands in the place of a job that nobody did.
Blank == IF task.fallback THEN "raw" ELSE "none"

PoolIndInv ==
  /\ PoolInv
  /\ failures \subseteq Jobs
  /\ \A w \in Workers : Works(w) => worker[w].job \in Jobs
  /\ \A j \in Jobs : results[j] # "made" => results[j] = Blank

LEMMA TaskTyped ==
  ASSUME NEW t \in Tasks
  PROVE  /\ t.size \in 1..MaxJobs /\ t.size \in Nat /\ t.size >= 1
         /\ t.for \in {"crawl", "format"} /\ t.fallback \in BOOLEAN /\ t.steps \in {1, 2}
         /\ t.for = "crawl" => t.fallback = FALSE
         /\ t.for = "format" => \A n \in 1..MaxJobs : [t EXCEPT !.steps = 1, !.size = n] \in Tasks
<1> DEFINE Crawls == [for : {"crawl"}, steps : {1}, fallback : {FALSE}, size : 1..MaxJobs]
           Formats == [for : {"format"}, steps : {1, 2}, fallback : BOOLEAN, size : 1..MaxJobs]
<1>1. MaxJobs \in Nat
  BY PoolConstants
<1>2. CASE t \in Crawls
  <2>1. /\ t.size \in 1..MaxJobs /\ t.for = "crawl" /\ t.fallback = FALSE /\ t.steps = 1
    BY <1>2
  <2>2. t.size \in Nat /\ t.size >= 1
    BY <1>1, <2>1
  <2> HIDE DEF Crawls, Formats
  <2> QED BY <2>1, <2>2
<1>3. CASE t \in Formats
  <2>1. /\ t.size \in 1..MaxJobs /\ t.for = "format" /\ t.fallback \in BOOLEAN /\ t.steps \in {1, 2}
    BY <1>3
  <2>2. \A n \in 1..MaxJobs : [t EXCEPT !.steps = 1, !.size = n] \in Formats
    BY <1>3
  <2>3. t.size \in Nat /\ t.size >= 1
    BY <1>1, <2>1
  <2>4. \A n \in 1..MaxJobs : [t EXCEPT !.steps = 1, !.size = n] \in Tasks
    BY <2>2 DEF Tasks
  <2> HIDE DEF Crawls, Formats
  <2> QED BY <2>1, <2>3, <2>4
<1> QED BY <1>2, <1>3 DEF Tasks

\* The task of a call is one of those, or none yet.
LEMMA TaskKnown ==
  ASSUME PoolTypeOK
  PROVE  /\ task.for # "none" => task \in Tasks
         /\ task.size \in Nat /\ next \in Nat /\ next >= 1
<1>1. CASE task = NoTask
  BY <1>1 DEF PoolTypeOK, NoTask
<1>2. CASE task \in Tasks
  <2>1. task.size \in Nat
    BY <1>2, TaskTyped
  <2> QED BY <1>2, <2>1 DEF PoolTypeOK
<1> QED BY <1>1, <1>2 DEF PoolTypeOK

\* A pool that starts has given no job to anybody.
LEMMA PreparedSound ==
  ASSUME NEW t \in Tasks, Prepare(t), outcome' = "none"
  PROVE  PoolIndInv'
<1>1. /\ task' = t /\ next' = 1 /\ failures' = {} /\ results' = Cleared(t)
      /\ \E team \in SUBSET Workers : worker' = [w \in Workers |-> IF w \in team THEN Waiting ELSE Off]
  BY DEF Prepare
<1>2. t.size \in Nat /\ t.size >= 1 /\ t.fallback \in BOOLEAN
  BY TaskTyped
<1>3. /\ \A w \in Workers : /\ worker'[w] \in [at : {"off", "waiting", "working", "ended"},
                                               job : 1..t.size \cup {0}]
                            /\ worker'[w].at # "working"
      /\ worker' = [w \in Workers |-> worker'[w]]
  BY <1>1 DEF Waiting, Off
<1>4. /\ results' \in [1..t.size -> JobResults]
      /\ \A j \in 1..t.size : results'[j] = IF t.fallback THEN "raw" ELSE "none"
  BY <1>1, <1>2 DEF Cleared, JobResults
<1>5. Jobs' = 1..t.size
  BY <1>1 DEF Jobs
<1>6. PoolTypeOK'
  BY <1>1, <1>2, <1>3, <1>4, <1>5 DEF PoolTypeOK
<1>7. JobsKeepTheirPlace'
  BY <1>1, <1>2, <1>3, <1>4, <1>5 DEF JobsKeepTheirPlace, Working, Works
<1>8. NothingLost'
  BY DEF NothingLost
<1> QED BY <1>1, <1>3, <1>4, <1>5, <1>6, <1>7, <1>8 DEF PoolIndInv, PoolInv, Works, Blank

LEMMA StartPoolKeeps ==
  ASSUME NEW t \in Tasks, StartPool(t)
  PROVE  PoolIndInv'
BY PreparedSound DEF StartPool

\* While a goroutine waits or works, the call has not returned.
LEMMA OutcomeOpen ==
  ASSUME PoolIndInv, NEW w \in Workers, worker[w].at \in {"waiting", "working"}
  PROVE  outcome = "none"
BY DEF PoolIndInv, PoolInv, NothingLost

LEMMA HandOverKeeps ==
  ASSUME PoolIndInv, NEW w \in Workers, HandOver(w)
  PROVE  PoolIndInv'
<1>1. /\ worker[w].at = "waiting" /\ next \in Jobs
      /\ worker' = [worker EXCEPT ![w] = [at |-> "working", job |-> next]]
      /\ next' = next + 1
      /\ UNCHANGED <<task, results, failures, outcome>>
  BY DEF HandOver, Waiting
<1>2. PoolTypeOK /\ JobsKeepTheirPlace /\ Jobs' = Jobs /\ task.size \in Nat
  BY <1>1, TaskKnown DEF PoolIndInv, PoolInv, Jobs
<1>3. \A v \in Workers : worker'[v] = IF v = w THEN [at |-> "working", job |-> next] ELSE worker[v]
  BY <1>1, <1>2 DEF PoolTypeOK
<1>4. next \in Nat /\ next <= task.size
  BY <1>1, <1>2 DEF Jobs
<1>5. PoolTypeOK'
  BY <1>1, <1>2, <1>4 DEF PoolTypeOK
<1>6. \A v \in Workers : Works(v) => worker[v].job < next
  <2> SUFFICES ASSUME NEW v \in Workers, Works(v) PROVE worker[v].job < next
    OBVIOUS
  <2>1. worker[v].job \in Jobs /\ v \in Working(worker[v].job)
    BY DEF PoolIndInv, Working
  <2> QED BY <1>2, <2>1 DEF JobsKeepTheirPlace
<1>7. \A j \in Jobs : Working(j)' = IF j = next THEN {w} ELSE Working(j)
  <2> SUFFICES ASSUME NEW j \in Jobs PROVE Working(j)' = IF j = next THEN {w} ELSE Working(j)
    OBVIOUS
  <2>1. \A v \in Workers \ {w} : worker'[v] = worker[v]
    BY <1>3
  <2>2. worker'[w].at = "working" /\ worker'[w].job = next
    BY <1>3
  <2>3. \A v \in Workers : v \in Working(j)' <=> worker'[v].at = "working" /\ worker'[v].job = j
    BY DEF Working, Works
  <2>4. \A v \in Workers : v \in Working(j) <=> worker[v].at = "working" /\ worker[v].job = j
    BY DEF Working, Works
  <2>5. Working(j) \subseteq Workers /\ Working(j)' \subseteq Workers
    BY DEF Working
  <2>6. CASE j = next
    <3>1. \A v \in Workers : v \notin Working(j)
      BY <1>4, <1>6, <2>4, <2>6 DEF Works
    <3> QED BY <1>1, <2>1, <2>2, <2>3, <2>4, <2>5, <2>6, <3>1
  <2>7. CASE j # next
    <3>1. w \notin Working(j)'
      BY <2>2, <2>3, <2>7
    <3>2. w \notin Working(j)
      BY <1>1, <2>4
    <3>3. \A v \in Workers \ {w} : v \in Working(j)' <=> v \in Working(j)
      BY <2>1, <2>3, <2>4
    <3>4. \A v \in Workers : v \in Working(j)' <=> v \in Working(j)
      BY <3>1, <3>2, <3>3
    <3>5. Working(j)' = Working(j)
      BY <2>5, <3>4
    <3> QED BY <2>7, <3>5
  <2> QED BY <2>6, <2>7
<1>8. \A j \in Jobs : j \in Nat
  BY <1>2 DEF Jobs
<1>9. JobsKeepTheirPlace'
  <2> SUFFICES ASSUME NEW j \in Jobs
               PROVE  /\ Working(j)' # {} => /\ j < next + 1 /\ j \notin failures /\ results[j] # "made"
                                             /\ \A v, u \in Working(j)' : v = u
                      /\ j >= next + 1 => j \notin failures /\ results[j] # "made"
                      /\ j < next + 1 /\ Working(j)' = {} => (j \in failures <=> results[j] # "made")
    BY <1>1, <1>2 DEF JobsKeepTheirPlace
  <2>1. CASE j = next
    <3>1. j \notin failures /\ results[j] # "made"
      BY <1>2, <1>4, <2>1 DEF JobsKeepTheirPlace
    <3> QED BY <1>4, <1>7, <2>1, <3>1
  <2>2. CASE j # next
    <3>1. Working(j)' = Working(j)
      BY <1>7, <2>2
    <3>2. j < next + 1 <=> j < next
      BY <1>4, <1>8, <2>2
    <3>3. j >= next + 1 <=> j >= next
      BY <1>4, <1>8, <2>2
    <3> QED BY <1>2, <3>1, <3>2, <3>3 DEF JobsKeepTheirPlace
  <2> QED BY <2>1, <2>2
<1>10. NothingLost'
  BY <1>1, OutcomeOpen DEF NothingLost
<1>11. \A v \in Workers : Works(v)' => worker'[v].job \in Jobs'
  BY <1>1, <1>2, <1>3 DEF PoolIndInv, Works
<1>12. failures' \subseteq Jobs' /\ \A j \in Jobs' : results'[j] # "made" => results'[j] = Blank'
  BY <1>1, <1>2 DEF PoolIndInv, Blank
<1> QED BY <1>5, <1>9, <1>10, <1>11, <1>12 DEF PoolIndInv, PoolInv

\* A goroutine returns from its job: nobody else has it.
LEMMA JobEndsKeeps ==
  ASSUME PoolIndInv, NEW w \in Workers, JobMade(w) \/ JobFails(w)
  PROVE  PoolIndInv'
<1> DEFINE k == worker[w].job
<1>1. /\ worker[w].at = "working" /\ worker' = [worker EXCEPT ![w] = Waiting]
      /\ UNCHANGED <<task, next, outcome>>
      /\ \/ results' = [results EXCEPT ![k] = "made"] /\ UNCHANGED failures
         \/ failures' = failures \cup {k} /\ UNCHANGED results
  BY DEF JobMade, JobFails, Works
<1>2. /\ PoolTypeOK /\ JobsKeepTheirPlace /\ Jobs' = Jobs /\ k \in Jobs
      /\ \A j \in Jobs : j \in Nat
      /\ next \in Nat
  BY <1>1, TaskKnown DEF PoolIndInv, PoolInv, Jobs, Works
<1>3. \A v \in Workers : worker'[v] = IF v = w THEN Waiting ELSE worker[v]
  BY <1>1, <1>2 DEF PoolTypeOK
<1>4. w \in Working(k)
  BY <1>1 DEF Working, Works
<1>5. Working(k) = {w} /\ k < next /\ k \notin failures /\ results[k] # "made"
  BY <1>2, <1>4 DEF JobsKeepTheirPlace
<1>6. \A j \in Jobs : Working(j)' = IF j = k THEN {} ELSE Working(j)
  BY <1>1, <1>3, <1>5 DEF Working, Works, Waiting
<1>7. /\ results' \in [Jobs -> JobResults]
      /\ \A j \in Jobs \ {k} : results'[j] = results[j] /\ (j \in failures' <=> j \in failures)
      /\ k \in failures' <=> results'[k] # "made"
      /\ failures' \subseteq Jobs
      /\ \A j \in Jobs : results'[j] # "made" => results'[j] = results[j]
  BY <1>1, <1>2, <1>5 DEF PoolTypeOK, JobResults, PoolIndInv
<1>8. worker' \in [Workers -> [at : {"off", "waiting", "working", "ended"}, job : Jobs \cup {0}]]
  BY <1>1, <1>2 DEF PoolTypeOK, Waiting
<1> HIDE DEF k
<1>9. PoolTypeOK'
  BY <1>1, <1>2, <1>7, <1>8 DEF PoolTypeOK
<1>10. JobsKeepTheirPlace'
  <2> SUFFICES ASSUME NEW j \in Jobs
               PROVE  /\ Working(j)' # {} => /\ j < next /\ j \notin failures' /\ results'[j] # "made"
                                             /\ \A v, u \in Working(j)' : v = u
                      /\ j >= next => j \notin failures' /\ results'[j] # "made"
                      /\ j < next /\ Working(j)' = {} => (j \in failures' <=> results'[j] # "made")
    BY <1>1, <1>2 DEF JobsKeepTheirPlace
  <2>1. CASE j = k
    BY <1>2, <1>5, <1>6, <1>7, <2>1
  <2>2. CASE j # k
    BY <1>2, <1>6, <1>7, <2>2 DEF JobsKeepTheirPlace
  <2> QED BY <2>1, <2>2
<1>11. NothingLost'
  BY <1>1, OutcomeOpen DEF NothingLost
<1>12. \A v \in Workers : Works(v)' => worker'[v].job \in Jobs'
  BY <1>2, <1>3 DEF PoolIndInv, Works, Waiting
<1>13. \A j \in Jobs' : results'[j] # "made" => results'[j] = Blank'
  BY <1>1, <1>2, <1>7 DEF PoolIndInv, Blank
<1>14. failures' \subseteq Jobs'
  BY <1>2, <1>7
<1> QED BY <1>9, <1>10, <1>11, <1>12, <1>13, <1>14 DEF PoolIndInv, PoolInv

LEMMA WorkerEndsKeeps ==
  ASSUME PoolIndInv, NEW w \in Workers, WorkerEnds(w)
  PROVE  PoolIndInv'
<1>1. /\ worker[w].at = "waiting"
      /\ worker' = [worker EXCEPT ![w].at = "ended"]
      /\ UNCHANGED <<task, next, results, failures, outcome>>
  BY DEF WorkerEnds, Waiting
<1>2. PoolTypeOK /\ JobsKeepTheirPlace /\ Jobs' = Jobs
  BY <1>1 DEF PoolIndInv, PoolInv, Jobs
<1>3. /\ \A v \in Workers \ {w} : worker'[v] = worker[v]
      /\ worker'[w].at = "ended"
      /\ worker' \in [Workers -> [at : {"off", "waiting", "working", "ended"}, job : Jobs \cup {0}]]
  BY <1>1, <1>2 DEF PoolTypeOK
<1>4. \A j : Working(j)' = Working(j)
  BY <1>1, <1>3 DEF Working, Works
<1>5. PoolTypeOK' /\ JobsKeepTheirPlace'
  BY <1>1, <1>2, <1>3, <1>4 DEF PoolTypeOK, JobsKeepTheirPlace
<1>6. NothingLost'
  BY <1>1, OutcomeOpen DEF NothingLost
<1>7. \A v \in Workers : Works(v)' => worker'[v].job \in Jobs'
  BY <1>2, <1>3 DEF PoolIndInv, Works
<1> QED BY <1>1, <1>2, <1>5, <1>6, <1>7 DEF PoolIndInv, PoolInv, Blank

\* When all goroutines have ended, every job is done or has failed.
LEMMA DoneSound ==
  ASSUME PoolIndInv, AllDone
  PROVE  /\ \A j \in Jobs : j \in failures <=> results[j] # "made"
         /\ \A j \in failures : results[j] = Blank
         /\ failures # Jobs => \E j \in Jobs : results[j] = "made"
         /\ Jobs # {}
<1>1. task \in Tasks
  BY TaskKnown DEF PoolIndInv, PoolInv, AllDone
<1>2. task.size \in Nat /\ task.size >= 1 /\ 1 \in Jobs /\ next \in Nat
  <2>1. task.size \in Nat /\ task.size >= 1 /\ next \in Nat
    BY <1>1, TaskTyped, TaskKnown DEF PoolIndInv, PoolInv
  <2> QED BY <2>1 DEF Jobs
<1>3. \A j \in Jobs : j < next /\ Working(j) = {}
  BY <1>2 DEF AllDone, Jobs, Working, Works
<1>4. \A j \in Jobs : j \in failures <=> results[j] # "made"
  BY <1>3 DEF PoolIndInv, PoolInv, JobsKeepTheirPlace
<1> QED BY <1>2, <1>4 DEF PoolIndInv

LEMMA CollectedKeeps ==
  ASSUME PoolIndInv, Collected
  PROVE  PoolIndInv'
<1>1. /\ task.for = "crawl" /\ AllDone
      /\ outcome' = IF failures = Jobs THEN "failed" ELSE "results"
      /\ UNCHANGED <<task, next, worker, results, failures>>
  BY DEF Collected
<1>2. task \in Tasks /\ task.fallback = FALSE
  <2>1. task \in Tasks
    BY <1>1, TaskKnown DEF PoolIndInv, PoolInv
  <2> QED BY <1>1, <2>1, TaskTyped
<1>3. NothingLost'
  BY <1>1, <1>2, DoneSound DEF NothingLost, AllDone, Jobs, Blank
<1>4. PoolTypeOK' /\ JobsKeepTheirPlace'
  BY <1>1 DEF PoolIndInv, PoolInv, PoolTypeOK, JobsKeepTheirPlace, Jobs, Working, Works
<1> QED BY <1>1, <1>3, <1>4 DEF PoolIndInv, PoolInv, Jobs, Works, Blank

LEMMA FormattedKeeps ==
  ASSUME PoolIndInv, Formatted
  PROVE  PoolIndInv'
<1>1. task.for = "format" /\ AllDone /\ outcome = "none"
  BY DEF Formatted
<1>2. task \in Tasks /\ task.fallback \in BOOLEAN
  <2>1. task \in Tasks
    BY <1>1, TaskKnown DEF PoolIndInv, PoolInv
  <2> QED BY <2>1, TaskTyped
<1>3. CASE task.steps = 2 /\ Verdict # "failed"
  <2>1. PICK n \in 1..MaxJobs : Prepare([task EXCEPT !.steps = 1, !.size = n])
    BY <1>3 DEF Formatted
  <2>2. [task EXCEPT !.steps = 1, !.size = n] \in Tasks
    BY <1>1, <1>2, TaskTyped
  <2>3. outcome' = "none"
    BY <1>1, <1>3 DEF Formatted
  <2> QED BY <2>1, <2>2, <2>3, PreparedSound
<1>4. CASE ~(task.steps = 2 /\ Verdict # "failed")
  <2>1. outcome' = Verdict /\ UNCHANGED <<task, next, worker, results, failures>>
    BY <1>4 DEF Formatted
  <2>2. \A j \in Jobs : results[j] # "made" => j \in failures
    BY <1>1, DoneSound
  <2>3. NothingLost'
    BY <1>1, <1>2, <2>1, <2>2, DoneSound DEF NothingLost, AllDone, Jobs, Blank, Verdict
  <2>4. PoolTypeOK' /\ JobsKeepTheirPlace'
    BY <2>1 DEF PoolIndInv, PoolInv, PoolTypeOK, JobsKeepTheirPlace, Jobs, Working, Works, Verdict
  <2> QED BY <2>1, <2>3, <2>4 DEF PoolIndInv, PoolInv, Jobs, Works, Blank
<1> QED BY <1>3, <1>4

LEMMA PoolInitSound == PoolInit => PoolIndInv
<1> SUFFICES ASSUME PoolInit PROVE PoolIndInv
  OBVIOUS
<1>1. /\ task = NoTask /\ Jobs = {} /\ next = 1 /\ failures = {} /\ outcome = "none"
      /\ worker = [w \in Workers |-> Off] /\ results = [j \in {} |-> "none"]
  BY DEF PoolInit, Jobs, NoTask
<1>2. PoolTypeOK
  BY <1>1 DEF PoolTypeOK, NoTask, Off
<1> QED BY <1>1, <1>2 DEF PoolIndInv, PoolInv, JobsKeepTheirPlace, NothingLost, Works, Off

LEMMA PoolNextKeeps ==
  ASSUME PoolIndInv, [PoolNext]_poolVars
  PROVE  PoolIndInv'
<1>1. ASSUME NEW t \in Tasks, StartPool(t) PROVE PoolIndInv'
  BY <1>1, StartPoolKeeps
<1>2. ASSUME NEW w \in Workers, HandOver(w) \/ JobMade(w) \/ JobFails(w) \/ WorkerEnds(w)
      PROVE  PoolIndInv'
  BY <1>2, HandOverKeeps, JobEndsKeeps, WorkerEndsKeeps
<1>3. CASE Collected \/ Formatted
  BY <1>3, CollectedKeeps, FormattedKeeps
<1>4. CASE UNCHANGED poolVars
  BY <1>4 DEF poolVars, PoolIndInv, PoolInv, PoolTypeOK, JobsKeepTheirPlace, NothingLost, Jobs,
              Working, Works, Blank
<1> QED BY <1>1, <1>2, <1>3, <1>4 DEF PoolNext, PoolStep

\* Whatever order the goroutines work in and whichever jobs fail, no result is
\* lost, doubled or put in the place of another job, and the call returns when
\* all have ended (Fetch and formatChunksParallel).
THEOREM PoolsKeep == PoolSpec => []PoolInv
<1>1. PoolInit => PoolIndInv
  BY PoolInitSound
<1>2. PoolIndInv /\ [PoolNext]_poolVars => PoolIndInv'
  BY PoolNextKeeps
<1>3. PoolIndInv => PoolInv
  BY DEF PoolIndInv
<1> QED BY <1>1, <1>2, <1>3, PTL DEF PoolSpec

-----------------------------------------------------------------------------
(* AsrStream: what is spoken is heard, in its order, however the VAD cuts  *)
(* it into utterances.                                                     *)

\* The samples of a sequence of chunks, and of what was sent.
Samples(chunks) == UNION {chunks[i] : i \in DOMAIN chunks}

SentAudio(sent) == UNION {sent[i].audio : i \in DOMAIN sent}

Utterance == [active : BOOLEAN, chunks : Seq(SUBSET Nat), samples : Nat, id : Nat]

FinalMessage == [id : Nat, audio : SUBSET Nat, ok : BOOLEAN]

VadTyped ==
  /\ vad \in [triggered : BOOLEAN, current : Nat, tempEnd : Nat]
  /\ vad.current <= streamSamples

\* The buffer u, when n samples were received: each of them once.
GoodBuffer(u, n) ==
  /\ u \in Utterance
  /\ Samples(u.chunks) \subseteq 0..n - 1
  /\ Cardinality(Samples(u.chunks)) = u.samples
  /\ u.active \/ u.chunks = <<>>

\* What was sent came before what is in the buffer u ...
SentBefore(sent, u, n) ==
  \A i \in DOMAIN sent : /\ sent[i].id < u.id
                         /\ sent[i].audio \subseteq 0..n - 1
                         /\ \A a \in sent[i].audio, b \in Samples(u.chunks) : a < b

\* ... and was sent in its order.
SentInOrder(sent) ==
  \A i, j \in DOMAIN sent :
    i < j => /\ sent[i].id < sent[j].id
             /\ \A a \in sent[i].audio, b \in sent[j].audio : a < b

\* An iterator that has not reported a start has heard nothing that is only in
\* the buffer.
VadSound ==
  /\ vad.triggered => utterance.active
  /\ ~vad.triggered => spoken \subseteq SentAudio(finals) \cup reset

OpenInv ==
  SentBefore(finals, utterance, streamSamples) /\ SentInOrder(finals) /\ VadSound

StreamIndInv ==
  /\ StreamInv
  /\ GoodBuffer(utterance, streamSamples) /\ VadTyped /\ finals \in Seq(FinalMessage)
  /\ connection = "open" => OpenInv

-----------------------------------------------------------------------------
LEMMA OneChunk ==
  ASSUME NEW S
  PROVE  Samples(<<S>>) = S /\ Samples(<<>>) = {}
BY DEF Samples

LEMMA MoreSamples ==
  ASSUME NEW chunks \in Seq(SUBSET Nat), NEW S \in SUBSET Nat
  PROVE  /\ Append(chunks, S) \in Seq(SUBSET Nat)
         /\ Samples(Append(chunks, S)) = Samples(chunks) \cup S
<1>1. /\ Append(chunks, S) \in Seq(SUBSET Nat)
      /\ DOMAIN Append(chunks, S) = 1..Len(chunks) + 1
      /\ DOMAIN chunks = 1..Len(chunks)
      /\ Len(chunks) \in Nat
      /\ \A i \in 1..Len(chunks) : Append(chunks, S)[i] = chunks[i]
      /\ Append(chunks, S)[Len(chunks) + 1] = S
  OBVIOUS
<1>2. Samples(Append(chunks, S)) \subseteq Samples(chunks) \cup S
  BY <1>1 DEF Samples
<1>3. Samples(chunks) \subseteq Samples(Append(chunks, S))
  BY <1>1 DEF Samples
<1>4. S \subseteq Samples(Append(chunks, S))
  BY <1>1 DEF Samples
<1> QED BY <1>1, <1>2, <1>3, <1>4

\* A piece of the chunk that is read is as long as it says, and behind all
\* that was received.
LEMMA PieceLength ==
  ASSUME streamSamples \in Nat, NEW n \in Nat
  PROVE  /\ Piece(0, n) \in SUBSET Nat
         /\ IsFiniteSet(Piece(0, n)) /\ Cardinality(Piece(0, n)) = n
         /\ \A k \in Piece(0, n) : k >= streamSamples /\ k < streamSamples + n
<1>1. Piece(0, n) = streamSamples..streamSamples + n - 1
  BY DEF Piece
<1>2. IsFiniteSet(Piece(0, n)) /\ Cardinality(Piece(0, n)) = n
  <2>1. streamSamples \in Int /\ streamSamples + n - 1 \in Int
    OBVIOUS
  <2>2. /\ IsFiniteSet(streamSamples..streamSamples + n - 1)
        /\ Cardinality(streamSamples..streamSamples + n - 1) =
             IF streamSamples > streamSamples + n - 1 THEN 0
             ELSE streamSamples + n - 1 - streamSamples + 1
    BY <2>1, FS_Interval
  <2> QED BY <1>1, <2>2
<1> QED BY <1>1, <1>2

\* What the VADIterator is after a chunk, and what it reports of it.
LEMMA JudgedSays ==
  ASSUME VadTyped, NEW size \in Nat, NEW judgement \in Judgements, streamSamples \in Nat
  PROVE  /\ Judged(size, judgement) \in [triggered : BOOLEAN, current : Nat, tempEnd : Nat]
         /\ Judged(size, judgement).current <= streamSamples + size
         /\ Judged(size, judgement).triggered <=>
              judgement = "speech" \/ (vad.triggered /\ ~SpeechEnds(size, judgement))
         /\ BeginOfSpeech \in Nat /\ BeginOfSpeech <= streamSamples
         /\ EndOfSpeech(size) \in Int
<1> DEFINE t == judgement = "speech" \/ (vad.triggered /\ ~SpeechEnds(size, judgement))
<1>1. /\ vad.triggered \in BOOLEAN /\ vad.tempEnd \in Nat /\ vad.current <= streamSamples
      /\ vad.current \in Nat /\ Pad \in Nat /\ MinSilence \in Nat
  BY StreamConstants DEF VadTyped
<1>2. PICK now \in Nat : now = vad.current + size /\ now <= streamSamples + size
  BY <1>1
<1>3. SilentSince(size) \in Nat
  BY <1>1 DEF SilentSince
<1>4. PICK te \in Nat :
        te = IF judgement = "speech" \/ SpeechEnds(size, judgement) THEN 0
             ELSE IF judgement = "silence" /\ vad.triggered THEN SilentSince(size) ELSE vad.tempEnd
  BY <1>1, <1>3
<1>5. t \in BOOLEAN
  OBVIOUS
<1>6. Judged(size, judgement) = [triggered |-> t, current |-> now, tempEnd |-> te]
  BY <1>2, <1>4 DEF Judged
<1> HIDE DEF t
<1>7. /\ Judged(size, judgement) \in [triggered : BOOLEAN, current : Nat, tempEnd : Nat]
      /\ Judged(size, judgement).current = now /\ (Judged(size, judgement).triggered <=> t)
  BY <1>5, <1>6
<1>8. BeginOfSpeech \in Nat /\ BeginOfSpeech <= streamSamples
  BY <1>1 DEF BeginOfSpeech, AtLeast0
<1>9. EndOfSpeech(size) \in Int
  BY <1>1, <1>3 DEF EndOfSpeech
<1> QED BY <1>2, <1>7, <1>8, <1>9 DEF t

LEMMA BufferFinite ==
  ASSUME NEW n \in Nat, NEW S \in SUBSET (0..n - 1)
  PROVE  IsFiniteSet(S)
<1>1. IsFiniteSet(0..n - 1)
  <2>1. 0 \in Int /\ n - 1 \in Int
    OBVIOUS
  <2> QED BY <2>1, FS_Interval
<1> QED BY <1>1, FS_Subset

\* A buffer takes the samples that follow.
LEMMA BufferGrows ==
  ASSUME streamSamples \in Nat, NEW u, GoodBuffer(u, streamSamples), u.active,
         NEW n \in Nat, NEW size \in Nat, n <= size,
         NEW v, v \in Utterance,
         v.active, v.chunks = Append(u.chunks, Piece(0, n)), v.samples = u.samples + n
  PROVE  /\ GoodBuffer(v, streamSamples + size)
         /\ Samples(v.chunks) = Samples(u.chunks) \cup Piece(0, n)
<1>1. /\ Piece(0, n) \in SUBSET Nat
      /\ IsFiniteSet(Piece(0, n)) /\ Cardinality(Piece(0, n)) = n
      /\ \A k \in Piece(0, n) : k >= streamSamples /\ k < streamSamples + n
  BY PieceLength
<1>2. /\ u.chunks \in Seq(SUBSET Nat) /\ u.samples \in Nat
      /\ Samples(u.chunks) \subseteq 0..streamSamples - 1
      /\ Cardinality(Samples(u.chunks)) = u.samples
  BY DEF GoodBuffer, Utterance
<1>3. Samples(v.chunks) = Samples(u.chunks) \cup Piece(0, n)
  BY <1>1, <1>2, MoreSamples
<1>4. IsFiniteSet(Samples(u.chunks))
  BY <1>2, BufferFinite
<1>5. Samples(u.chunks) \cap Piece(0, n) = {}
  BY <1>1, <1>2
<1>6. Cardinality(Samples(u.chunks) \cap Piece(0, n)) = 0
  BY <1>5, FS_EmptySet
<1>7. Cardinality(Samples(u.chunks) \cup Piece(0, n)) =
        Cardinality(Samples(u.chunks)) + Cardinality(Piece(0, n))
          - Cardinality(Samples(u.chunks) \cap Piece(0, n))
  BY <1>1, <1>4, FS_Union
<1>8. Cardinality(Samples(v.chunks)) = v.samples
  <2>1. Cardinality(Samples(v.chunks)) = u.samples + n - 0
    BY <1>1, <1>2, <1>3, <1>6, <1>7
  <2> QED BY <1>2, <2>1
<1>9. Samples(v.chunks) \subseteq 0..streamSamples + size - 1
  <2> SUFFICES ASSUME NEW k \in Samples(v.chunks) PROVE k \in 0..streamSamples + size - 1
    OBVIOUS
  <2>1. CASE k \in Samples(u.chunks)
    BY <1>2, <2>1
  <2>2. CASE k \in Piece(0, n)
    BY <1>1, <2>2
  <2> QED BY <1>3, <2>1, <2>2
<1> QED BY <1>3, <1>8, <1>9 DEF GoodBuffer

\* Where the event of a chunk lies in it.
StartIn(size, judgement) ==
  IF SpeechBegins(judgement) THEN StartOffset(BeginOfSpeech, size) ELSE NoOffset

EndIn(size, judgement) ==
  IF SpeechEnds(size, judgement) THEN EndOffset(EndOfSpeech(size), size) ELSE NoOffset

LEMMA OffsetsAre ==
  ASSUME VadTyped, NEW size \in Nat, NEW judgement \in Judgements, streamSamples \in Nat
  PROVE  /\ StartIn(size, judgement) = IF SpeechBegins(judgement) THEN 0 ELSE NoOffset
         /\ SpeechEnds(size, judgement) => EndIn(size, judgement) \in 0..size
         /\ ~SpeechEnds(size, judgement) => EndIn(size, judgement) = NoOffset
<1>1. BeginOfSpeech \in Nat /\ BeginOfSpeech <= streamSamples /\ EndOfSpeech(size) \in Int
  BY JudgedSays
<1>2. StartOffset(BeginOfSpeech, size) = 0
  BY <1>1 DEF StartOffset, AtLeast0
<1>3. EndOffset(EndOfSpeech(size), size) \in 0..size
  BY <1>1 DEF EndOffset, AtLeast0
<1> QED BY <1>2, <1>3 DEF StartIn, EndIn

\* What a chunk does to the buffer: it begins one, goes on with it, to its end or to
\* that of the speech, or is not buffered.
BeginsBuffer(u, size) ==
  u.active /\ Samples(u.chunks) = Piece(0, size)

GoesOn(u, size, ended) ==
  /\ utterance.active /\ u.active
  /\ \E n \in 0..size : /\ ~ended => n = size
                        /\ Samples(u.chunks) = Samples(utterance.chunks) \cup Piece(0, n)

LEMMA BufferedChunkSays ==
  ASSUME streamSamples \in Nat, GoodBuffer(utterance, streamSamples),
         NEW size \in Nat \ {0}, NEW start, NEW end, start \in {NoOffset, 0},
         end \in {NoOffset} \cup 0..size, start # NoOffset => end = NoOffset,
         NEW u, u = BufferedChunk(start, end, size)
  PROVE  /\ GoodBuffer(u, streamSamples + size) /\ u.id = utterance.id
         /\ start # NoOffset => BeginsBuffer(u, size)
         /\ start = NoOffset /\ utterance.active => GoesOn(u, size, end # NoOffset)
         /\ start = NoOffset /\ ~utterance.active => u = utterance
<1>1. utterance \in Utterance
  BY DEF GoodBuffer
<1>2. NoOffset # 0 /\ \A n \in 0..size : n \in Nat /\ n # NoOffset
  BY DEF NoOffset
<1>3. ASSUME NEW n \in 0..size
      PROVE  Piece(0, n) \in SUBSET Nat /\ Append(utterance.chunks, Piece(0, n)) \in Seq(SUBSET Nat)
  <2>1. n \in Nat
    OBVIOUS
  <2>2. Piece(0, n) \in SUBSET Nat
    BY <2>1, PieceLength
  <2> QED BY <1>1, <2>2 DEF Utterance
<1>4. size \in 0..size /\ size \in Nat
  OBVIOUS
<1>5. CASE start # NoOffset
  <2>1. PICK p \in SUBSET Nat : p = Piece(0, size)
    BY <1>3, <1>4
  <2>2. u = [utterance EXCEPT !.active = TRUE, !.chunks = <<p>>, !.samples = size]
    <3>1. u = [utterance EXCEPT !.active = TRUE,
                                !.chunks = IF start < size THEN <<Piece(start, size)>> ELSE <<>>,
                                !.samples = size - start]
      BY <1>5 DEF BufferedChunk
    <3>2. start = 0 /\ size - start = size /\ start < size
      BY <1>5
    <3> QED BY <2>1, <3>1, <3>2
  <2>3. /\ u \in Utterance
        /\ u.active = TRUE /\ u.chunks = <<p>> /\ u.samples = size /\ u.id = utterance.id
    <3>1. <<p>> \in Seq(SUBSET Nat) /\ size \in Nat
      OBVIOUS
    <3> QED BY <1>1, <2>2, <3>1 DEF Utterance
  <2>4. Samples(u.chunks) = Piece(0, size)
    BY <2>1, <2>3, OneChunk
  <2>5. Samples(u.chunks) \subseteq 0..streamSamples + size - 1 /\ Cardinality(Samples(u.chunks)) = size
    BY <2>4, <1>4, PieceLength
  <2> QED BY <1>5, <2>3, <2>4, <2>5 DEF GoodBuffer, BeginsBuffer
<1>6. CASE start = NoOffset /\ utterance.active
  <2>1. PICK n \in 0..size : n = IF end = NoOffset THEN size ELSE end
    BY <1>4
  <2>2. u = [utterance EXCEPT !.chunks = Append(@, Piece(0, n)), !.samples = @ + n]
    BY <1>6, <2>1 DEF BufferedChunk
  <2>3. PICK p : p = Append(utterance.chunks, Piece(0, n))
    OBVIOUS
  <2>4. PICK m \in Nat : m = utterance.samples + n
    BY <1>1 DEF Utterance
  <2>5. u = [utterance EXCEPT !.chunks = p, !.samples = m]
    BY <2>2, <2>3, <2>4
  <2>6. p \in Seq(SUBSET Nat)
    BY <1>3, <2>3
  <2>7. /\ u \in Utterance
        /\ u.active = utterance.active /\ u.chunks = p /\ u.samples = m /\ u.id = utterance.id
    BY <1>1, <2>5, <2>6 DEF Utterance
  <2>8. n \in Nat /\ n <= size
    OBVIOUS
  <2>9. /\ GoodBuffer(u, streamSamples + size)
        /\ Samples(u.chunks) = Samples(utterance.chunks) \cup Piece(0, n)
    <3>1. u.active /\ u.chunks = Append(utterance.chunks, Piece(0, n)) /\ u.samples = utterance.samples + n
      BY <1>6, <2>3, <2>4, <2>7
    <3>2. u \in Utterance
      BY <2>7
    <3> QED BY <1>4, <1>6, <2>8, <3>1, <3>2, BufferGrows
  <2> QED BY <1>6, <2>1, <2>7, <2>9 DEF GoesOn
<1>7. CASE start = NoOffset /\ ~utterance.active
  <2>1. u = utterance
    BY <1>7 DEF BufferedChunk
  <2>2. Samples(utterance.chunks) \subseteq 0..streamSamples + size - 1
    BY DEF GoodBuffer
  <2> QED BY <1>7, <2>1, <2>2 DEF GoodBuffer
<1> QED BY <1>5, <1>6, <1>7

\* What is sent of the buffer goes behind what was sent.
LEMMA SendOne ==
  ASSUME NEW sent \in Seq(FinalMessage), NEW n \in Nat, NEW u, GoodBuffer(u, n),
         SentBefore(sent, u, n), SentInOrder(sent), NEW ok \in BOOLEAN,
         NEW now, now = sent \o Final(u, ok)
  PROVE  /\ now \in Seq(FinalMessage)
         /\ SentInOrder(now)
         /\ \A i \in DOMAIN now : now[i].id < u.id + 1 /\ now[i].audio \subseteq 0..n - 1
         /\ SentAudio(now) = SentAudio(sent) \cup Samples(u.chunks)
<1>1. u.id \in Nat /\ Buffered(u) = Samples(u.chunks) /\ Samples(u.chunks) \subseteq 0..n - 1
  <2>1. Buffered(u) = Samples(u.chunks)
    BY DEF Buffered, Samples
  <2> QED BY <2>1 DEF GoodBuffer, Utterance
<1>2. \A i \in DOMAIN sent : sent[i].id \in Nat /\ sent[i].audio \in SUBSET Nat
  <2>1. \A i \in DOMAIN sent : sent[i] \in FinalMessage
    OBVIOUS
  <2> QED BY <2>1 DEF FinalMessage
<1>3. CASE Samples(u.chunks) = {}
  <2>1. now = sent
    BY <1>1, <1>3 DEF Final
  <2> QED BY <1>1, <1>2, <1>3, <2>1 DEF SentBefore
<1>4. CASE Samples(u.chunks) # {}
  <2>1. PICK r : r = [id |-> u.id, audio |-> Samples(u.chunks), ok |-> ok]
    OBVIOUS
  <2>2. now = sent \o <<r>>
    BY <1>1, <1>4, <2>1 DEF Final
  <2>3. /\ r \in FinalMessage /\ r.id = u.id /\ r.audio = Samples(u.chunks)
    BY <1>1, <2>1 DEF FinalMessage
  <2>4. /\ now \in Seq(FinalMessage)
        /\ DOMAIN now = 1..Len(sent) + 1 /\ DOMAIN sent = 1..Len(sent) /\ Len(sent) \in Nat
        /\ \A i \in 1..Len(sent) : now[i] = sent[i]
        /\ now[Len(sent) + 1] = r
    BY <2>2, <2>3
  <2>5. SentInOrder(now)
    <3> SUFFICES ASSUME NEW i \in DOMAIN now, NEW j \in DOMAIN now, i < j
                 PROVE  /\ now[i].id < now[j].id
                        /\ \A a \in now[i].audio, b \in now[j].audio : a < b
      BY DEF SentInOrder
    <3>1. i \in DOMAIN sent /\ now[i] = sent[i]
      BY <2>4
    <3>2. CASE j \in DOMAIN sent
      BY <2>4, <3>1, <3>2 DEF SentInOrder
    <3>3. CASE j = Len(sent) + 1
      BY <2>3, <2>4, <3>1, <3>3 DEF SentBefore
    <3> QED BY <2>4, <3>2, <3>3
  <2>6. \A i \in DOMAIN now : now[i].id < u.id + 1 /\ now[i].audio \subseteq 0..n - 1
    <3> SUFFICES ASSUME NEW i \in DOMAIN now
                 PROVE  now[i].id < u.id + 1 /\ now[i].audio \subseteq 0..n - 1
      OBVIOUS
    <3>1. CASE i \in DOMAIN sent
      BY <1>1, <1>2, <2>4, <3>1 DEF SentBefore
    <3>2. CASE i = Len(sent) + 1
      BY <1>1, <2>3, <2>4, <3>2
    <3> QED BY <2>4, <3>1, <3>2
  <2>7. SentAudio(now) = SentAudio(sent) \cup r.audio
    <3>1. SentAudio(now) \subseteq SentAudio(sent) \cup r.audio
      BY <2>4 DEF SentAudio
    <3>2. SentAudio(sent) \subseteq SentAudio(now) /\ r.audio \subseteq SentAudio(now)
      BY <2>4 DEF SentAudio
    <3> QED BY <3>1, <3>2
  <2> QED BY <2>3, <2>4, <2>5, <2>6, <2>7
<1> QED BY <1>3, <1>4

LEMMA OpenFacts ==
  ASSUME StreamIndInv, connection = "open"
  PROVE  /\ streamSamples \in Nat /\ VadTyped /\ GoodBuffer(utterance, streamSamples)
         /\ utterance \in Utterance
         /\ finals \in Seq(FinalMessage)
         /\ SentBefore(finals, utterance, streamSamples) /\ SentInOrder(finals) /\ VadSound
         /\ Buffered(utterance) = Samples(utterance.chunks)
         /\ spoken \subseteq SentAudio(finals) \cup Samples(utterance.chunks) \cup reset
         /\ spoken \cup reset \subseteq 0..streamSamples - 1
<1>1. MaxSamples \in Nat
  BY StreamConstants
<1>2. Buffered(utterance) = Samples(utterance.chunks)
  BY DEF Buffered, Samples
<1>3. SentAudio(finals) = UNION {finals[i].audio : i \in DOMAIN finals}
  BY DEF SentAudio
<1>4. StreamTypeOK /\ SpeechIsHeard /\ OpenInv
  BY DEF StreamIndInv, StreamInv
<1>5. streamSamples \in Nat /\ spoken \cup reset \subseteq 0..streamSamples - 1
  BY <1>1, <1>4 DEF StreamTypeOK
<1>6. spoken \subseteq SentAudio(finals) \cup Samples(utterance.chunks) \cup reset
  BY <1>2, <1>3, <1>4 DEF SpeechIsHeard
<1>7. /\ VadTyped /\ GoodBuffer(utterance, streamSamples) /\ utterance \in Utterance
      /\ finals \in Seq(FinalMessage)
  BY DEF StreamIndInv, GoodBuffer
<1> QED BY <1>2, <1>4, <1>5, <1>6, <1>7 DEF OpenInv

\* With the open connection all its properties follow.
LEMMA OpenSuffices ==
  ASSUME streamSamples' \in 0..MaxSamples, VadTyped', GoodBuffer(utterance', streamSamples'),
         finals' \in Seq(FinalMessage), connection' = "open",
         SentBefore(finals', utterance', streamSamples'), SentInOrder(finals'), VadSound',
         spoken' \subseteq SentAudio(finals') \cup Samples(utterance'.chunks) \cup reset',
         spoken' \cup reset' \subseteq 0..streamSamples' - 1,
         utterance'.samples < MaxBufferSamples \/ ~utterance'.active
  PROVE  StreamIndInv'
<1>1. Buffered(utterance') = Samples(utterance'.chunks)
  BY DEF Buffered, Samples
<1>2. StreamTypeOK'
  <2>1. MaxSamples \in Nat
    BY StreamConstants
  <2>2. vad.current' \in 0..streamSamples'
    BY <2>1 DEF VadTyped
  <2> QED BY <2>2 DEF StreamTypeOK, GoodBuffer
<1>3. SpeechIsHeard'
  BY <1>1 DEF SpeechIsHeard, SentAudio
<1>4. SentencesInOrder'
  BY DEF SentencesInOrder, SentInOrder
<1>5. BufferIsBounded'
  BY <1>1 DEF BufferIsBounded, GoodBuffer
<1> QED BY <1>2, <1>3, <1>4, <1>5 DEF StreamIndInv, StreamInv, OpenInv

\* An open connection whose buffer grew or began with a chunk: u is the buffer.
AudioSound(u, size, judgement) ==
  /\ GoodBuffer(u, streamSamples + size) /\ u.id = utterance.id
  /\ SentBefore(finals, u, streamSamples + size)
  /\ spoken \cup (IF judgement = "speech" THEN Piece(0, size) ELSE {})
       \subseteq SentAudio(finals) \cup Samples(u.chunks) \cup reset
  /\ judgement = "speech" \/ (vad.triggered /\ ~SpeechEnds(size, judgement)) => u.active
  /\ SpeechEnds(size, judgement) => u.active

LEMMA AudioBuffers ==
  ASSUME StreamIndInv, connection = "open", NEW size \in Nat \ {0}, NEW judgement \in Judgements,
         NEW u, u = BufferedChunk(StartIn(size, judgement), EndIn(size, judgement), size)
  PROVE  AudioSound(u, size, judgement)
<1> DEFINE start == StartIn(size, judgement)
           end == EndIn(size, judgement)
<1>1. /\ streamSamples \in Nat /\ VadTyped /\ GoodBuffer(utterance, streamSamples)
      /\ utterance \in Utterance /\ finals \in Seq(FinalMessage)
      /\ SentBefore(finals, utterance, streamSamples) /\ VadSound
      /\ spoken \subseteq SentAudio(finals) \cup Samples(utterance.chunks) \cup reset
  BY OpenFacts
<1>2. size \in Nat /\ size > 0
  OBVIOUS
<1>3. /\ start = IF SpeechBegins(judgement) THEN 0 ELSE NoOffset
      /\ SpeechEnds(size, judgement) => end \in 0..size
      /\ ~SpeechEnds(size, judgement) => end = NoOffset
  BY <1>1, <1>2, OffsetsAre
<1>4. NoOffset \notin Nat
  BY DEF NoOffset
<1>5. SpeechBegins(judgement) => ~SpeechEnds(size, judgement)
  BY DEF SpeechBegins, SpeechEnds
<1> HIDE DEF start, end
<1>6. /\ start \in {NoOffset, 0} /\ end \in {NoOffset} \cup 0..size
      /\ start # NoOffset => end = NoOffset
      /\ start # NoOffset <=> SpeechBegins(judgement)
      /\ end # NoOffset <=> SpeechEnds(size, judgement)
  BY <1>3, <1>4, <1>5
<1>7. /\ GoodBuffer(u, streamSamples + size) /\ u.id = utterance.id
      /\ start # NoOffset => BeginsBuffer(u, size)
      /\ start = NoOffset /\ utterance.active => GoesOn(u, size, end # NoOffset)
      /\ start = NoOffset /\ ~utterance.active => u = utterance
  <2>1. u = BufferedChunk(start, end, size)
    BY DEF start, end
  <2> QED BY <1>1, <1>6, <2>1, BufferedChunkSays
<1>8. \A n \in 0..size : \A k \in Piece(0, n) : k >= streamSamples /\ k \in Nat
  BY <1>1, <1>2, PieceLength
<1>9. \A k \in Samples(u.chunks) : k \in Samples(utterance.chunks) \/ (k >= streamSamples /\ k \in Nat)
  <2>1. CASE start # NoOffset
    BY <1>2, <1>7, <1>8, <2>1 DEF BeginsBuffer
  <2>2. CASE start = NoOffset /\ utterance.active
    BY <1>7, <1>8, <2>2 DEF GoesOn
  <2>3. CASE start = NoOffset /\ ~utterance.active
    BY <1>7, <2>3
  <2> QED BY <2>1, <2>2, <2>3
<1>10. SentBefore(finals, u, streamSamples + size)
  <2>1. ASSUME NEW i \in DOMAIN finals
        PROVE  /\ finals[i].id < u.id
               /\ finals[i].audio \subseteq 0..streamSamples + size - 1
               /\ \A a \in finals[i].audio, b \in Samples(u.chunks) : a < b
    <3>1. /\ finals[i].id < utterance.id /\ finals[i].audio \subseteq 0..streamSamples - 1
          /\ \A a \in finals[i].audio, b \in Samples(utterance.chunks) : a < b
      BY <1>1 DEF SentBefore
    <3>2. finals[i].audio \subseteq 0..streamSamples + size - 1
      BY <1>1, <1>2, <3>1
    <3>3. \A a \in finals[i].audio, b \in Samples(u.chunks) : a < b
      BY <1>1, <1>9, <3>1
    <3> QED BY <1>7, <3>1, <3>2, <3>3
  <2>2. streamSamples + size - 1 = (streamSamples + size) - 1
    BY <1>1, <1>2
  <2> QED BY <2>1, <2>2 DEF SentBefore
<1>11. judgement = "speech" /\ ~SpeechBegins(judgement) =>
         vad.triggered /\ utterance.active /\ ~SpeechEnds(size, judgement)
  BY <1>1 DEF SpeechBegins, SpeechEnds, VadSound
<1>12. start = NoOffset => Samples(utterance.chunks) \subseteq Samples(u.chunks)
  BY <1>7 DEF GoesOn
<1>13. judgement = "speech" => Piece(0, size) \subseteq Samples(u.chunks)
  BY <1>6, <1>7, <1>11 DEF BeginsBuffer, GoesOn
<1>14. spoken \subseteq SentAudio(finals) \cup Samples(u.chunks) \cup reset
  <2>1. CASE start # NoOffset
    BY <1>1, <1>6, <2>1 DEF VadSound, SpeechBegins
  <2>2. CASE start = NoOffset
    BY <1>1, <1>12, <2>2
  <2> QED BY <2>1, <2>2
<1>15. judgement = "speech" \/ vad.triggered => u.active
  BY <1>1, <1>6, <1>7, <1>11 DEF BeginsBuffer, GoesOn, VadSound
<1>16. SpeechEnds(size, judgement) => vad.triggered
  BY DEF SpeechEnds
<1> QED BY <1>7, <1>10, <1>13, <1>14, <1>15, <1>16 DEF AudioSound

\* What an utterance that has ended leaves.
LEMMA AfterUtterance ==
  ASSUME NEW id \in Nat
  PROVE  /\ NoUtterance(id) \in Utterance /\ NoUtterance(id).id = id /\ ~NoUtterance(id).active
         /\ NoUtterance(id).chunks = <<>> /\ Samples(NoUtterance(id).chunks) = {}
         /\ \A n \in Nat : GoodBuffer(NoUtterance(id), n)
<1>1. /\ NoUtterance(id) = [active |-> FALSE, chunks |-> <<>>, samples |-> 0, id |-> id]
      /\ <<>> \in Seq(SUBSET Nat)
  BY DEF NoUtterance
<1>2. /\ NoUtterance(id) \in Utterance /\ NoUtterance(id).id = id /\ ~NoUtterance(id).active
      /\ NoUtterance(id).chunks = <<>> /\ NoUtterance(id).samples = 0
  BY <1>1 DEF Utterance
<1>3. Samples(NoUtterance(id).chunks) = {}
  BY <1>2, OneChunk
<1>4. Cardinality({}) = 0
  BY FS_EmptySet
<1> QED BY <1>2, <1>3, <1>4 DEF GoodBuffer

LEMMA AudioKeeps ==
  ASSUME StreamIndInv, NEW size \in ChunkSizes, NEW judgement \in Judgements, NEW ok \in BOOLEAN,
         Audio(size, judgement, ok)
  PROVE  StreamIndInv'
<1>1. PICK u : u = BufferedChunk(StartIn(size, judgement), EndIn(size, judgement), size)
  OBVIOUS
<1>2. PICK end : end = EndIn(size, judgement)
  OBVIOUS
<1>3. /\ connection = "open" /\ streamSamples + size <= MaxSamples
      /\ streamSamples' = streamSamples + size
      /\ spoken' = IF judgement = "speech" THEN spoken \cup Piece(0, size) ELSE spoken
      /\ UtteranceEnds(u, end) => /\ finals' = finals \o Final(u, ok)
                                  /\ utterance' = NoUtterance(u.id + 1)
                                  /\ vad' = NewVad
      /\ ~UtteranceEnds(u, end) => /\ utterance' = u /\ vad' = Judged(size, judgement)
                                   /\ UNCHANGED finals
      /\ UNCHANGED <<connection, reset>>
  BY <1>1, <1>2 DEF Audio, StartIn, EndIn
<1>4. size \in Nat \ {0} /\ size \in Nat /\ size > 0 /\ MaxSamples \in Nat
  BY StreamConstants
<1>5. /\ streamSamples \in Nat /\ VadTyped /\ finals \in Seq(FinalMessage)
      /\ SentInOrder(finals) /\ VadSound /\ spoken \cup reset \subseteq 0..streamSamples - 1
  BY <1>3, OpenFacts
<1>6. AudioSound(u, size, judgement)
  BY <1>1, <1>3, <1>4, AudioBuffers
<1>7. u \in Utterance /\ u.id \in Nat
  BY <1>6 DEF AudioSound, GoodBuffer, Utterance
<1>8. streamSamples' \in 0..MaxSamples /\ streamSamples' \in Nat /\ streamSamples' >= size
  BY <1>3, <1>4, <1>5
<1>9. \A k \in Piece(0, size) : k \in 0..streamSamples' - 1
  BY <1>3, <1>4, <1>5, PieceLength
<1>10. spoken' \cup reset' \subseteq 0..streamSamples' - 1
  BY <1>3, <1>4, <1>5, <1>9
<1>11. spoken' \subseteq SentAudio(finals) \cup Samples(u.chunks) \cup reset
  BY <1>3, <1>6 DEF AudioSound
<1>12. CASE UtteranceEnds(u, end)
  <2>1. PICK now : now = finals \o Final(u, ok)
    OBVIOUS
  <2>2. /\ now \in Seq(FinalMessage) /\ SentInOrder(now)
        /\ \A i \in DOMAIN now : now[i].id < u.id + 1 /\ now[i].audio \subseteq 0..streamSamples' - 1
        /\ SentAudio(now) = SentAudio(finals) \cup Samples(u.chunks)
    <3>1. GoodBuffer(u, streamSamples') /\ SentBefore(finals, u, streamSamples')
      BY <1>3, <1>6 DEF AudioSound
    <3> QED BY <1>5, <1>8, <2>1, <3>1, SendOne
  <2>3. finals' = now /\ utterance' = NoUtterance(u.id + 1) /\ vad' = NewVad
    BY <1>3, <1>12, <2>1
  <2>4. u.id + 1 \in Nat
    BY <1>7
  <2>5. /\ utterance'.id = u.id + 1 /\ ~utterance'.active /\ Samples(utterance'.chunks) = {}
        /\ GoodBuffer(utterance', streamSamples')
    BY <1>8, <2>3, <2>4, AfterUtterance
  <2>6. SentBefore(finals', utterance', streamSamples')
    BY <2>2, <2>3, <2>5 DEF SentBefore
  <2>7. VadTyped' /\ ~vad'.triggered
    BY <1>8, <2>3 DEF VadTyped, NewVad
  <2>8. VadSound'
    BY <1>3, <1>11, <2>2, <2>3, <2>7 DEF VadSound
  <2> QED BY <1>3, <1>8, <1>10, <1>11, <2>2, <2>3, <2>5, <2>6, <2>7, <2>8, OpenSuffices
<1>13. CASE ~UtteranceEnds(u, end)
  <2>1. utterance' = u /\ vad' = Judged(size, judgement) /\ finals' = finals
    BY <1>3, <1>13
  <2>2. /\ Judged(size, judgement) \in [triggered : BOOLEAN, current : Nat, tempEnd : Nat]
        /\ Judged(size, judgement).current <= streamSamples + size
        /\ Judged(size, judgement).triggered <=>
             judgement = "speech" \/ (vad.triggered /\ ~SpeechEnds(size, judgement))
    BY <1>4, <1>5, JudgedSays
  <2>3. VadTyped'
    BY <1>3, <2>1, <2>2 DEF VadTyped
  <2>4. end # NoOffset <=> SpeechEnds(size, judgement)
    <3>1. /\ SpeechEnds(size, judgement) => end \in 0..size
          /\ ~SpeechEnds(size, judgement) => end = NoOffset
      BY <1>2, <1>4, <1>5, OffsetsAre
    <3>2. NoOffset \notin 0..size
      BY DEF NoOffset
    <3> QED BY <3>1, <3>2
  <2>5. ~SpeechEnds(size, judgement)
    BY <1>6, <1>13, <2>4 DEF AudioSound, UtteranceEnds
  <2>6. VadSound'
    <3>1. vad'.triggered => utterance'.active
      BY <1>6, <2>1, <2>2 DEF AudioSound
    <3>2. ASSUME ~vad'.triggered
          PROVE  spoken' \subseteq SentAudio(finals') \cup reset'
      <4>1. judgement # "speech" /\ ~vad.triggered
        BY <2>1, <2>2, <2>5, <3>2
      <4> QED BY <1>3, <1>5, <2>1, <4>1 DEF VadSound
    <3> QED BY <3>1, <3>2 DEF VadSound
  <2>7. utterance'.samples < MaxBufferSamples \/ ~utterance'.active
    BY <1>7, <1>13, <2>1, StreamConstants DEF UtteranceEnds, Utterance
  <2>8. /\ GoodBuffer(utterance', streamSamples') /\ SentBefore(finals', utterance', streamSamples')
        /\ SentInOrder(finals') /\ finals' \in Seq(FinalMessage)
    BY <1>3, <1>5, <1>6, <2>1 DEF AudioSound
  <2>9. spoken' \subseteq SentAudio(finals') \cup Samples(utterance'.chunks) \cup reset'
    BY <1>3, <1>11, <2>1
  <2> QED BY <1>3, <1>8, <1>10, <2>3, <2>6, <2>7, <2>8, <2>9, OpenSuffices
<1> QED BY <1>12, <1>13

LEMMA ConfigKeeps ==
  ASSUME StreamIndInv, Config
  PROVE  StreamIndInv'
<1>1. /\ connection = "open" /\ vad' = NewVad
      /\ reset' = reset \cup Buffered(utterance)
      /\ UNCHANGED <<streamSamples, utterance, finals, connection, spoken>>
  BY DEF Config
<1>2. /\ streamSamples \in Nat /\ GoodBuffer(utterance, streamSamples)
      /\ finals \in Seq(FinalMessage)
      /\ SentBefore(finals, utterance, streamSamples) /\ SentInOrder(finals)
      /\ Buffered(utterance) = Samples(utterance.chunks)
      /\ spoken \subseteq SentAudio(finals) \cup Samples(utterance.chunks) \cup reset
      /\ spoken \cup reset \subseteq 0..streamSamples - 1
  BY <1>1, OpenFacts
<1>3. VadTyped' /\ ~vad'.triggered
  BY <1>1, <1>2 DEF VadTyped, NewVad
<1>4. VadSound'
  BY <1>1, <1>2, <1>3 DEF VadSound
<1>5. spoken' \cup reset' \subseteq 0..streamSamples' - 1
  BY <1>1, <1>2 DEF GoodBuffer
<1>6. streamSamples \in 0..MaxSamples /\ (utterance.samples < MaxBufferSamples \/ ~utterance.active)
  BY <1>1 DEF StreamIndInv, StreamInv, StreamTypeOK, BufferIsBounded
<1> QED BY <1>1, <1>2, <1>3, <1>4, <1>5, <1>6, OpenSuffices

\* What the `finally` finds is the buffer, or nothing.
LEMMA RestSays ==
  ASSUME NEW n \in Nat, GoodBuffer(utterance, n)
  PROVE  /\ GoodBuffer(Rest(utterance), n) /\ Rest(utterance).id = utterance.id
         /\ Rest(utterance) \in Utterance
         /\ Rest(utterance) = utterance \/ Samples(Rest(utterance).chunks) = {}
         /\ Samples(Rest(utterance).chunks) \subseteq Samples(utterance.chunks)
<1>1. utterance \in Utterance /\ utterance.id \in Nat
  BY DEF GoodBuffer, Utterance
<1>2. CASE Rest(utterance) = utterance
  BY <1>1, <1>2
<1>3. CASE Rest(utterance) = NoUtterance(utterance.id)
  BY <1>1, <1>3, AfterUtterance
<1> QED BY <1>2, <1>3 DEF Rest

\* A connection that closes has sent more.
LEMMA CloseSuffices ==
  ASSUME StreamIndInv, connection = "open", connection' \in {"flushed", "failed", "left"},
         UNCHANGED <<streamSamples, vad, utterance, spoken, reset>>,
         finals' \in Seq(FinalMessage),
         SentAudio(finals) \subseteq SentAudio(finals'), SentencesInOrder'
  PROVE  StreamIndInv'
<1>1. /\ GoodBuffer(utterance, streamSamples) /\ VadTyped
      /\ Buffered(utterance) = Samples(utterance.chunks)
      /\ spoken \subseteq SentAudio(finals) \cup Samples(utterance.chunks) \cup reset
      /\ StreamTypeOK
  BY OpenFacts DEF StreamIndInv, StreamInv
<1>2. Buffered(utterance') = Samples(utterance'.chunks)
  BY DEF Buffered, Samples
<1>3. StreamTypeOK'
  BY <1>1 DEF StreamTypeOK
<1>4. SpeechIsHeard'
  BY <1>1, <1>2 DEF SpeechIsHeard, SentAudio
<1>5. BufferIsBounded'
  BY <1>1, <1>2 DEF BufferIsBounded, GoodBuffer
<1>6. GoodBuffer(utterance', streamSamples') /\ VadTyped'
  BY <1>1 DEF VadTyped
<1> QED BY <1>3, <1>4, <1>5, <1>6 DEF StreamIndInv, StreamInv

LEMMA InOrderIs ==
  ASSUME SentInOrder(finals')
  PROVE  SentencesInOrder'
BY DEF SentencesInOrder, SentInOrder

LEMMA HandlerFailsKeeps ==
  ASSUME StreamIndInv, NEW ok \in BOOLEAN, HandlerFails(ok)
  PROVE  StreamIndInv'
<1>1. /\ connection = "open" /\ connection' = "failed"
      /\ finals' = finals \o Final(Rest(utterance), ok)
      /\ UNCHANGED <<streamSamples, vad, utterance, spoken, reset>>
  BY DEF HandlerFails
<1>2. PICK u : u = Rest(utterance)
  OBVIOUS
<1>3. /\ streamSamples \in Nat /\ GoodBuffer(utterance, streamSamples)
      /\ finals \in Seq(FinalMessage) /\ SentInOrder(finals)
      /\ SentBefore(finals, utterance, streamSamples)
  BY <1>1, OpenFacts
<1>4. GoodBuffer(u, streamSamples) /\ u.id = utterance.id
      /\ Samples(u.chunks) \subseteq Samples(utterance.chunks)
  BY <1>2, <1>3, RestSays
<1>5. SentBefore(finals, u, streamSamples)
  BY <1>3, <1>4 DEF SentBefore
<1>6. finals' = finals \o Final(u, ok)
  BY <1>1, <1>2
<1>7. /\ finals' \in Seq(FinalMessage) /\ SentInOrder(finals')
      /\ SentAudio(finals') = SentAudio(finals) \cup Samples(u.chunks)
  BY <1>3, <1>4, <1>5, <1>6, SendOne
<1> QED BY <1>1, <1>7, InOrderIs, CloseSuffices

\* The end of the stream sends the buffer, and the `finally` sends it again.
LEMMA EndOfStreamKeeps ==
  ASSUME StreamIndInv, NEW ok \in BOOLEAN, NEW again \in BOOLEAN, EndOfStream(ok, again)
  PROVE  StreamIndInv'
<1>1. PICK u : u = Rest(utterance)
  OBVIOUS
<1>2. PICK id : id = u.id + 1
  OBVIOUS
<1>3. PICK v : v = [u EXCEPT !.id = id]
  OBVIOUS
<1>4. /\ connection = "open" /\ connection' = "flushed"
      /\ finals' = finals \o Final(u, ok) \o Final(v, again)
      /\ UNCHANGED <<streamSamples, vad, utterance, spoken, reset>>
  BY <1>1, <1>2, <1>3 DEF EndOfStream
<1>5. /\ streamSamples \in Nat /\ GoodBuffer(utterance, streamSamples)
      /\ finals \in Seq(FinalMessage) /\ SentInOrder(finals)
      /\ SentBefore(finals, utterance, streamSamples)
  BY <1>4, OpenFacts
<1>6. /\ GoodBuffer(u, streamSamples) /\ u.id = utterance.id /\ u \in Utterance
      /\ Samples(u.chunks) \subseteq Samples(utterance.chunks)
  BY <1>1, <1>5, RestSays
<1>7. SentBefore(finals, u, streamSamples)
  BY <1>5, <1>6 DEF SentBefore
<1>8. PICK sent : sent = finals \o Final(u, ok)
  OBVIOUS
<1>9. /\ sent \in Seq(FinalMessage) /\ SentInOrder(sent)
      /\ \A i \in DOMAIN sent : sent[i].id < u.id + 1
      /\ SentAudio(sent) = SentAudio(finals) \cup Samples(u.chunks)
  BY <1>5, <1>6, <1>7, <1>8, SendOne
<1>10. finals' = sent \o Final(v, again)
  BY <1>4, <1>8
<1>11. u.id \in Nat /\ id \in Nat /\ u.chunks \in Seq(SUBSET Nat)
       /\ Samples(u.chunks) \in SUBSET Nat
  BY <1>2, <1>5, <1>6 DEF Utterance, GoodBuffer
<1>12. v.id = id /\ v.chunks = u.chunks
  BY <1>3, <1>6 DEF Utterance
<1>13. Buffered(u) = Samples(u.chunks) /\ Buffered(v) = Samples(u.chunks)
  BY <1>12 DEF Buffered, Samples
<1>14. CASE Samples(u.chunks) = {}
  <2>1. finals' = sent
    BY <1>9, <1>10, <1>13, <1>14 DEF Final
  <2> QED BY <1>4, <1>9, <2>1, InOrderIs, CloseSuffices
<1>15. CASE Samples(u.chunks) # {}
  <2>1. PICK r : r = [id |-> id, audio |-> Samples(u.chunks), ok |-> again]
    OBVIOUS
  <2>2. PICK q : q = [id |-> u.id, audio |-> Samples(u.chunks), ok |-> ok]
    OBVIOUS
  <2>3. finals' = sent \o <<r>> /\ sent = finals \o <<q>>
    BY <1>8, <1>10, <1>12, <1>13, <1>15, <2>1, <2>2 DEF Final
  <2>4. r \in FinalMessage /\ r.id = id /\ r.audio = Samples(u.chunks) /\ q \in FinalMessage
    BY <1>11, <2>1, <2>2 DEF FinalMessage
  <2>5. /\ finals' \in Seq(FinalMessage) /\ Len(sent) \in Nat /\ Len(finals') = Len(sent) + 1
        /\ Len(sent) = Len(finals) + 1 /\ Len(finals) \in Nat
        /\ DOMAIN finals' = 1..Len(sent) + 1 /\ DOMAIN sent = 1..Len(sent)
        /\ DOMAIN finals = 1..Len(finals)
        /\ \A i \in 1..Len(sent) : finals'[i] = sent[i]
        /\ \A i \in 1..Len(finals) : sent[i] = finals[i]
        /\ finals'[Len(sent) + 1] = r
    BY <1>5, <1>9, <2>3, <2>4
  <2>6. SentencesInOrder'
    <3> SUFFICES ASSUME NEW i \in DOMAIN finals', NEW j \in DOMAIN finals', i < j
                 PROVE  /\ finals'[i].id < finals'[j].id
                        /\ \/ \A a \in finals'[i].audio, b \in finals'[j].audio : a < b
                           \/ i = Len(finals') - 1 /\ j = Len(finals')
      BY <1>4 DEF SentencesInOrder
    <3>1. i \in DOMAIN sent /\ finals'[i] = sent[i] /\ i \in Nat
      BY <2>5
    <3>2. CASE j \in DOMAIN sent
      BY <1>9, <2>5, <3>1, <3>2 DEF SentInOrder
    <3>3. CASE j = Len(sent) + 1
      <4>1. finals'[i].id < finals'[j].id
        BY <1>2, <1>9, <2>4, <2>5, <3>1, <3>3
      <4>2. CASE i = Len(sent)
        BY <2>5, <3>3, <4>1, <4>2
      <4>3. CASE i \in DOMAIN finals
        BY <1>7, <2>4, <2>5, <3>1, <3>3, <4>1, <4>3 DEF SentBefore
      <4> QED BY <2>5, <3>1, <4>2, <4>3
    <3> QED BY <2>5, <3>2, <3>3
  <2>7. SentAudio(sent) \subseteq SentAudio(finals')
    BY <2>5 DEF SentAudio
  <2> QED BY <1>4, <1>9, <2>5, <2>6, <2>7, CloseSuffices
<1> QED BY <1>14, <1>15

LEMMA LeaveKeeps ==
  ASSUME StreamIndInv, Leave
  PROVE  StreamIndInv'
<1>1. /\ connection = "open" /\ connection' = "left"
      /\ UNCHANGED <<streamSamples, vad, utterance, finals, spoken, reset>>
  BY DEF Leave
<1>2. finals \in Seq(FinalMessage) /\ SentInOrder(finals)
  BY <1>1, OpenFacts
<1> QED BY <1>1, <1>2, InOrderIs, CloseSuffices

LEMMA StreamInitSound == StreamInit => StreamIndInv
<1> SUFFICES ASSUME StreamInit PROVE StreamIndInv
  OBVIOUS
<1>1. /\ streamSamples = 0 /\ vad = NewVad /\ utterance = NoUtterance(0) /\ finals = <<>>
      /\ connection = "open" /\ spoken = {} /\ reset = {}
  BY DEF StreamInit
<1>2. /\ utterance \in Utterance /\ ~utterance.active /\ utterance.chunks = <<>>
      /\ Samples(utterance.chunks) = {} /\ GoodBuffer(utterance, streamSamples)
  BY <1>1, AfterUtterance
<1>3. VadTyped /\ ~vad.triggered /\ vad.current = 0
  BY <1>1 DEF VadTyped, NewVad
<1>4. finals \in Seq(FinalMessage) /\ DOMAIN finals = {}
  BY <1>1
<1>5. MaxSamples \in Nat
  BY StreamConstants
<1>6. Buffered(utterance) = Samples(utterance.chunks)
  BY DEF Buffered, Samples
<1>7. StreamTypeOK
  BY <1>1, <1>2, <1>3, <1>5 DEF StreamTypeOK
<1>8. SpeechIsHeard /\ SentencesInOrder
  BY <1>1, <1>4 DEF SpeechIsHeard, SentencesInOrder
<1>9. BufferIsBounded
  BY <1>2, <1>6 DEF BufferIsBounded, GoodBuffer
<1>10. OpenInv
  BY <1>1, <1>2, <1>3, <1>4 DEF OpenInv, SentBefore, SentInOrder, VadSound
<1> QED BY <1>2, <1>3, <1>4, <1>7, <1>8, <1>9, <1>10 DEF StreamIndInv, StreamInv

LEMMA StreamStutters ==
  ASSUME StreamIndInv, UNCHANGED streamVars
  PROVE  StreamIndInv'
<1>1. UNCHANGED <<streamSamples, vad, utterance, finals, connection, spoken, reset>>
  BY DEF streamVars
<1>2. StreamInv'
  BY <1>1 DEF StreamIndInv, StreamInv, StreamTypeOK, SpeechIsHeard, SentencesInOrder, BufferIsBounded, Buffered
<1>3. OpenInv' <=> OpenInv
  BY <1>1 DEF OpenInv, VadSound
<1> QED BY <1>1, <1>2, <1>3 DEF StreamIndInv, VadTyped

LEMMA StreamNextKeeps ==
  ASSUME StreamIndInv, [StreamNext]_streamVars
  PROVE  StreamIndInv'
<1>1. ASSUME NEW size \in ChunkSizes, NEW judgement \in Judgements, NEW ok \in BOOLEAN,
             Audio(size, judgement, ok)
      PROVE  StreamIndInv'
  BY <1>1, AudioKeeps
<1>2. CASE Config
  BY <1>2, ConfigKeeps
<1>3. ASSUME NEW ok \in BOOLEAN, NEW again \in BOOLEAN, EndOfStream(ok, again)
      PROVE  StreamIndInv'
  BY <1>3, EndOfStreamKeeps
<1>4. ASSUME NEW ok \in BOOLEAN, HandlerFails(ok)
      PROVE  StreamIndInv'
  BY <1>4, HandlerFailsKeeps
<1>5. CASE Leave
  BY <1>5, LeaveKeeps
<1>6. CASE UNCHANGED streamVars
  BY <1>6, StreamStutters
<1> QED BY <1>1, <1>2, <1>3, <1>4, <1>5, <1>6 DEF StreamNext

\* However the chunks of a connection are judged, and whatever the client sends
\* between them, no speech is lost while it listens, the utterances come in
\* their order with ids of their own, and the buffer stays bounded
\* (stream_transcribe).
THEOREM StreamKeeps == StreamSpec => []StreamInv
<1>1. StreamInit => StreamIndInv
  BY StreamInitSound
<1>2. StreamIndInv /\ [StreamNext]_streamVars => StreamIndInv'
  BY StreamNextKeeps
<1>3. StreamIndInv => StreamInv
  BY DEF StreamIndInv
<1> QED BY <1>1, <1>2, <1>3, PTL DEF StreamSpec

-----------------------------------------------------------------------------
(* AsrBackends: the windows of Whisper.                                    *)

LEMMA LeastOf ==
  ASSUME NEW S \in SUBSET Nat, S # {}
  PROVE  Min(S) \in S /\ \A x \in S : Min(S) <= x
BY LeastNatural DEF Min

LEMMA GreatestOf ==
  ASSUME NEW S \in SUBSET Nat, S # {}, NEW b \in Nat, \A x \in S : x <= b
  PROVE  Max(S) \in S /\ \A x \in S : x <= Max(S)
<1>1. \E n \in S : \A m \in S : m <= n
  BY GreatestNatural
<1>2. \E n \in S : \A m \in S : n >= m
  BY <1>1
<1> QED BY <1>2 DEF Max

\* Where window k lies, and the next one.
LEMMA WindowLies ==
  ASSUME NEW n \in Nat, NEW k \in Nat \ {0}, NEW s \in Nat, s = MaxWindow - Overlap
  PROVE  /\ WhisperWindow(k, n).from = (k - 1) * s
         /\ WhisperWindow(k, n).from \in Nat
         /\ k = 1 => WhisperWindow(k, n).from = 0
         /\ WhisperWindow(k, n).to = WindowEnd(WhisperWindow(k, n).from, n)
         /\ WhisperWindow(k + 1, n).from = WhisperWindow(k, n).from + s
<1>1. /\ WhisperWindow(k, n).from = (k - 1) * s
      /\ WhisperWindow(k, n).to = WindowEnd((k - 1) * s, n)
      /\ WhisperWindow(k + 1, n).from = (k + 1 - 1) * s
  BY DEF WhisperWindow
<1>2. PICK j \in Nat : j = k - 1 /\ k + 1 - 1 = j + 1
  OBVIOUS
<1>3. (j + 1) * s = j * s + s /\ j * s \in Nat /\ (j = 0 => j * s = 0)
  BY <1>2
<1> QED BY <1>1, <1>2, <1>3

\* The n-th window, at the latest, reaches the end.
LEMMA SomeWindowReaches ==
  ASSUME NEW n \in Nat \ {0}
  PROVE  LastWindow(n) \in 1..n + 1 /\ WhisperWindow(LastWindow(n), n).to = n
         /\ \A k \in 1..n + 1 : k < LastWindow(n) => WhisperWindow(k, n).to # n
<1>1. PICK s \in Nat : s = MaxWindow - Overlap /\ s >= 1
  BY BackendConstants
<1>2. n * s >= n
  BY <1>1
<1>3. PICK m \in Nat \ {0} : m = n + 1 /\ m - 1 = n
  OBVIOUS
<1>4. WhisperWindow(m, n).to = n
  <2>1. /\ WhisperWindow(m, n).from = n * s /\ WhisperWindow(m, n).from \in Nat
        /\ WhisperWindow(m, n).to = WindowEnd(WhisperWindow(m, n).from, n)
    BY <1>1, <1>3, WindowLies
  <2> QED BY <1>2, <2>1, BackendConstants DEF WindowEnd
<1>5. m \in {k \in 1..n + 1 : WhisperWindow(k, n).to = n}
  BY <1>3, <1>4
<1> DEFINE S == {k \in 1..n + 1 : WhisperWindow(k, n).to = n}
<1>6. S \in SUBSET Nat
  <2>1. \A k \in 1..n + 1 : k \in Nat
    OBVIOUS
  <2> QED BY <2>1
<1>7. Min(S) \in S /\ \A k \in S : Min(S) <= k
  BY <1>5, <1>6, LeastOf
<1>8. LastWindow(n) = Min(S)
  BY DEF LastWindow
<1>9. /\ LastWindow(n) \in 1..n + 1 /\ WhisperWindow(LastWindow(n), n).to = n
      /\ \A k \in S : LastWindow(n) <= k
  BY <1>7, <1>8
<1>10. ASSUME NEW k \in 1..n + 1, k < LastWindow(n)
       PROVE  WhisperWindow(k, n).to # n
  <2>1. k \in S => LastWindow(n) <= k
    BY <1>9
  <2>2. ~(LastWindow(n) <= k)
    BY <1>9, <1>10
  <2> QED BY <2>1, <2>2
<1> QED BY <1>9, <1>10

LEMMA WindowsSound ==
  ASSUME NEW n \in Nat \ {0}, NEW w, w = WhisperWindows(n)
  PROVE  /\ w[1].from = 0
         /\ \A i \in DOMAIN w : w[i].to - w[i].from \in 1..MaxWindow
         /\ \A i \in DOMAIN w : w[i].to = n <=> i = Len(w)
         /\ \A i \in 1..Len(w) - 1 : w[i + 1].from = w[i].to - Overlap
<1> DEFINE last == LastWindow(n)
<1>0. PICK s \in Nat : s = MaxWindow - Overlap
  BY BackendConstants
<1>1. /\ last \in 1..n + 1 /\ WhisperWindow(last, n).to = n
      /\ \A k \in 1..n + 1 : k < last => WhisperWindow(k, n).to # n
  BY SomeWindowReaches
<1>2. /\ DOMAIN w = 1..last /\ \A i \in 1..last : w[i] = WhisperWindow(i, n)
  BY DEF WhisperWindows
<1>3. Len(w) = last
  <2>1. w = [i \in 1..last |-> WhisperWindow(i, n)] /\ last \in Nat
    BY <1>1 DEF WhisperWindows
  <2> HIDE DEF last
  <2> QED BY <2>1
<1> HIDE DEF last
<1>4. /\ MaxWindow \in Nat /\ Overlap \in Nat /\ MaxWindow > Overlap /\ last \in Nat /\ last >= 1
  BY <1>1, BackendConstants
<1>5. ASSUME NEW i \in 1..last
      PROVE  /\ i \in Nat \ {0} /\ i \in 1..n + 1
             /\ w[i].from \in Nat /\ w[i].to = WindowEnd(w[i].from, n)
             /\ i = 1 => w[i].from = 0
             /\ i < last => /\ w[i].to = w[i].from + MaxWindow /\ w[i].from + MaxWindow < n
                            /\ w[i + 1].from = w[i].from + s
  <2>1. i \in Nat \ {0} /\ i \in 1..n + 1 /\ n \in Nat
    BY <1>1
  <2>2. w[i] = WhisperWindow(i, n)
    BY <1>2
  <2>3. /\ WhisperWindow(i, n).from \in Nat
        /\ i = 1 => WhisperWindow(i, n).from = 0
        /\ WhisperWindow(i, n).to = WindowEnd(WhisperWindow(i, n).from, n)
        /\ WhisperWindow(i + 1, n).from = WhisperWindow(i, n).from + s
    BY <1>0, <2>1, WindowLies
  <2>4. ASSUME i < last
        PROVE  /\ w[i].to = w[i].from + MaxWindow /\ w[i].from + MaxWindow < n
               /\ w[i + 1].from = w[i].from + s
    <3>1. w[i].to # n
      BY <1>1, <2>1, <2>2, <2>4
    <3>2. i + 1 \in 1..last
      BY <1>4, <2>1, <2>4
    <3>3. w[i + 1].from = w[i].from + s
      BY <1>2, <2>2, <2>3, <3>2
    <3>4. w[i].to = WindowEnd(w[i].from, n) /\ w[i].from \in Nat
      BY <2>2, <2>3
    <3> QED BY <1>4, <2>1, <3>1, <3>3, <3>4 DEF WindowEnd
  <2> QED BY <2>1, <2>2, <2>3, <2>4
<1>6. ASSUME NEW i \in 1..last
      PROVE  w[i].from < n
  <2>1. CASE i = 1
    BY <1>5, <2>1
  <2>2. CASE i # 1
    <3>1. PICK j \in 1..last : j + 1 = i /\ j < last
      BY <1>4, <2>2
    <3>2. /\ w[j].from \in Nat /\ w[j].from + MaxWindow < n
          /\ w[i].from = w[j].from + s
      BY <1>5, <3>1
    <3> QED BY <1>0, <1>4, <3>2
  <2> QED BY <2>1, <2>2
<1>7. w[1].from = 0
  <2>1. 1 \in 1..last
    BY <1>4
  <2> QED BY <1>5, <2>1
<1>8. \A i \in 1..last : w[i].to - w[i].from \in 1..MaxWindow
  BY <1>4, <1>5, <1>6 DEF WindowEnd
<1>9. \A i \in 1..last : w[i].to = n <=> i = last
  BY SMTT(20), <1>1, <1>2, <1>5
<1>10. \A i \in 1..last - 1 : w[i + 1].from = w[i].to - Overlap
  BY <1>0, <1>4, <1>5
<1> QED BY <1>2, <1>3, <1>7, <1>8, <1>9, <1>10

LEMMA WindowsAlwaysCover == WindowsCover
<1> SUFFICES ASSUME NEW n \in 1..MaxRecording
             PROVE  LET w == WhisperWindows(n)
                    IN  /\ w[1].from = 0
                        /\ \A i \in DOMAIN w : w[i].to - w[i].from \in 1..MaxWindow
                        /\ \A i \in DOMAIN w : w[i].to = n <=> i = Len(w)
                        /\ \A i \in 1..Len(w) - 1 : w[i + 1].from = w[i].to - Overlap
  BY DEF WindowsCover
<1>1. n \in Nat \ {0}
  OBVIOUS
<1>2. PICK w : w = WhisperWindows(n)
  OBVIOUS
<1> QED BY <1>1, <1>2, WindowsSound

-----------------------------------------------------------------------------
(* AsrBackends: the pieces of a recording.                                 *)

Segment == [piece : Nat, start : Nat, end : Nat]

AsrTyped ==
  /\ recording.total \in Nat /\ recording.chunks \in Seq(Nat) /\ recording.chunks # <<>>
  /\ hearing \in [at : {"cut", "piece", "poll", "done", "failed"}, piece : Nat \ {0},
                  polls : Nat, deadline : Nat]
  /\ heard \in [segments : Seq(Segment), offset : Nat]
  /\ answered \in Seq({"segments", "silent"}) /\ Len(answered) = hearing.piece - 1
  /\ millis \in Nat

\* Where transcribe is in the pieces.
InPieces ==
  /\ hearing.at \in {"cut", "piece", "poll"} => hearing.piece <= Len(Pieces)
  /\ hearing.at = "done" => hearing.piece = Len(Pieces) + 1

\* Every segment belongs to a piece that was heard, and lies before the offset
\* of the next one.
SegmentsPlaced ==
  \A i \in DOMAIN heard.segments :
    LET s == heard.segments[i]
    IN  s.piece \in 1..Len(answered) /\ answered[s.piece] = "segments" /\ s.end <= heard.offset

SegmentsFollow ==
  \A i, j \in DOMAIN heard.segments :
    i < j /\ heard.segments[i].piece # heard.segments[j].piece =>
      /\ heard.segments[i].piece < heard.segments[j].piece
      /\ heard.segments[i].end <= heard.segments[j].start

\* Every poll has cost its interval.
PollsCost ==
  /\ hearing.at \in {"cut", "piece"} => hearing.polls = 0
  /\ hearing.at = "poll" =>
       /\ millis < hearing.deadline + PollMillis
       /\ hearing.deadline + hearing.polls * PollMillis <= millis + MaxPollMillis

AsrIndInv == AsrTyped /\ InPieces /\ SegmentsPlaced /\ SegmentsFollow /\ PollsCost

LEMMA LongestOf ==
  ASSUME NEW S \in SUBSET Nat, NEW b \in Nat, \A x \in S : x <= b
  PROVE  Longest(S) \in Nat /\ \A x \in S : x <= Longest(S)
<1>1. CASE S = {}
  BY <1>1 DEF Longest
<1>2. CASE S # {}
  BY <1>2, GreatestOf DEF Longest
<1> QED BY <1>1, <1>2

LEMMA PiecesTyped ==
  ASSUME AsrTyped
  PROVE  Pieces \in Seq(Nat) /\ Len(Pieces) \in Nat \ {0}
         /\ \A k \in 1..Len(Pieces) : Pieces[k] \in Nat
<1>1. recording.total \in Nat /\ recording.chunks \in Seq(Nat) /\ recording.chunks # <<>>
  BY DEF AsrTyped
<1>2. Pieces \in Seq(Nat) /\ Pieces # <<>>
  BY <1>1 DEF Pieces
<1> QED BY <1>2

LEMMA SegmentsTyped ==
  ASSUME NEW lattice \in Lattices, NEW k \in Nat, NEW segments, segments = Segments(lattice, k)
  PROVE  /\ segments \in Seq(Segment)
         /\ \A i \in DOMAIN segments : segments[i].piece = k
         /\ \E b \in Nat : \A x \in EndTimes(segments) : x <= b
         /\ EndTimes(segments) \in SUBSET Nat
<1>1. /\ lattice \in Seq([bg : Nat, ed : Nat]) /\ DOMAIN lattice = 1..Len(lattice)
      /\ Len(lattice) \in Nat
  BY BackendConstants
<1>2. \A raw \in Nat : Time(raw) \in Nat
  BY DEF Time
<1>3. ASSUME NEW i \in 1..Len(lattice)
      PROVE  segments[i] \in Segment /\ segments[i].piece = k
  <2>1. lattice[i].bg \in Nat /\ lattice[i].ed \in Nat
    <3>1. lattice[i] \in [bg : Nat, ed : Nat]
      BY <1>1, ElementOfSeq, Zenon
    <3> QED BY <3>1
  <2>2. PICK start \in Nat : start = Time(lattice[i].bg)
    BY <1>2, <2>1
  <2>3. PICK ed \in Nat : ed = Time(lattice[i].ed)
    BY <1>2, <2>1
  <2>4. PICK end \in Nat : end = IF ed < start THEN start ELSE ed
    OBVIOUS
  <2>5. segments[i] = [piece |-> k, start |-> start, end |-> end]
    BY <1>1, <2>2, <2>3, <2>4 DEF Segments
  <2> QED BY <2>5 DEF Segment
<1>4. segments = [i \in 1..Len(lattice) |-> segments[i]]
  BY <1>1 DEF Segments
<1>5. segments \in Seq(Segment) /\ DOMAIN segments = 1..Len(lattice)
  BY <1>1, <1>3, <1>4
<1>6. [i \in 1..Len(lattice) |-> segments[i].end] \in [1..Len(lattice) -> Nat]
  BY <1>3 DEF Segment
<1>7. PICK b \in Nat : \A i \in 1..Len(lattice) : segments[i].end <= b
  <2>1. PICK f \in [1..Len(lattice) -> Nat] : \A i \in 1..Len(lattice) : f[i] = segments[i].end
    BY <1>6
  <2>2. \E b \in Nat : \A i \in 1..Len(lattice) : f[i] <= b
    BY <1>1, BoundedValues
  <2> QED BY <2>1, <2>2
<1>8. EndTimes(segments) \in SUBSET Nat /\ \A x \in EndTimes(segments) : x <= b
  BY <1>3, <1>5, <1>7 DEF EndTimes, Segment
<1> QED BY <1>3, <1>5, <1>8

LEMMA ShiftedTyped ==
  ASSUME NEW segments \in Seq(Segment), NEW by \in Nat, NEW shifted, shifted = Shifted(segments, by)
  PROVE  /\ shifted \in Seq(Segment) /\ Len(shifted) = Len(segments)
         /\ \A i \in 1..Len(segments) : /\ shifted[i].piece = segments[i].piece
                                        /\ shifted[i].start = segments[i].start + by
                                        /\ shifted[i].end = segments[i].end + by
<1>1. DOMAIN segments = 1..Len(segments) /\ Len(segments) \in Nat
  OBVIOUS
<1>2. ASSUME NEW i \in 1..Len(segments)
      PROVE  /\ shifted[i] \in Segment /\ shifted[i].piece = segments[i].piece
             /\ shifted[i].start = segments[i].start + by
             /\ shifted[i].end = segments[i].end + by
  <2>1. segments[i] \in Segment
    OBVIOUS
  <2>2. PICK start \in Nat : start = segments[i].start + by
    BY <2>1 DEF Segment
  <2>3. PICK end \in Nat : end = segments[i].end + by
    BY <2>1 DEF Segment
  <2>4. shifted[i] = [segments[i] EXCEPT !.start = start, !.end = end]
    BY <1>1, <2>2, <2>3 DEF Shifted
  <2> QED BY <2>1, <2>2, <2>3, <2>4 DEF Segment
<1>3. shifted = [i \in 1..Len(segments) |-> shifted[i]]
  BY <1>1 DEF Shifted
<1>4. shifted \in Seq(Segment) /\ Len(shifted) = Len(segments)
  BY <1>1, <1>2, <1>3
<1> QED BY <1>2, <1>4

\* A piece is answered: its segments go behind those of the pieces before it.
LEMMA TakePieceKeeps ==
  ASSUME AsrIndInv, hearing.at \in {"piece", "poll"}, millis' \in Nat,
         NEW answer \in {"segments", "silent"}, NEW segments \in Seq(Segment), NEW lasted \in Nat,
         answer = "silent" => segments = <<>>,
         \A i \in DOMAIN segments : segments[i].piece = hearing.piece /\ segments[i].end <= lasted,
         TakePiece(answer, segments, lasted)
  PROVE  AsrIndInv'
<1>1. PICK shifted : shifted = Shifted(segments, heard.offset)
  OBVIOUS
<1>2. PICK k \in Nat \ {0} : k = hearing.piece
  BY DEF AsrIndInv, AsrTyped
<1>3. /\ heard.segments \in Seq(Segment) /\ heard.offset \in Nat
      /\ answered \in Seq({"segments", "silent"}) /\ Len(answered) = k - 1
      /\ hearing \in [at : {"cut", "piece", "poll", "done", "failed"}, piece : Nat \ {0},
                      polls : Nat, deadline : Nat]
      /\ k <= Len(Pieces) /\ Len(Pieces) \in Nat
  BY <1>2, PiecesTyped DEF AsrIndInv, AsrTyped, InPieces
<1>4. PICK offset \in Nat : offset = heard.offset + lasted
  BY <1>3
<1>5. PICK at \in {"piece", "done"} : at = IF hearing.piece < Len(Pieces) THEN "piece" ELSE "done"
  OBVIOUS
<1>6. PICK after \in Nat \ {0} : after = k + 1
  OBVIOUS
<1>7. /\ heard' = [segments |-> heard.segments \o shifted, offset |-> offset]
      /\ answered' = Append(answered, answer)
      /\ hearing' = [hearing EXCEPT !.at = at, !.piece = after, !.polls = 0]
      /\ recording' = recording
  BY <1>1, <1>2, <1>4, <1>5, <1>6 DEF TakePiece
<1>8. /\ hearing'.at = at /\ hearing'.piece = k + 1 /\ hearing'.polls = 0
      /\ hearing' \in [at : {"cut", "piece", "poll", "done", "failed"}, piece : Nat \ {0},
                       polls : Nat, deadline : Nat]
  BY <1>3, <1>6, <1>7
<1>9. /\ shifted \in Seq(Segment) /\ Len(shifted) = Len(segments)
      /\ \A i \in 1..Len(segments) : /\ shifted[i].piece = k
                                     /\ shifted[i].start >= heard.offset
                                     /\ shifted[i].end <= offset
  <2>1. /\ shifted \in Seq(Segment) /\ Len(shifted) = Len(segments)
        /\ \A i \in 1..Len(segments) : /\ shifted[i].piece = segments[i].piece
                                       /\ shifted[i].start = segments[i].start + heard.offset
                                       /\ shifted[i].end = segments[i].end + heard.offset
    BY <1>1, <1>3, ShiftedTyped
  <2>2. ASSUME NEW i \in 1..Len(segments)
        PROVE  /\ segments[i].piece = k /\ segments[i].end <= lasted
               /\ segments[i].start \in Nat /\ segments[i].end \in Nat
    <3>1. i \in DOMAIN segments
      OBVIOUS
    <3>2. segments[i] \in Segment
      BY ElementOfSeq, Zenon
    <3>3. segments[i].start \in Nat /\ segments[i].end \in Nat
      BY <3>2 DEF Segment
    <3> QED BY <1>2, <3>1, <3>3
  <2>3. ASSUME NEW i \in 1..Len(segments)
        PROVE  /\ shifted[i].piece = k /\ shifted[i].start >= heard.offset
               /\ shifted[i].end <= offset
    <3>1. PICK x \in Nat : x = segments[i].start
      BY <2>2
    <3>2. PICK y \in Nat : y = segments[i].end /\ y <= lasted
      BY <2>2
    <3>3. PICK o \in Nat : o = heard.offset
      BY <1>3
    <3>4. /\ shifted[i].piece = k /\ shifted[i].start = x + o
          /\ shifted[i].end = y + o /\ offset = o + lasted
      BY <1>4, <2>1, <2>2, <3>1, <3>2, <3>3, Zenon
    <3>5. x + o >= o /\ y + o <= o + lasted
      BY <3>2
    <3> QED BY <3>3, <3>4, <3>5, Zenon
  <2> QED BY <2>1, <2>3
<1>10. PICK all \in Seq(Segment) : all = heard.segments \o shifted
  <2>1. heard.segments \in Seq(Segment) /\ shifted \in Seq(Segment)
    BY <1>3, <1>9
  <2>2. heard.segments \o shifted \in Seq(Segment)
    BY <2>1, ConcatProperties
  <2> QED BY <2>2, Zenon
<1>11. heard'.segments = all /\ heard'.offset = offset /\ heard' \in [segments : Seq(Segment), offset : Nat]
  BY <1>7, <1>10
<1>12. PICK l \in Nat : l = Len(heard.segments)
  BY <1>3
<1>13. PICK m \in Nat : m = Len(shifted)
  BY <1>9
<1>14. /\ Len(all) = l + m /\ DOMAIN all = 1..l + m /\ DOMAIN heard.segments = 1..l
       /\ \A i \in 1..l : all[i] = heard.segments[i]
       /\ \A i \in 1..l + m : i > l => i - l \in 1..m /\ all[i] = shifted[i - l]
  <2>1. /\ Len(all) = Len(heard.segments) + Len(shifted)
        /\ \A i \in 1..Len(heard.segments) + Len(shifted) :
             all[i] = IF i <= Len(heard.segments) THEN heard.segments[i]
                      ELSE shifted[i - Len(heard.segments)]
    <3>1. heard.segments \in Seq(Segment) /\ shifted \in Seq(Segment)
      BY <1>3, <1>9
    <3> QED BY <1>10, <3>1, ConcatProperties
  <2>2. /\ Len(all) = l + m
        /\ \A i \in 1..l + m : all[i] = IF i <= l THEN heard.segments[i] ELSE shifted[i - l]
    BY <1>12, <1>13, <2>1, Zenon
  <2>3. DOMAIN all = 1..l + m
    <3>1. DOMAIN all = 1..Len(all)
      BY <1>10
    <3> QED BY <2>2, <3>1, Zenon
  <2>4. DOMAIN heard.segments = 1..l
    <3>1. DOMAIN heard.segments = 1..Len(heard.segments)
      BY <1>3
    <3> QED BY <1>12, <3>1, Zenon
  <2>5. \A i \in 1..l : i \in 1..l + m /\ i <= l
    OBVIOUS
  <2>6. \A i \in 1..l + m : i > l => i - l \in 1..m /\ ~(i <= l)
    OBVIOUS
  <2>7. \A i \in 1..l : all[i] = heard.segments[i]
    BY <2>2, <2>5, Zenon
  <2>8. \A i \in 1..l + m : i > l => i - l \in 1..m /\ all[i] = shifted[i - l]
    BY <2>2, <2>6, Zenon
  <2> QED BY <2>2, <2>3, <2>4, <2>7, <2>8
<1>15. /\ answered' \in Seq({"segments", "silent"}) /\ Len(answered') = k
       /\ \A i \in 1..k - 1 : answered'[i] = answered[i]
       /\ answered'[k] = answer
  <2>1. k - 1 \in Nat /\ k - 1 + 1 = k /\ k \notin 1..k - 1
    OBVIOUS
  <2>2. PICK n \in Nat : n = Len(answered) /\ n = k - 1 /\ n + 1 = k
    BY <1>3, <2>1
  <2>3. /\ Append(answered, answer) \in Seq({"segments", "silent"})
        /\ Len(Append(answered, answer)) = n + 1
        /\ \A i \in 1..n : Append(answered, answer)[i] = answered[i]
        /\ Append(answered, answer)[n + 1] = answer
    BY <1>3, <2>2, AppendProperties
  <2> QED BY <1>7, <2>2, <2>3, Zenon
<1>16. AsrTyped'
  BY <1>7, <1>8, <1>11, <1>15 DEF AsrIndInv, AsrTyped
<1>17. ASSUME NEW i \in 1..l
       PROVE  /\ all[i] \in Segment /\ all[i].piece \in 1..k - 1 /\ all[i].piece # k
              /\ answered[all[i].piece] = "segments" /\ all[i].end <= heard.offset
              /\ all[i].end <= offset
  <2>1. i \in DOMAIN heard.segments /\ all[i] = heard.segments[i] /\ all[i] \in Segment
    BY <1>3, <1>14
  <2>2. /\ all[i].piece \in 1..Len(answered) /\ answered[all[i].piece] = "segments"
        /\ all[i].end <= heard.offset
    BY <2>1 DEF AsrIndInv, SegmentsPlaced
  <2>3. all[i].end \in Nat
    <3>1. all[i] \in Segment
      BY <2>1
    <3> QED BY <3>1 DEF Segment
  <2>4. all[i].end <= offset
    <3>1. PICK x \in Nat : x = all[i].end
      BY <2>3
    <3>2. PICK o \in Nat : o = heard.offset
      BY <1>3
    <3>3. x <= o /\ offset = o + lasted
      BY <1>4, <2>2, <3>1, <3>2, Zenon
    <3> QED BY <3>1, <3>3
  <2>5. PICK q \in Nat : q = Len(answered) /\ q = k - 1
    BY <1>3
  <2>6. all[i].piece \in 1..q
    BY <2>2, <2>5, Zenon
  <2>7. all[i].piece \in 1..k - 1 /\ all[i].piece # k
    BY <2>5, <2>6
  <2> QED BY <2>1, <2>2, <2>4, <2>7
<1>18. ASSUME NEW i \in 1..l + m, i > l
       PROVE  /\ all[i].piece = k /\ all[i].start >= heard.offset /\ all[i].end <= offset
              /\ answer = "segments"
  <2>1. i - l \in 1..m /\ all[i] = shifted[i - l] /\ segments # <<>>
    BY <1>9, <1>13, <1>14, <1>18
  <2> QED BY <1>9, <1>13, <2>1
<1>19. SegmentsPlaced'
  <2>1. ASSUME NEW i \in 1..l + m
        PROVE  /\ all[i].piece \in 1..k /\ answered'[all[i].piece] = "segments"
               /\ all[i].end <= offset
    <3>1. CASE i <= l
      BY <1>15, <1>17, <3>1
    <3>2. CASE i > l
      BY <1>15, <1>18, <3>2
    <3> QED BY <3>1, <3>2
  <2> QED BY <1>11, <1>14, <1>15, <2>1 DEF SegmentsPlaced
<1>20. SegmentsFollow'
  <2>1. ASSUME NEW i \in 1..l + m, NEW j \in 1..l + m, i < j, all[i].piece # all[j].piece
        PROVE  all[i].piece < all[j].piece /\ all[i].end <= all[j].start
    <3>1. CASE j <= l
      <4>1. /\ i \in DOMAIN heard.segments /\ j \in DOMAIN heard.segments
            /\ all[i] = heard.segments[i] /\ all[j] = heard.segments[j]
        BY <1>14, <2>1, <3>1
      <4> QED BY <2>1, <4>1 DEF AsrIndInv, SegmentsFollow
    <3>2. CASE i <= l /\ j > l
      <4>1. all[i].piece \in 1..k - 1 /\ all[i].end <= heard.offset /\ all[i] \in Segment
        BY <1>17, <3>2
      <4>2. all[j].piece = k /\ all[j].start >= heard.offset
        BY <1>18, <3>2
      <4>3. all[j] \in Segment
        <5>1. j \in 1..Len(all)
          BY <1>14
        <5> QED BY <1>10, <5>1, ElementOfSeq, Zenon
      <4>4. PICK x \in Nat : x = all[i].end
        BY <4>1 DEF Segment
      <4>5. PICK y \in Nat : y = all[j].start
        BY <4>3 DEF Segment
      <4>6. PICK o \in Nat : o = heard.offset
        BY <1>3
      <4>7. x <= o /\ o <= y
        BY <4>1, <4>2, <4>4, <4>5, <4>6
      <4>8. all[i].piece < k
        BY <4>1
      <4> QED BY SMTT(20), <4>2, <4>4, <4>5, <4>7, <4>8
    <3>3. CASE i > l
      <4>1. all[i].piece = k /\ all[j].piece = k
        BY <1>18, <2>1, <3>3
      <4> QED BY <2>1, <4>1
    <3> QED BY <3>1, <3>2, <3>3
  <2> QED BY <1>11, <1>14, <2>1 DEF SegmentsFollow
<1>21. Pieces' = Pieces
  BY <1>7 DEF Pieces, Split
<1>22. InPieces'
  BY SMTT(20), <1>2, <1>3, <1>5, <1>8, <1>21 DEF InPieces
<1>23. PollsCost'
  BY <1>5, <1>8 DEF PollsCost
<1> QED BY <1>16, <1>19, <1>20, <1>22, <1>23 DEF AsrIndInv

\* The piece is not answered yet, or transcribe gives up.
LEMMA StaysInPiece ==
  ASSUME AsrIndInv, hearing.at \in {"cut", "piece", "poll"}, millis' \in Nat,
         hearing' \in [at : {"cut", "piece", "poll", "done", "failed"}, piece : Nat \ {0},
                       polls : Nat, deadline : Nat],
         hearing'.piece = hearing.piece, hearing'.at \in {"piece", "poll", "failed"},
         UNCHANGED <<recording, heard, answered>>, PollsCost'
  PROVE  AsrIndInv'
<1>1. AsrTyped'
  BY DEF AsrIndInv, AsrTyped
<1>2. Pieces' = Pieces
  BY DEF Pieces, Split
<1>3. InPieces'
  BY <1>2 DEF AsrIndInv, InPieces
<1>4. SegmentsPlaced' /\ SegmentsFollow'
  BY DEF AsrIndInv, SegmentsPlaced, SegmentsFollow
<1> QED BY <1>1, <1>3, <1>4 DEF AsrIndInv

LEMMA GivesUp ==
  ASSUME AsrIndInv, hearing.at \in {"cut", "piece", "poll"}, millis' \in Nat,
         hearing' = [hearing EXCEPT !.at = "failed"],
         UNCHANGED <<recording, heard, answered>>
  PROVE  AsrIndInv'
<1>1. hearing \in [at : {"cut", "piece", "poll", "done", "failed"}, piece : Nat \ {0},
                   polls : Nat, deadline : Nat]
  BY DEF AsrIndInv, AsrTyped
<1>2. /\ hearing' \in [at : {"cut", "piece", "poll", "done", "failed"}, piece : Nat \ {0},
                       polls : Nat, deadline : Nat]
      /\ hearing'.piece = hearing.piece /\ hearing'.at = "failed"
  BY <1>1
<1>3. PollsCost'
  BY <1>2 DEF PollsCost
<1> QED BY <1>2, <1>3, StaysInPiece

LEMMA LastsInTime ==
  ASSUME AsrIndInv, Lasts
  PROVE  millis' \in Nat
<1>1. millis \in Nat /\ Latencies \subseteq Nat
  BY BackendConstants DEF AsrIndInv, AsrTyped
<1>2. PICK l \in Latencies : millis' = millis + l
  BY DEF Lasts
<1> QED BY <1>1, <1>2

LEMMA CutKeeps ==
  ASSUME AsrIndInv, CutFile
  PROVE  AsrIndInv'
<1>1. /\ hearing \in [at : {"cut", "piece", "poll", "done", "failed"}, piece : Nat \ {0},
                      polls : Nat, deadline : Nat]
      /\ hearing.at = "cut" /\ hearing.polls = 0 /\ millis' \in Nat
      /\ UNCHANGED <<recording, heard, answered>>
  BY DEF CutFile, AsrIndInv, AsrTyped, PollsCost
<1>2. CASE hearing' = [hearing EXCEPT !.at = "piece"]
  <2>1. /\ hearing' \in [at : {"cut", "piece", "poll", "done", "failed"}, piece : Nat \ {0},
                         polls : Nat, deadline : Nat]
        /\ hearing'.piece = hearing.piece /\ hearing'.at = "piece" /\ hearing'.polls = 0
    BY <1>1, <1>2
  <2>2. PollsCost'
    BY <2>1 DEF PollsCost
  <2> QED BY <1>1, <2>1, <2>2, StaysInPiece
<1>3. CASE hearing' = [hearing EXCEPT !.at = "failed"]
  BY <1>1, <1>3, GivesUp
<1> QED BY <1>2, <1>3 DEF CutFile

LEMMA UploadKeeps ==
  ASSUME AsrIndInv, Upload
  PROVE  AsrIndInv'
<1>1. PICK now \in Nat : now = millis'
  BY LastsInTime DEF Upload
<1>2. /\ hearing \in [at : {"cut", "piece", "poll", "done", "failed"}, piece : Nat \ {0},
                      polls : Nat, deadline : Nat]
      /\ hearing.at = "piece" /\ hearing.polls = 0
  BY DEF Upload, AsrIndInv, AsrTyped, PollsCost
<1>3. CASE Gives("failed")
  BY <1>1, <1>2, <1>3, GivesUp DEF Gives
<1>4. CASE /\ hearing' = [hearing EXCEPT !.at = "poll", !.deadline = millis' + MaxPollMillis]
           /\ UNCHANGED <<recording, heard, answered>>
  <2>1. PICK until \in Nat : until = now + MaxPollMillis
    BY BackendConstants
  <2>2. hearing' = [hearing EXCEPT !.at = "poll", !.deadline = until]
    BY <1>1, <1>4, <2>1
  <2>3. /\ hearing' \in [at : {"cut", "piece", "poll", "done", "failed"}, piece : Nat \ {0},
                         polls : Nat, deadline : Nat]
        /\ hearing'.piece = hearing.piece /\ hearing'.at = "poll" /\ hearing'.polls = 0
        /\ hearing'.deadline = until
    BY <1>2, <2>2
  <2>4. now < until + PollMillis /\ until + 0 * PollMillis <= now + MaxPollMillis
    BY <2>1, BackendConstants
  <2>5. PollsCost'
    BY <1>1, <2>3, <2>4 DEF PollsCost
  <2> QED BY <1>1, <1>2, <1>4, <2>3, <2>5, StaysInPiece
<1> QED BY <1>3, <1>4 DEF Upload

LEMMA PollAgainKeeps ==
  ASSUME AsrIndInv, PollAgain
  PROVE  AsrIndInv'
<1>1. PICK l \in Latencies :
        \/ /\ millis + l >= hearing.deadline
           /\ millis' = millis + l
           /\ Gives("failed")
        \/ /\ millis + l < hearing.deadline
           /\ millis' = millis + l + PollMillis
           /\ hearing' = [hearing EXCEPT !.polls = @ + 1]
           /\ UNCHANGED <<recording, heard, answered>>
  BY DEF PollAgain
<1>2. /\ hearing \in [at : {"cut", "piece", "poll", "done", "failed"}, piece : Nat \ {0},
                      polls : Nat, deadline : Nat]
      /\ hearing.at = "poll" /\ millis \in Nat /\ l \in Nat
      /\ PollMillis \in Nat /\ MaxPollMillis \in Nat
  BY BackendConstants DEF PollAgain, AsrIndInv, AsrTyped
<1>3. CASE millis' = millis + l /\ Gives("failed")
  <2>1. millis' \in Nat
    BY <1>2, <1>3
  <2> QED BY <1>2, <1>3, <2>1, GivesUp DEF Gives
<1>4. CASE /\ millis + l < hearing.deadline
           /\ millis' = millis + l + PollMillis
           /\ hearing' = [hearing EXCEPT !.polls = @ + 1]
           /\ UNCHANGED <<recording, heard, answered>>
  <2>1. PICK p \in Nat : p = hearing.polls
    BY <1>2
  <2>2. PICK q \in Nat : q = p + 1
    OBVIOUS
  <2>3. PICK d \in Nat : d = hearing.deadline
    BY <1>2
  <2>4. PICK t \in Nat : t = millis
    BY <1>2
  <2>5. PICK u \in Nat : u = t + l + PollMillis
    BY <1>2
  <2>6. hearing' = [hearing EXCEPT !.polls = q]
    BY <1>4, <2>1, <2>2
  <2>7. /\ hearing' \in [at : {"cut", "piece", "poll", "done", "failed"}, piece : Nat \ {0},
                         polls : Nat, deadline : Nat]
        /\ hearing'.piece = hearing.piece /\ hearing'.at = "poll" /\ hearing'.polls = q
        /\ hearing'.deadline = d
    BY <1>2, <2>3, <2>6
  <2>8. d + p * PollMillis <= t + MaxPollMillis
    BY <1>2, <2>1, <2>3, <2>4 DEF AsrIndInv, PollsCost
  <2>9. q * PollMillis = p * PollMillis + PollMillis /\ p * PollMillis \in Nat
    BY <1>2, <2>2
  <2>10. d + q * PollMillis <= u + MaxPollMillis
    <3>1. PICK c \in Nat : c = p * PollMillis
      BY <2>9
    <3>2. q * PollMillis = c + PollMillis /\ d + c <= t + MaxPollMillis
      BY <2>8, <2>9, <3>1
    <3>3. d + (c + PollMillis) <= u + MaxPollMillis
      BY <1>2, <2>5, <3>2
    <3> QED BY <3>2, <3>3
  <2>11. u < d + PollMillis
    <3>1. t + l < d
      BY <1>4, <2>3, <2>4
    <3> QED BY <1>2, <2>5, <3>1
  <2>12. millis' = u
    BY <1>4, <2>4, <2>5
  <2>13. PollsCost'
    BY <2>7, <2>10, <2>11, <2>12 DEF PollsCost
  <2> QED BY <1>2, <1>4, <2>7, <2>12, <2>13, StaysInPiece
<1> QED BY <1>1, <1>3, <1>4

LEMMA PollResultKeeps ==
  ASSUME AsrIndInv, PollResult
  PROVE  AsrIndInv'
<1>1. PICK lattice \in Lattices :
        TakePiece("segments", Segments(lattice, hearing.piece),
                  Lasted(Segments(lattice, hearing.piece)))
  BY DEF PollResult
<1>2. PICK segments : segments = Segments(lattice, hearing.piece)
  OBVIOUS
<1>3. PICK k \in Nat \ {0} : k = hearing.piece /\ k <= Len(Pieces) /\ hearing.at = "poll"
  BY DEF PollResult, AsrIndInv, AsrTyped, InPieces
<1>4. /\ segments \in Seq(Segment) /\ EndTimes(segments) \in SUBSET Nat
      /\ \A i \in DOMAIN segments : segments[i].piece = k
      /\ \E b \in Nat : \A x \in EndTimes(segments) : x <= b
  <2>1. segments = Segments(lattice, k) /\ k \in Nat
    BY <1>2, <1>3
  <2> QED BY <2>1, SegmentsTyped
<1>5. PICK p \in Nat : p = Pieces[k]
  BY <1>3, PiecesTyped DEF AsrIndInv
<1>6. PICK b \in Nat : \A x \in EndTimes(segments) : x <= b
  BY <1>4
<1>7. PICK c \in Nat : \A x \in {p} \cup EndTimes(segments) : x <= c
  <2>1. CASE b <= p
    <3>1. \A x \in EndTimes(segments) : x \in Nat /\ x <= b
      BY <1>4, <1>6
    <3>2. \A x \in {p} \cup EndTimes(segments) : x <= p
      BY <2>1, <3>1
    <3> QED BY <3>2
  <2>2. CASE p <= b
    <3>1. \A x \in {p} \cup EndTimes(segments) : x <= b
      BY <1>6, <2>2
    <3> QED BY <3>1
  <2> QED BY <2>1, <2>2
<1>8. PICK lasted \in Nat : /\ lasted = Lasted(segments)
                            /\ \A x \in EndTimes(segments) : x <= lasted
  <2>1. {p} \cup EndTimes(segments) \in SUBSET Nat
    BY <1>4
  <2>2. /\ Longest({p} \cup EndTimes(segments)) \in Nat
        /\ \A x \in {p} \cup EndTimes(segments) : x <= Longest({p} \cup EndTimes(segments))
    BY <1>7, <2>1, LongestOf
  <2>3. Lasted(segments) = Longest({p} \cup EndTimes(segments))
    BY <1>3, <1>5 DEF Lasted
  <2> QED BY <2>2, <2>3
<1>9. \A i \in DOMAIN segments : segments[i].piece = hearing.piece /\ segments[i].end <= lasted
  BY <1>3, <1>4, <1>8 DEF EndTimes
<1>10. TakePiece("segments", segments, lasted)
  BY <1>1, <1>2, <1>8
<1>11. millis' \in Nat
  BY LastsInTime DEF PollResult
<1> QED BY <1>3, <1>4, <1>9, <1>10, <1>11, TakePieceKeeps

LEMMA PollSilentKeeps ==
  ASSUME AsrIndInv, PollSilent
  PROVE  AsrIndInv'
<1>1. PICK k \in Nat \ {0} : k = hearing.piece /\ k <= Len(Pieces) /\ hearing.at = "poll"
  BY DEF PollSilent, AsrIndInv, AsrTyped, InPieces
<1>2. Pieces[k] \in Nat /\ ChunkMillis \in Nat
  BY <1>1, PiecesTyped, BackendConstants DEF AsrIndInv
<1>3. PICK lasted \in Nat : lasted = IF Split THEN SilentFor ELSE Pieces[hearing.piece]
  BY <1>1, <1>2 DEF SilentFor
<1>4. TakePiece("silent", <<>>, lasted)
  BY <1>3 DEF PollSilent
<1>5. millis' \in Nat
  BY LastsInTime DEF PollSilent
<1>6. <<>> \in Seq(Segment) /\ \A i \in DOMAIN <<>> : FALSE
  OBVIOUS
<1> QED BY <1>1, <1>4, <1>5, <1>6, TakePieceKeeps

LEMMA PollFailsKeeps ==
  ASSUME AsrIndInv, PollFails
  PROVE  AsrIndInv'
<1>1. /\ hearing.at = "poll" /\ hearing' = [hearing EXCEPT !.at = "failed"]
      /\ UNCHANGED <<recording, heard, answered>>
  BY DEF PollFails, Gives
<1>2. millis' \in Nat
  BY LastsInTime DEF PollFails
<1> QED BY <1>1, <1>2, GivesUp

LEMMA RecognizeKeeps ==
  ASSUME AsrIndInv, Recognize
  PROVE  AsrIndInv'
<1>1. PICK k \in Nat \ {0} : k = hearing.piece /\ k <= Len(Pieces) /\ hearing.at = "piece"
  BY DEF Recognize, AsrIndInv, AsrTyped, InPieces
<1>2. PICK lasts \in Nat : lasts = Pieces[hearing.piece]
  BY <1>1, PiecesTyped DEF AsrIndInv
<1>3. millis' \in Nat
  BY LastsInTime DEF Recognize
<1>4. CASE Gives("failed")
  BY <1>1, <1>3, <1>4, GivesUp DEF Gives
<1>5. CASE TakePiece("silent", <<>>, lasts)
  <2>1. <<>> \in Seq(Segment) /\ \A i \in DOMAIN <<>> : FALSE
    OBVIOUS
  <2> QED BY <1>1, <1>3, <1>5, <2>1, TakePieceKeeps
<1>6. CASE TakePiece("segments",
                     <<[piece |-> hearing.piece, start |-> 0, end |-> lasts]>>, lasts)
  <2>1. PICK s \in Segment : s = [piece |-> hearing.piece, start |-> 0, end |-> lasts]
    BY <1>1 DEF Segment
  <2>2. /\ <<s>> \in Seq(Segment)
        /\ \A i \in DOMAIN <<s>> : <<s>>[i].piece = hearing.piece /\ <<s>>[i].end <= lasts
    <3>1. s.piece = hearing.piece /\ s.end = lasts /\ lasts <= lasts
      BY <2>1
    <3>2. <<s>> \in Seq(Segment) /\ \A i \in DOMAIN <<s>> : <<s>>[i] = s
      OBVIOUS
    <3> QED BY <3>1, <3>2
  <2>3. TakePiece("segments", <<s>>, lasts)
    BY <1>6, <2>1
  <2> QED BY <1>1, <1>3, <2>2, <2>3, TakePieceKeeps
<1> QED BY <1>2, <1>4, <1>5, <1>6 DEF Recognize

LEMMA AsrStarts ==
  ASSUME AsrInit
  PROVE  AsrIndInv
<1>1. PICK f \in Files : \E b \in {"xfyun", "baidu"} :
        recording = [total |-> f.total, chunks |-> f.chunks, backend |-> b]
  BY DEF AsrInit
<1>2. f.total \in Nat /\ f.chunks \in Seq(Nat) /\ f.chunks # <<>>
  BY BackendConstants
<1>3. recording.total = f.total /\ recording.chunks = f.chunks
  BY <1>1
<1>4. /\ hearing = [at |-> "cut", piece |-> 1, polls |-> 0, deadline |-> 0]
      /\ heard = [segments |-> <<>>, offset |-> 0] /\ answered = <<>> /\ millis = 0
  BY DEF AsrInit
<1>5. AsrTyped
  BY <1>2, <1>3, <1>4 DEF AsrTyped
<1>6. InPieces
  <2>1. Len(Pieces) \in Nat \ {0}
    BY <1>5, PiecesTyped
  <2> QED BY <1>4, <2>1 DEF InPieces
<1>7. heard.segments = <<>> /\ \A i \in DOMAIN heard.segments : FALSE
  BY <1>4
<1>8. SegmentsPlaced /\ SegmentsFollow
  BY <1>7 DEF SegmentsPlaced, SegmentsFollow
<1>9. PollsCost
  BY <1>4 DEF PollsCost
<1> QED BY <1>5, <1>6, <1>8, <1>9 DEF AsrIndInv

LEMMA AsrStep ==
  ASSUME AsrIndInv, [AsrNext]_asrVars
  PROVE  AsrIndInv'
<1>1. CASE UNCHANGED asrVars
  <2>1. UNCHANGED <<recording, hearing, heard, answered, millis>>
    BY <1>1 DEF asrVars
  <2>2. Pieces' = Pieces
    BY <2>1 DEF Pieces, Split
  <2> QED BY <2>1, <2>2 DEF AsrIndInv, AsrTyped, InPieces, SegmentsPlaced, SegmentsFollow, PollsCost
<1> QED BY <1>1, CutKeeps, UploadKeeps, PollResultKeeps, PollSilentKeeps, PollFailsKeeps,
           PollAgainKeeps, RecognizeKeeps DEF AsrNext

\* Where the duration lies.
LEMMA DurationReaches ==
  ASSUME AsrIndInv, NEW i \in DOMAIN heard.segments
  PROVE  heard.segments[i].end <= Duration
<1>1. heard.segments \in Seq(Segment) /\ recording.total \in Nat
  BY DEF AsrIndInv, AsrTyped
<1>2. PICK o \in Nat : o = heard.offset
  BY DEF AsrIndInv, AsrTyped
<1>3. \A j \in DOMAIN heard.segments : heard.segments[j].end \in Nat /\ heard.segments[j].end <= o
  <2> SUFFICES ASSUME NEW j \in DOMAIN heard.segments
               PROVE  heard.segments[j].end \in Nat /\ heard.segments[j].end <= o
    OBVIOUS
  <2>1. j \in 1..Len(heard.segments)
    BY <1>1
  <2>2. heard.segments[j] \in Segment
    BY <1>1, <2>1, ElementOfSeq, Zenon
  <2> QED BY <1>2, <2>2 DEF AsrIndInv, SegmentsPlaced, Segment
<1>4. PICK x \in Nat : x = heard.segments[i].end /\ x <= o
  BY <1>3
<1>5. PICK total \in Nat : total = recording.total
  BY <1>1
<1>6. PICK b \in Nat : total <= b /\ o <= b
  BY <1>2, <1>5
<1>7. Longest({total, o}) \in Nat /\ o <= Longest({total, o})
  <2>1. {total, o} \in SUBSET Nat /\ o \in {total, o} /\ \A y \in {total, o} : y <= b
    BY <1>6
  <2> QED BY <2>1, LongestOf
<1>8. /\ Longest({total} \cup EndTimes(heard.segments)) \in Nat
      /\ x <= Longest({total} \cup EndTimes(heard.segments))
  <2>1. EndTimes(heard.segments) \in SUBSET Nat /\ x \in EndTimes(heard.segments)
    BY <1>3, <1>4 DEF EndTimes
  <2>2. \A y \in EndTimes(heard.segments) : y \in Nat /\ y <= o
    BY <1>3 DEF EndTimes
  <2>3. \A y \in {total} \cup EndTimes(heard.segments) : y <= b
    BY <1>6, <2>2
  <2>4. {total} \cup EndTimes(heard.segments) \in SUBSET Nat
    BY <2>1
  <2> QED BY <2>1, <2>3, <2>4, LongestOf
<1>9. x <= Longest({total, o})
  BY <1>4, <1>7
<1> QED BY <1>2, <1>4, <1>5, <1>8, <1>9 DEF Duration

LEMMA AsrImplied ==
  ASSUME AsrIndInv
  PROVE  AsrInv
<1>1. AsrTypeOK
  BY DEF AsrIndInv, AsrTyped, AsrTypeOK
<1>2. NothingIsSkipped
  <2>1. ASSUME hearing.at = "done"
        PROVE  Len(answered) = Len(Pieces)
    <3>1. PICK n \in Nat : n = Len(Pieces)
      BY PiecesTyped DEF AsrIndInv
    <3> QED BY <2>1, <3>1 DEF AsrIndInv, AsrTyped, InPieces
  <2>2. \A k \in DOMAIN answered :
          answered[k] = "silent" =>
            \A i \in DOMAIN heard.segments : heard.segments[i].piece # k
    BY DEF AsrIndInv, SegmentsPlaced
  <2> QED BY <2>1, <2>2 DEF NothingIsSkipped
<1>3. PiecesFollow
  BY DurationReaches DEF AsrIndInv, SegmentsFollow, PiecesFollow
<1>4. PollingEnds
  <2> SUFFICES ASSUME hearing.at = "poll"
               PROVE  /\ millis < hearing.deadline + PollMillis
                      /\ hearing.polls * PollMillis < MaxPollMillis + PollMillis
    BY DEF PollingEnds
  <2>1. PICK p \in Nat : p = hearing.polls
    BY DEF AsrIndInv, AsrTyped
  <2>2. PICK d \in Nat : d = hearing.deadline
    BY DEF AsrIndInv, AsrTyped
  <2>3. PICK c \in Nat : c = p * PollMillis
    BY BackendConstants
  <2>4. millis < d + PollMillis /\ d + c <= millis + MaxPollMillis
    BY <2>1, <2>2, <2>3 DEF AsrIndInv, PollsCost
  <2>5. c < MaxPollMillis + PollMillis
    BY SMTT(20), <2>4, BackendConstants DEF AsrIndInv, AsrTyped
  <2> QED BY <2>1, <2>2, <2>3, <2>4, <2>5
<1> QED BY <1>1, <1>2, <1>3, <1>4, WindowsAlwaysCover DEF AsrInv

\* A transcript speaks for every piece in its order, within the duration of the
\* result, whatever the service answered; polling is bounded; and the windows of
\* Whisper leave nothing out, for every recording (backends.py).
THEOREM AsrKeeps == AsrSpec => []AsrInv
<1>1. AsrInit => AsrIndInv
  BY AsrStarts
<1>2. AsrIndInv /\ [AsrNext]_asrVars => AsrIndInv'
  BY AsrStep
<1>3. AsrIndInv => AsrInv
  BY AsrImplied
<1> QED BY <1>1, <1>2, <1>3, PTL DEF AsrSpec

=============================================================================
