------------------------- MODULE VideoTasks_proofs -------------------------
(***************************************************************************)
(* Proofs about the life of a video task, for every set of ids, requests   *)
(* and limits, for stores that fail and tools that panic.                  *)
(***************************************************************************)
EXTENDS VideoTasks, TaskTracker_proofs, FiniteSetTheorems

-----------------------------------------------------------------------------
(* What the pipeline writes into a task's output.                          *)

\* A map over some of the output keys, with a text under every text key and a
\* flag under every other, is an output.
LEMMA IsOutput ==
  ASSUME NEW K \in SUBSET OutputKeys, NEW o \in [K -> Texts \cup {"true", "false"}],
         \A k \in K : o[k] \in Texts <=> k \in TextKeys
  PROVE  o \in Outputs
BY VideoConstants

\* An output has texts under its text keys.
LEMMA OutputTexts ==
  ASSUME NEW o \in Outputs
  PROVE  /\ "formatted_text" \in DOMAIN o => o["formatted_text"] \in Texts
         /\ "raw_text" \in DOMAIN o => o["raw_text"] \in Texts
<1>1. \A k \in DOMAIN o : o[k] \in Texts <=> k \in TextKeys
  BY VideoConstants
<1> QED BY <1>1 DEF TextKeys

\* VideoProcessTextOutput at stage "transcribed": no formatted text yet.
LEMMA TranscribedIsOutput ==
  ASSUME NEW raw \in Texts
  PROVE  /\ TranscribedOutput(raw) \in Outputs
         /\ DOMAIN TranscribedOutput(raw) = OutputKeys \ {"formatted_text"}
         /\ TranscribedOutput(raw)["knowledge_indexed"] = "false"
<1> DEFINE o == TranscribedOutput(raw)
<1>1. /\ DOMAIN o = OutputKeys \ {"formatted_text"} /\ o["raw_text"] = raw
      /\ o \in [OutputKeys \ {"formatted_text"} -> Texts \cup {"true", "false"}]
      /\ \A k \in DOMAIN o \ {"raw_text"} : o[k] = "false"
      /\ o["knowledge_indexed"] = "false"
  BY DEF TranscribedOutput, OutputKeys, TextKeys, Texts
<1> HIDE DEF o
<1>2. o \in Outputs
  BY <1>1, IsOutput DEF OutputKeys, TextKeys, Texts
<1> QED BY <1>1, <1>2 DEF o

\* VideoProcessTextOutput at stage "formatted": text and its flag together.
LEMMA FormattedIsOutput ==
  ASSUME NEW x \in Texts
  PROVE  /\ FormattedOutput(x) \in Outputs
         /\ DOMAIN FormattedOutput(x) = OutputKeys \ {"raw_text"}
         /\ FormattedOutput(x)["formatted_text"] = x
         /\ FormattedOutput(x)["text_formatted"] = "true"
         /\ FormattedOutput(x)["knowledge_indexed"] = "false"
<1> DEFINE o == FormattedOutput(x)
<1>1. /\ DOMAIN o = OutputKeys \ {"raw_text"} /\ o["formatted_text"] = x
      /\ o["text_formatted"] = "true" /\ o["knowledge_indexed"] = "false"
      /\ o \in [OutputKeys \ {"raw_text"} -> Texts \cup {"true", "false"}]
  BY DEF FormattedOutput, OutputKeys, TextKeys, Texts
<1> HIDE DEF o
<1>2. o \in Outputs
  BY <1>1, IsOutput DEF OutputKeys, TextKeys, Texts
<1> QED BY <1>1, <1>2 DEF o

\* VideoProcessReadyTextOutput: what Complete stores has formatted text exactly
\* when the goroutine found some, and is not indexed.
LEMMA ReadyIsOutput ==
  ASSUME NEW t \in [raw : Texts, final : Texts, formatted : BOOLEAN]
  PROVE  /\ ReadyOutput(t) \in Outputs
         /\ "formatted_text" \in DOMAIN ReadyOutput(t) <=> t.formatted
         /\ ReadyOutput(t)["knowledge_indexed"] = "false"
<1>1. CASE ~t.formatted
  <2> DEFINE x == IF t.raw = "blank" THEN t.final ELSE t.raw
  <2>1. ReadyOutput(t) = TranscribedOutput(x) /\ x \in Texts
    BY <1>1 DEF ReadyOutput
  <2> HIDE DEF x
  <2> QED BY <1>1, <2>1, TranscribedIsOutput
<1>2. CASE t.formatted
  <2> DEFINE o == ReadyOutput(t)
             f == FormattedOutput(t.final)
             p == [k \in {"raw_text"} \ (IF t.raw = "blank" THEN {"raw_text"} ELSE {}) |-> t.raw]
  <2>1. o = Merge(p, f)
    BY <1>2 DEF ReadyOutput
  <2>2. /\ DOMAIN f = OutputKeys \ {"raw_text"} /\ f["formatted_text"] = t.final
        /\ f["text_formatted"] = "true" /\ f["knowledge_indexed"] = "false"
    BY FormattedIsOutput
  <2>3. DOMAIN p \subseteq {"raw_text"} /\ \A k \in DOMAIN p : p[k] = t.raw
    OBVIOUS
  <2> HIDE DEF f, p
  <2>4. /\ DOMAIN o = OutputKeys \/ DOMAIN o = OutputKeys \ {"raw_text"}
        /\ \A k \in DOMAIN o : o[k] = IF k = "raw_text" THEN t.raw ELSE f[k]
    BY <2>1, <2>2, <2>3 DEF Merge, OutputKeys, TextKeys
  <2> HIDE DEF o
  <2>5. /\ "raw_text" \in DOMAIN o => o["raw_text"] = t.raw
        /\ o["formatted_text"] = t.final
        /\ o["text_formatted"] = "true" /\ o["knowledge_indexed"] = "false"
    BY <2>2, <2>4 DEF OutputKeys, TextKeys
  <2>6. \A k \in DOMAIN o : o[k] \in Texts \cup {"true", "false"}
    BY <2>4, <2>5 DEF OutputKeys, TextKeys
  <2>7. o \in Outputs
    <3>1. o \in [DOMAIN o -> Texts \cup {"true", "false"}]
      <4>1. o = [k \in DOMAIN o |-> o[k]]
        BY <2>1 DEF Merge, o
      <4> QED BY <2>6, <4>1
    <3> QED BY <2>4, <2>5, <3>1, IsOutput DEF OutputKeys, TextKeys, Texts
  <2> QED BY <1>2, <2>4, <2>5, <2>7 DEF o, OutputKeys, TextKeys
<1> QED BY <1>1, <1>2

\* The patch of IndexTranscriptTask.
IndexedPatch == [k \in {"knowledge_indexed"} |-> "true"]

LEMMA IndexedIsOutput ==
  /\ IndexedPatch \in Outputs
  /\ DOMAIN IndexedPatch = {"knowledge_indexed"}
  /\ IndexedPatch["knowledge_indexed"] = "true"
<1>1. /\ DOMAIN IndexedPatch = {"knowledge_indexed"}
      /\ IndexedPatch["knowledge_indexed"] = "true"
      /\ IndexedPatch \in [{"knowledge_indexed"} -> Texts \cup {"true", "false"}]
  BY DEF IndexedPatch
<1>2. IndexedPatch \in Outputs
  BY <1>1, IsOutput DEF OutputKeys, TextKeys, Texts
<1> QED BY <1>1, <1>2

-----------------------------------------------------------------------------
(* The inductive invariant, and who may change a task.                     *)

\* What every step of the gateway preserves.
VideoIndInv ==
  /\ TrackerInv
  /\ VideoInv
  /\ EndedTaskSteps
  /\ KnowledgeFlagHonest
  /\ IsFiniteSet(Working)

\* The part of it that is not the tracker's own.
GatewayInv ==
  /\ VideoInv
  /\ EndedTaskSteps
  /\ KnowledgeFlagHonest
  /\ IsFiniteSet(Working)

\* Of what an actor can be: the main goroutine, a request, or a worker.
LEMMA ActorKinds ==
  /\ \A a \in Actors : a = Main \/ a \in Requests \/ a \in Ids
  /\ Main \notin Requests /\ Main \notin Ids
  /\ \A r \in Requests : r \in Actors /\ r \notin Ids /\ r # Main
  /\ \A id \in Ids : id \in Actors /\ id \notin Requests /\ id # Main
BY VideoConstants

\* The types, for use in the steps.
LEMMA Types ==
  ASSUME VideoIndInv
  PROVE  /\ up \in BOOLEAN /\ clock \in 0..MaxClock /\ used \subseteq Ids
         /\ IsTaskMap(tasks) /\ IsTaskMap(store)
         /\ DOMAIN tasks \subseteq Ids /\ DOMAIN store \subseteq Ids
         /\ \A id \in DOMAIN tasks : tasks[id] \in Task
         /\ \A id \in DOMAIN store : store[id] \in Task
         /\ DOMAIN saving = Actors
         /\ \A a \in Actors : /\ IsTaskMap(saving[a]) /\ DOMAIN saving[a] \subseteq Ids
                              /\ \A id \in DOMAIN saving[a] : saving[a][id] \in Task
         /\ deleting \in [Actors -> SUBSET Ids]
         /\ worker \in [Ids -> WorkerPCs] /\ slots \in Nat
         /\ text \in [Ids -> [raw : Texts, final : Texts, formatted : BOOLEAN]]
         /\ request \in [Requests -> [pc : {"idle", "submit", "index", "record"},
                                      task : Ids \cup {Main}, text : Texts]]
         /\ indexed \subseteq Ids \X Texts
<1>1. clock \in 0..MaxClock
  BY TrackerConstants DEF VideoIndInv, TrackerInv, TrackerTypeOK
<1> QED BY <1>1 DEF VideoIndInv, VideoInv, TypeOK, TrackerInv, TrackerTypeOK, IsTaskMap

\* The goroutine that runs a task is the only one that has a snapshot of it on
\* its way, so a call it makes finds none, and the task has not ended.
LEMMA WorkerOwns ==
  ASSUME VideoIndInv, NEW id \in Ids, worker[id] \notin {"off", "exit"}, Free(id)
  PROVE  id \in DOMAIN tasks /\ OwnerMay(id) /\ tasks[id].status \in {"pending", "running"}
<1>1. id \in DOMAIN tasks /\ AsReported(worker[id], tasks[id], text[id])
  BY DEF VideoIndInv, VideoInv, WorkIsReported
<1>2. tasks[id].status \in {"pending", "running"}
  BY <1>1 DEF AsReported
<1>3. ASSUME NEW a \in Actors, id \in DOMAIN saving[a] PROVE FALSE
  <2>1. CASE a = Main
    BY <1>3, <2>1, NoTasksMap DEF Free, Idle
  <2>2. CASE a \in Ids
    <3>1. a = id
      BY <1>3, <2>2 DEF VideoIndInv, VideoInv, SavesOwnTask
    <3> QED BY <1>3, <3>1, NoTasksMap DEF Free, Idle
  <2>3. CASE a \in Requests
    <3>1. \/ request[a].pc = "submit" /\ request[a].task = id
          \/ Terminal(saving[a][id].status)
      BY <1>3, <2>3 DEF VideoIndInv, VideoInv, SavesOwnTask
    <3>2. ~(request[a].pc = "submit" /\ request[a].task = id)
      BY <2>3 DEF VideoIndInv, VideoInv, SubmitsNewTask
    <3>3. saving[a][id].status = tasks[id].status
      BY <1>1, <1>3 DEF VideoIndInv, TrackerInv, SnapshotsAgree
    <3> QED BY <1>2, <3>1, <3>2, <3>3 DEF Terminal
  <2> QED BY <2>1, <2>2, <2>3, ActorKinds
<1> QED BY <1>1, <1>2, <1>3 DEF OwnerMay, Unsaved, Terminal

\* So is the request that submits a task, until it has handed it on.
LEMMA SubmitterOwns ==
  ASSUME VideoIndInv, NEW r \in Requests, request[r].pc = "submit", Free(r)
  PROVE  /\ request[r].task \in Ids /\ request[r].task \in DOMAIN tasks
         /\ OwnerMay(request[r].task) /\ tasks[request[r].task].status = "pending"
<1> DEFINE id == request[r].task
<1>1. id \in DOMAIN tasks /\ worker[id] = "off" /\ AsReported("start", tasks[id], text[id])
      /\ \A q \in Requests \ {r} : request[q].pc = "submit" => request[q].task # id
  BY DEF VideoIndInv, VideoInv, SubmitsNewTask
<1>2. id \in Ids
  BY <1>1, Types
<1>3. tasks[id].status = "pending"
  BY <1>1 DEF AsReported
<1>4. ASSUME NEW a \in Actors, id \in DOMAIN saving[a] PROVE FALSE
  <2>1. CASE a = Main
    BY <1>4, <2>1, NoTasksMap DEF Free, Idle
  <2>2. CASE a \in Ids
    <3>1. a = id
      BY <1>4, <2>2 DEF VideoIndInv, VideoInv, SavesOwnTask
    <3>2. saving[id] = NoTasks
      BY <1>1, <1>2 DEF VideoIndInv, VideoInv, SavesOwnTask
    <3> QED BY <1>4, <3>1, <3>2, NoTasksMap
  <2>3. CASE a \in Requests
    <3>1. CASE a = r
      BY <1>4, <3>1, NoTasksMap DEF Free, Idle
    <3>2. CASE a # r
      <4>1. \/ request[a].pc = "submit" /\ request[a].task = id
            \/ Terminal(saving[a][id].status)
        BY <1>4, <2>3 DEF VideoIndInv, VideoInv, SavesOwnTask
      <4>2. ~(request[a].pc = "submit" /\ request[a].task = id)
        BY <1>1, <2>3, <3>2
      <4>3. saving[a][id].status = tasks[id].status
        BY <1>1, <1>4 DEF VideoIndInv, TrackerInv, SnapshotsAgree
      <4> QED BY <1>3, <4>1, <4>2, <4>3 DEF Terminal
    <3> QED BY <3>1, <3>2
  <2> QED BY <2>1, <2>2, <2>3, ActorKinds
<1> QED BY <1>1, <1>2, <1>3, <1>4 DEF OwnerMay, Unsaved, Terminal

-----------------------------------------------------------------------------
(* The goroutine of a task reports.                                        *)

\* The goroutine of task id goes from one pc to another that it holds a slot at,
\* and leaves the slots alone.
LEMMA SlotsKept ==
  ASSUME VideoIndInv, NEW id \in Ids, NEW pc \in WorkerPCs \ {"off"}, worker[id] # "off",
         Goto(id, pc), slots' = slots
  PROVE  Working' = Working /\ SlotsMatchWorkers' /\ IsFiniteSet(Working)'
<1>1. worker \in [Ids -> WorkerPCs] /\ worker' = [worker EXCEPT ![id] = pc]
  BY Types DEF Goto
<1>2. Working' = Working
  BY <1>1 DEF Working
<1> QED BY <1>2 DEF VideoIndInv, VideoInv, SlotsMatchWorkers

\* A report replaces the task by one that is as the goroutine leaves it on its
\* way to pc, or, when it is about to exit, by one that has ended.
LEMMA ReportKeeps ==
  ASSUME VideoIndInv, TrackerInv', NEW id \in Ids, NEW pc \in WorkerPCs \ {"off"}, NEW task \in Task,
         worker[id] \notin {"off", "exit"},
         Update(id, id, task),
         Goto(id, pc),
         text' \in [Ids -> [raw : Texts, final : Texts, formatted : BOOLEAN]],
         \A x \in Ids \ {id} : text'[x] = text[x],
         UNCHANGED <<request, slots, indexed>>,
         IF pc = "exit" THEN Terminal(task.status) ELSE AsReported(pc, task, text'[id]),
         StepsTell(task), FlagHonest(id, task)
  PROVE  GatewayInv'
<1> USE DEF VideoIndInv, VideoInv
<1>1. Free(id) /\ id \in DOMAIN tasks /\ tasks[id].status \in {"pending", "running"}
  BY WorkerOwns DEF Update
<1>2. /\ up /\ saving[id] = NoTasks /\ deleting[id] = {}
      /\ tasks' = [tasks EXCEPT ![id] = task]
      /\ saving' = [saving EXCEPT ![id] = Put(NoTasks, id, task)]
      /\ UNCHANGED <<up, clock, used, store, deleting, lost>>
  BY <1>1 DEF Update, Free, Idle
<1>3. /\ DOMAIN tasks' = DOMAIN tasks /\ tasks'[id] = task
      /\ \A x \in DOMAIN tasks \ {id} : tasks'[x] = tasks[x]
  BY <1>1, <1>2
<1>4. /\ IsTaskMap(Put(NoTasks, id, task)) /\ DOMAIN Put(NoTasks, id, task) = {id}
      /\ Put(NoTasks, id, task)[id] = task
  BY OneTaskMap
<1>5. /\ DOMAIN saving' = Actors /\ DOMAIN saving'[id] = {id} /\ saving'[id][id] = task
      /\ \A b \in Actors \ {id} : saving'[b] = saving[b]
  BY <1>2, <1>4, Types, ActorKinds
<1>6. /\ worker' = [worker EXCEPT ![id] = pc] /\ worker'[id] = pc /\ DOMAIN worker' = Ids
      /\ \A x \in Ids \ {id} : worker'[x] = worker[x]
  BY Types DEF Goto
<1>7. TypeOK'
  BY <1>6, Types DEF TrackerInv, TypeOK
<1>8. SlotsMatchWorkers' /\ IsFiniteSet(Working)'
  BY SlotsKept
<1>9. WorkIsReported'
  <2>1. \A x \in Ids \ {id} : x \in DOMAIN tasks => tasks'[x] = tasks[x]
    BY <1>3
  <2> QED BY <1>1, <1>2, <1>3, <1>6, <2>1 DEF WorkIsReported
<1>10. SubmitsNewTask'
  <2>1. \A r \in Requests : request[r].pc = "submit" => request[r].task # id /\ request[r].task \in Ids
    BY Types DEF SubmitsNewTask
  <2> QED BY <1>2, <1>3, <1>6, <2>1 DEF SubmitsNewTask
<1>11. IndexesEndedTask'
  <2>1. \A r \in Requests : request[r].pc \in {"index", "record"} => request[r].task # id
    BY <1>1 DEF IndexesEndedTask, InKnowledge
  <2> QED BY <1>2, <1>3, <2>1 DEF IndexesEndedTask, InKnowledge
<1>12. SavesOwnTask'
  <2>1. \A x \in Ids : /\ DOMAIN saving'[x] \subseteq {x} /\ deleting'[x] = {}
                       /\ worker'[x] = "off" => saving'[x] = NoTasks
    BY <1>2, <1>5, <1>6, ActorKinds DEF SavesOwnTask
  <2>2. \A r \in Requests : saving'[r] = saving[r]
    BY <1>5, ActorKinds
  <2> QED BY <2>1, <2>2 DEF SavesOwnTask
<1>13. RecordsAreSound'
  BY <1>2, <1>5 DEF RecordsAreSound, FlagHonest, InKnowledge
<1>14. NoneWhileDown'
  BY <1>2 DEF NoneWhileDown
<1>15. EndedTaskSteps' /\ KnowledgeFlagHonest'
  BY <1>3 DEF EndedTaskSteps, KnowledgeFlagHonest, FlagHonest, InKnowledge
<1> QED BY <1>7, <1>8, <1>9, <1>10, <1>11, <1>12, <1>13, <1>14, <1>15 DEF GatewayInv

LEMMA ReportInv ==
  ASSUME VideoIndInv, NEW id \in Ids, NEW pc \in WorkerPCs \ {"off"}, NEW task \in Task,
         worker[id] \notin {"off", "exit"},
         Update(id, id, task),
         Goto(id, pc),
         text' \in [Ids -> [raw : Texts, final : Texts, formatted : BOOLEAN]],
         \A x \in Ids \ {id} : text'[x] = text[x],
         UNCHANGED <<request, slots, indexed>>,
         IF pc = "exit" THEN Terminal(task.status) ELSE AsReported(pc, task, text'[id]),
         StepsTell(task), FlagHonest(id, task)
  PROVE  VideoIndInv'
<1>1. TrackerInv /\ id \in Actors
  BY ActorKinds DEF VideoIndInv
<1>2. OwnerMay(id)
  BY WorkerOwns DEF Update
<1>3. TrackerInv'
  BY <1>1, <1>2, InvUpdate
<1>4. GatewayInv'
  BY <1>3, ReportKeeps
<1> QED BY <1>3, <1>4 DEF GatewayInv, VideoIndInv

\* The same for a task that runs on and shows no knowledge_indexed.
LEMMA RunningReport ==
  ASSUME VideoIndInv, NEW id \in Ids, NEW pc \in WorkerPCs \ {"off", "start", "exit"},
         NEW task \in Task,
         worker[id] \notin {"off", "exit"},
         Update(id, id, task),
         Goto(id, pc),
         text' \in [Ids -> [raw : Texts, final : Texts, formatted : BOOLEAN]],
         \A x \in Ids \ {id} : text'[x] = text[x],
         UNCHANGED <<request, slots, indexed>>,
         AsReported(pc, task, text'[id]),
         ~Flag(task.output, "knowledge_indexed")
  PROVE  VideoIndInv'
<1>1. StepsTell(task)
  BY DEF AsReported, StepsTell, Terminal
<1>2. FlagHonest(id, task)
  BY DEF FlagHonest, InKnowledge
<1> QED BY <1>1, <1>2, ReportInv

\* The task of a goroutine at work.
LEMMA TaskAtWork ==
  ASSUME VideoIndInv, NEW id \in Ids, worker[id] \notin {"off", "exit"}
  PROVE  /\ id \in DOMAIN tasks /\ tasks[id] \in Task
         /\ tasks[id].status \in TaskStatus /\ tasks[id].output \in Outputs
         /\ tasks[id].steps \in [Steps -> StepStatus]
         /\ tasks[id].finishedAt \in 0..MaxClock
         /\ AsReported(worker[id], tasks[id], text[id])
         /\ ~Flag(tasks[id].output, "knowledge_indexed")
         /\ text[id] \in [raw : Texts, final : Texts, formatted : BOOLEAN]
<1>1. id \in DOMAIN tasks /\ AsReported(worker[id], tasks[id], text[id])
  BY DEF VideoIndInv, VideoInv, WorkIsReported
<1>2. tasks[id] \in Task
  BY <1>1, Types
<1>3. ~Flag(tasks[id].output, "knowledge_indexed")
  BY <1>1 DEF VideoIndInv, KnowledgeFlagHonest, FlagHonest, InKnowledge, AsReported
<1> QED BY <1>1, <1>2, <1>3, Types DEF Task

\* The steps of the pipeline are the steps the tracker was given.
LEMMA StepNames ==
  /\ "download_audio" \in Steps /\ "transcribe_audio" \in Steps /\ "format_transcript" \in Steps
  /\ Steps = {"download_audio", "transcribe_audio", "format_transcript"}
BY VideoConstants

\* A task after updateStep.
LEMMA StepUpdated ==
  ASSUME NEW t \in Task, NEW s \in Steps, NEW v \in StepStatus
  PROVE  /\ [t EXCEPT !.steps[s] = v] \in Task
         /\ [t EXCEPT !.steps[s] = v].status = t.status
         /\ [t EXCEPT !.steps[s] = v].output = t.output
         /\ [t EXCEPT !.steps[s] = v].steps[s] = v
         /\ \A q \in Steps \ {s} : [t EXCEPT !.steps[s] = v].steps[q] = t.steps[q]
BY DEF Task

\* A task after PatchOutput.
LEMMA OutputPatched ==
  ASSUME NEW t \in Task, NEW p \in Outputs
  PROVE  /\ [t EXCEPT !.output = Merge(p, @)] \in Task
         /\ [t EXCEPT !.output = Merge(p, @)].status = t.status
         /\ [t EXCEPT !.output = Merge(p, @)].steps = t.steps
         /\ [t EXCEPT !.output = Merge(p, @)].output = Merge(p, t.output)
<1> DEFINE o == Merge(p, t.output)
<1>1. t.output \in Outputs
  BY DEF Task
<1>2. o \in Outputs
  BY <1>1, TrackerConstants
<1>3. [t EXCEPT !.output = Merge(p, @)] = [t EXCEPT !.output = o]
  OBVIOUS
<1> HIDE DEF o
<1>4. /\ [t EXCEPT !.output = o] \in Task /\ [t EXCEPT !.output = o].output = o
      /\ [t EXCEPT !.output = o].status = t.status /\ [t EXCEPT !.output = o].steps = t.steps
  BY <1>2 DEF Task
<1> QED BY <1>3, <1>4 DEF o

LEMMA InvBeginWork ==
  ASSUME VideoIndInv, NEW id \in Ids, BeginWork(id)
  PROVE  VideoIndInv'
<1> DEFINE t == tasks[id]
           task == [t EXCEPT !.status = "running"]
<1>1. worker[id] = "start" /\ Update(id, id, task) /\ Goto(id, "download_audio")
      /\ UNCHANGED <<request, text, slots, indexed>>
  BY DEF BeginWork, At, Start
<1>2. /\ t \in Task /\ AsReported("start", t, text[id])
      /\ ~Flag(t.output, "knowledge_indexed")
  BY <1>1, TaskAtWork
<1>3. /\ task \in Task /\ task.status = "running" /\ task.steps = t.steps
      /\ task.output = t.output
  BY <1>2 DEF Task, TaskStatus
<1> HIDE DEF task, t
<1>4. AsReported("download_audio", task, text'[id])
  BY <1>2, <1>3 DEF AsReported, DownloadAt, TranscribeAt, FormatAt
<1> QED BY <1>1, <1>2, <1>3, <1>4, RunningReport, Types DEF WorkerPCs

\* The reports of the pipeline's steps: UpdateStep, then on to pc.
LEMMA InvStepReport ==
  ASSUME VideoIndInv, NEW id \in Ids, NEW s \in Steps, NEW v \in StepStatus,
         NEW pc \in WorkerPCs \ {"off", "start", "exit"},
         worker[id] \notin {"off", "exit"}, UpdateStep(id, id, s, v), Goto(id, pc),
         text' \in [Ids -> [raw : Texts, final : Texts, formatted : BOOLEAN]],
         \A x \in Ids \ {id} : text'[x] = text[x],
         UNCHANGED <<request, slots, indexed>>,
         \A t \in Task : /\ t.status = tasks[id].status /\ t.output = tasks[id].output
                         /\ t.steps[s] = v
                         /\ \A q \in Steps \ {s} : t.steps[q] = tasks[id].steps[q]
                         => AsReported(pc, t, text'[id])
  PROVE  VideoIndInv'
<1> DEFINE task == [tasks[id] EXCEPT !.steps[s] = v]
<1>1. Update(id, id, task)
  BY DEF UpdateStep
<1>2. tasks[id] \in Task /\ ~Flag(tasks[id].output, "knowledge_indexed")
  BY TaskAtWork
<1>3. /\ task \in Task /\ task.status = tasks[id].status /\ task.output = tasks[id].output
      /\ task.steps[s] = v /\ \A q \in Steps \ {s} : task.steps[q] = tasks[id].steps[q]
  BY <1>2, StepUpdated
<1> HIDE DEF task
<1>4. AsReported(pc, task, text'[id])
  BY <1>3
<1> QED BY <1>1, <1>2, <1>3, <1>4, RunningReport

LEMMA InvStepStarted ==
  ASSUME VideoIndInv, NEW id \in Ids, NEW s \in {"download_audio", "transcribe_audio"},
         StepStarted(id, s)
  PROVE  VideoIndInv'
<1> DEFINE pc == IF s = "download_audio" THEN "downloading" ELSE "transcribing"
           task == [tasks[id] EXCEPT !.steps[s] = "running"]
<1>1. worker[id] = s /\ Update(id, id, task) /\ Goto(id, pc)
      /\ UNCHANGED <<request, text, slots, indexed>>
  BY DEF StepStarted, At, UpdateStep
<1>2. /\ AsReported(s, tasks[id], text[id]) /\ tasks[id] \in Task
      /\ ~Flag(tasks[id].output, "knowledge_indexed")
  BY <1>1, TaskAtWork
<1>3. /\ task \in Task /\ task.status = tasks[id].status /\ task.output = tasks[id].output
      /\ task.steps[s] = "running" /\ \A q \in Steps \ {s} : task.steps[q] = tasks[id].steps[q]
  <2>1. s \in Steps /\ "running" \in StepStatus /\ tasks[id] \in Task
    BY <1>2, StepNames DEF StepStatus
  <2> QED BY <2>1, StepUpdated
<1> HIDE DEF task
<1>4. AsReported(pc, task, text[id])
  BY <1>2, <1>3, StepNames DEF AsReported, DownloadAt, TranscribeAt, FormatAt
<1>5. pc \in WorkerPCs \ {"off", "start", "exit"} /\ s \notin {"off", "exit"}
  BY DEF WorkerPCs
<1> HIDE DEF pc
<1> QED BY <1>1, <1>2, <1>3, <1>4, <1>5, Types, RunningReport

LEMMA InvRequiredStepFails ==
  ASSUME VideoIndInv, NEW id \in Ids, NEW s \in {"download_audio", "transcribe_audio"},
         RequiredStepFails(id, s)
  PROVE  VideoIndInv'
<1> DEFINE from == IF s = "download_audio" THEN "downloading" ELSE "transcribing"
           task == [tasks[id] EXCEPT !.steps[s] = "failed"]
<1>1. worker[id] = from /\ Update(id, id, task) /\ Goto(id, "fail")
      /\ UNCHANGED <<request, text, slots, indexed>>
  BY DEF RequiredStepFails, At, UpdateStep
<1>2. /\ AsReported(from, tasks[id], text[id]) /\ tasks[id] \in Task
      /\ ~Flag(tasks[id].output, "knowledge_indexed")
  BY <1>1, TaskAtWork
<1>3. /\ task \in Task /\ task.status = tasks[id].status /\ task.output = tasks[id].output
      /\ task.steps[s] = "failed" /\ \A q \in Steps \ {s} : task.steps[q] = tasks[id].steps[q]
  <2>1. s \in Steps /\ "failed" \in StepStatus /\ tasks[id] \in Task
    BY <1>2, StepNames DEF StepStatus
  <2> QED BY <2>1, StepUpdated
<1> HIDE DEF task
<1>4. AsReported("fail", task, text[id])
  BY <1>2, <1>3, StepNames DEF AsReported, DownloadAt, TranscribeAt, FormatAt
<1>5. "fail" \in WorkerPCs \ {"off", "start", "exit"} /\ from \notin {"off", "exit"}
  BY DEF WorkerPCs
<1> HIDE DEF from
<1> QED BY <1>1, <1>2, <1>3, <1>4, <1>5, Types, RunningReport

LEMMA InvDownloadDone ==
  ASSUME VideoIndInv, NEW id \in Ids, DownloadDone(id)
  PROVE  VideoIndInv'
<1>1. worker[id] = "downloading" /\ UpdateStep(id, id, "download_audio", "done")
      /\ Goto(id, "transcribe_audio") /\ UNCHANGED <<request, text, slots, indexed>>
  BY DEF DownloadDone, At
<1>2. AsReported("downloading", tasks[id], text[id])
  BY <1>1, TaskAtWork
<1>3. ASSUME NEW t \in Task, t.status = tasks[id].status, t.output = tasks[id].output,
             t.steps["download_audio"] = "done",
             \A q \in Steps \ {"download_audio"} : t.steps[q] = tasks[id].steps[q]
      PROVE  AsReported("transcribe_audio", t, text[id])
  BY <1>2, <1>3, StepNames DEF AsReported, DownloadAt, TranscribeAt, FormatAt
<1>4. "done" \in StepStatus /\ "transcribe_audio" \in WorkerPCs \ {"off", "start", "exit"}
  BY DEF StepStatus, WorkerPCs
<1>5. /\ text' \in [Ids -> [raw : Texts, final : Texts, formatted : BOOLEAN]]
      /\ text' = text
  BY <1>1, Types
<1> QED BY <1>1, <1>3, <1>4, <1>5, StepNames, InvStepReport

LEMMA InvTranscribeDone ==
  ASSUME VideoIndInv, NEW id \in Ids, TranscribeDone(id)
  PROVE  VideoIndInv'
<1>1. worker[id] = "transcribing" /\ UpdateStep(id, id, "transcribe_audio", "done")
      /\ Goto(id, "transcribed") /\ UNCHANGED <<request, slots, indexed>>
  BY DEF TranscribeDone, At
<1>2. AsReported("transcribing", tasks[id], text[id])
  BY <1>1, TaskAtWork
<1>3. ASSUME NEW t \in Task, t.status = tasks[id].status, t.output = tasks[id].output,
             t.steps["transcribe_audio"] = "done",
             \A q \in Steps \ {"transcribe_audio"} : t.steps[q] = tasks[id].steps[q]
      PROVE  AsReported("transcribed", t, text'[id])
  BY <1>2, <1>3, StepNames DEF AsReported, DownloadAt, TranscribeAt, FormatAt
<1>4. "done" \in StepStatus /\ "transcribed" \in WorkerPCs \ {"off", "start", "exit"}
  BY DEF StepStatus, WorkerPCs
<1>5. PICK raw \in Texts :
        text' = [text EXCEPT ![id] = [raw |-> raw, final |-> raw, formatted |-> FALSE]]
  BY VideoConstants DEF TranscribeDone
<1>6. /\ text' \in [Ids -> [raw : Texts, final : Texts, formatted : BOOLEAN]]
      /\ \A x \in Ids \ {id} : text'[x] = text[x]
  BY <1>5, Types
<1> QED BY <1>1, <1>3, <1>4, <1>6, StepNames, InvStepReport

LEMMA InvFormatStarted ==
  ASSUME VideoIndInv, NEW id \in Ids, FormatStarted(id)
  PROVE  VideoIndInv'
<1>1. worker[id] = "format_transcript" /\ UpdateStep(id, id, "format_transcript", "running")
      /\ Goto(id, "formatting") /\ UNCHANGED <<request, text, slots, indexed>>
  BY DEF FormatStarted, At
<1>2. AsReported("format_transcript", tasks[id], text[id])
  BY <1>1, TaskAtWork
<1>3. ASSUME NEW t \in Task, t.status = tasks[id].status, t.output = tasks[id].output,
             t.steps["format_transcript"] = "running",
             \A q \in Steps \ {"format_transcript"} : t.steps[q] = tasks[id].steps[q]
      PROVE  AsReported("formatting", t, text[id])
  BY <1>2, <1>3, StepNames DEF AsReported, DownloadAt, TranscribeAt, FormatAt
<1>4. "running" \in StepStatus /\ "formatting" \in WorkerPCs \ {"off", "start", "exit"}
  BY DEF StepStatus, WorkerPCs
<1>5. /\ text' \in [Ids -> [raw : Texts, final : Texts, formatted : BOOLEAN]]
      /\ text' = text
  BY <1>1, Types
<1> QED BY <1>1, <1>3, <1>4, <1>5, StepNames, InvStepReport

LEMMA InvFormatGivesUp ==
  ASSUME VideoIndInv, NEW id \in Ids, FormatGivesUp(id)
  PROVE  VideoIndInv'
<1>1. PICK v \in {"skipped", "failed"} : UpdateStep(id, id, "format_transcript", v)
  BY DEF FormatGivesUp
<1>2. worker[id] \in {"format_transcript", "formatting"} /\ Goto(id, "finish")
      /\ UNCHANGED <<request, text, slots, indexed>>
  BY DEF FormatGivesUp, At
<1>3. AsReported(worker[id], tasks[id], text[id])
  BY <1>2, TaskAtWork
<1>4. ASSUME NEW t \in Task, t.status = tasks[id].status, t.output = tasks[id].output,
             t.steps["format_transcript"] = v,
             \A q \in Steps \ {"format_transcript"} : t.steps[q] = tasks[id].steps[q]
      PROVE  AsReported("finish", t, text[id])
  BY <1>1, <1>2, <1>3, <1>4, StepNames DEF AsReported, DownloadAt, TranscribeAt, FormatAt
<1>5. v \in StepStatus /\ "finish" \in WorkerPCs \ {"off", "start", "exit"}
  BY DEF StepStatus, WorkerPCs
<1>6. /\ text' \in [Ids -> [raw : Texts, final : Texts, formatted : BOOLEAN]]
      /\ text' = text
  BY <1>2, Types
<1> QED BY <1>1, <1>2, <1>4, <1>5, <1>6, StepNames, InvStepReport

LEMMA InvFormatDone ==
  ASSUME VideoIndInv, NEW id \in Ids, FormatDone(id)
  PROVE  VideoIndInv'
<1>1. worker[id] = "formatted" /\ UpdateStep(id, id, "format_transcript", "done")
      /\ Goto(id, "finish") /\ UNCHANGED <<request, text, slots, indexed>>
  BY DEF FormatDone, At
<1>2. AsReported("formatted", tasks[id], text[id])
  BY <1>1, TaskAtWork
<1>3. ASSUME NEW t \in Task, t.status = tasks[id].status, t.output = tasks[id].output,
             t.steps["format_transcript"] = "done",
             \A q \in Steps \ {"format_transcript"} : t.steps[q] = tasks[id].steps[q]
      PROVE  AsReported("finish", t, text[id])
  BY <1>2, <1>3, StepNames DEF AsReported, DownloadAt, TranscribeAt, FormatAt
<1>4. "done" \in StepStatus /\ "finish" \in WorkerPCs \ {"off", "start", "exit"}
  BY DEF StepStatus, WorkerPCs
<1>5. /\ text' \in [Ids -> [raw : Texts, final : Texts, formatted : BOOLEAN]]
      /\ text' = text
  BY <1>1, Types
<1> QED BY <1>1, <1>3, <1>4, <1>5, StepNames, InvStepReport

\* The publications: PatchOutput with a patch that sets knowledge_indexed to
\* false, then on to pc.
LEMMA InvPublish ==
  ASSUME VideoIndInv, NEW id \in Ids, NEW p \in Outputs,
         NEW pc \in WorkerPCs \ {"off", "start", "exit"},
         worker[id] \notin {"off", "exit"}, PatchOutput(id, id, p), Goto(id, pc),
         text' \in [Ids -> [raw : Texts, final : Texts, formatted : BOOLEAN]],
         \A x \in Ids \ {id} : text'[x] = text[x],
         UNCHANGED <<request, slots, indexed>>,
         "knowledge_indexed" \in DOMAIN p /\ p["knowledge_indexed"] = "false",
         \A t \in Task : /\ t.status = tasks[id].status /\ t.steps = tasks[id].steps
                         /\ t.output = Merge(p, tasks[id].output)
                         => AsReported(pc, t, text'[id])
  PROVE  VideoIndInv'
<1> DEFINE task == [tasks[id] EXCEPT !.output = Merge(p, @)]
<1>1. Update(id, id, task)
  BY DEF PatchOutput
<1>2. tasks[id] \in Task
  BY TaskAtWork
<1>3. /\ task \in Task /\ task.status = tasks[id].status /\ task.steps = tasks[id].steps
      /\ task.output = Merge(p, tasks[id].output)
  BY <1>2, OutputPatched
<1> HIDE DEF task
<1>4. AsReported(pc, task, text'[id])
  BY <1>3
<1>5. ~Flag(task.output, "knowledge_indexed")
  BY <1>3 DEF Flag, Merge
<1> QED BY <1>1, <1>3, <1>4, <1>5, RunningReport

LEMMA InvPublishTranscript ==
  ASSUME VideoIndInv, NEW id \in Ids, PublishTranscript(id)
  PROVE  VideoIndInv'
<1> DEFINE p == TranscribedOutput(text[id].raw)
<1>1. worker[id] = "transcribed" /\ PatchOutput(id, id, p)
      /\ Goto(id, "format_transcript") /\ UNCHANGED <<request, text, slots, indexed>>
  BY DEF PublishTranscript, At
<1>2. AsReported("transcribed", tasks[id], text[id]) /\ text[id].raw \in Texts
  BY <1>1, TaskAtWork
<1>3. /\ p \in Outputs /\ p["knowledge_indexed"] = "false"
      /\ DOMAIN p = OutputKeys \ {"formatted_text"}
  BY <1>2, TranscribedIsOutput
<1> HIDE DEF p
<1>4. "knowledge_indexed" \in DOMAIN p /\ "formatted_text" \notin DOMAIN p
  BY <1>3 DEF OutputKeys, TextKeys
<1>5. ASSUME NEW t \in Task, t.status = tasks[id].status, t.steps = tasks[id].steps,
             t.output = Merge(p, tasks[id].output)
      PROVE  AsReported("format_transcript", t, text[id])
  <2>1. "formatted_text" \notin DOMAIN tasks[id].output
    BY <1>2 DEF AsReported
  <2>2. "formatted_text" \notin DOMAIN t.output
    BY <1>4, <1>5, <2>1 DEF Merge
  <2> QED BY <1>2, <1>5, <2>2 DEF AsReported, DownloadAt, TranscribeAt, FormatAt
<1>6. "format_transcript" \in WorkerPCs \ {"off", "start", "exit"}
  BY DEF WorkerPCs
<1>7. text' \in [Ids -> [raw : Texts, final : Texts, formatted : BOOLEAN]] /\ text' = text
  BY <1>1, Types
<1> QED BY <1>1, <1>3, <1>4, <1>5, <1>6, <1>7, InvPublish

LEMMA InvPublishFormatted ==
  ASSUME VideoIndInv, NEW id \in Ids, PublishFormatted(id)
  PROVE  VideoIndInv'
<1> DEFINE new == FormattedBy(text[id].raw)
           p == FormattedOutput(new)
<1>1. worker[id] = "formatting" /\ PatchOutput(id, id, p)
      /\ text' = [text EXCEPT ![id].final = new]
      /\ Goto(id, "formatted") /\ UNCHANGED <<request, slots, indexed>>
  BY DEF PublishFormatted, At
<1>2. /\ AsReported("formatting", tasks[id], text[id])
      /\ text[id] \in [raw : Texts, final : Texts, formatted : BOOLEAN]
  BY <1>1, TaskAtWork
<1> HIDE DEF p
<1>3. new \in Texts /\ new # "blank"
  BY <1>2 DEF FormattedBy, Texts
<1> HIDE DEF new
<1>4. /\ p \in Outputs /\ p["knowledge_indexed"] = "false" /\ p["text_formatted"] = "true"
      /\ DOMAIN p = OutputKeys \ {"raw_text"} /\ p["formatted_text"] = new
  BY <1>3, FormattedIsOutput DEF p
<1>5. {"knowledge_indexed", "formatted_text", "text_formatted"} \subseteq DOMAIN p
  BY <1>4 DEF OutputKeys, TextKeys
<1>6. ASSUME NEW t \in Task, t.status = tasks[id].status, t.steps = tasks[id].steps,
             t.output = Merge(p, tasks[id].output)
      PROVE  AsReported("formatted", t, text'[id])
  <2>1. /\ "formatted_text" \in DOMAIN t.output /\ t.output["formatted_text"] # "blank"
        /\ Flag(t.output, "text_formatted")
    BY <1>3, <1>4, <1>5, <1>6 DEF Flag, Merge
  <2> QED BY <1>2, <1>6, <2>1 DEF AsReported, DownloadAt, TranscribeAt, FormatAt
<1>7. "formatted" \in WorkerPCs \ {"off", "start", "exit"}
  BY DEF WorkerPCs
<1>8. /\ text' \in [Ids -> [raw : Texts, final : Texts, formatted : BOOLEAN]]
      /\ \A x \in Ids \ {id} : text'[x] = text[x]
  BY <1>1, <1>3, Types
<1> QED BY <1>1, <1>4, <1>5, <1>6, <1>7, <1>8, InvPublish

\* Complete: what the goroutine found when it read the output back is what its
\* steps tell.
LEMMA InvWorkDone ==
  ASSUME VideoIndInv, NEW id \in Ids, WorkDone(id)
  PROVE  VideoIndInv'
<1> DEFINE o == ReadyOutput(text[id])
           task == [tasks[id] EXCEPT !.status = "done", !.output = o, !.finishedAt = clock]
<1>1. worker[id] = "complete" /\ Update(id, id, task) /\ Goto(id, "exit")
      /\ UNCHANGED <<request, text, slots, indexed>>
  BY DEF WorkDone, At, Complete
<1>2. /\ tasks[id] \in Task /\ AsReported("complete", tasks[id], text[id])
      /\ text[id] \in [raw : Texts, final : Texts, formatted : BOOLEAN]
  BY <1>1, TaskAtWork
<1>3. /\ o \in Outputs
      /\ "formatted_text" \in DOMAIN o <=> text[id].formatted
      /\ o["knowledge_indexed"] = "false"
  BY <1>2, ReadyIsOutput
<1> HIDE DEF o
<1>4. /\ task \in Task /\ task.status = "done" /\ task.steps = tasks[id].steps
      /\ task.output = o
  <2>1. clock \in 0..MaxClock /\ "done" \in TaskStatus
    BY Types DEF TaskStatus
  <2> QED BY <1>2, <1>3, <2>1 DEF Task
<1> HIDE DEF task
<1>5. StepsTell(task)
  BY <1>2, <1>3, <1>4, StepNames
     DEF AsReported, DownloadAt, TranscribeAt, FormatAt, StepsTell, TerminalStep
<1>6. FlagHonest(id, task)
  BY <1>3, <1>4 DEF FlagHonest, InKnowledge, Flag
<1>7. Terminal(task.status) /\ "exit" \in WorkerPCs \ {"off"}
  BY <1>4 DEF Terminal, WorkerPCs
<1>8. /\ text' \in [Ids -> [raw : Texts, final : Texts, formatted : BOOLEAN]]
      /\ text' = text
  BY <1>1, Types
<1> QED BY <1>1, <1>4, <1>5, <1>6, <1>7, <1>8, ReportInv

LEMMA InvWorkFailed ==
  ASSUME VideoIndInv, NEW id \in Ids, WorkFailed(id)
  PROVE  VideoIndInv'
<1> DEFINE task == [tasks[id] EXCEPT !.status = "failed", !.finishedAt = clock]
<1>1. worker[id] = "fail" /\ Update(id, id, task) /\ Goto(id, "exit")
      /\ UNCHANGED <<request, text, slots, indexed>>
  BY DEF WorkFailed, At, Fail
<1>2. /\ tasks[id] \in Task /\ AsReported("fail", tasks[id], text[id])
      /\ ~Flag(tasks[id].output, "knowledge_indexed")
  BY <1>1, TaskAtWork
<1>3. /\ task \in Task /\ task.status = "failed" /\ task.steps = tasks[id].steps
      /\ task.output = tasks[id].output
  BY <1>2, Types DEF Task, TaskStatus
<1> HIDE DEF task
<1>4. StepsTell(task)
  BY <1>2, <1>3, StepNames DEF AsReported, DownloadAt, TranscribeAt, FormatAt, StepsTell
<1>5. FlagHonest(id, task)
  BY <1>2, <1>3 DEF FlagHonest, InKnowledge
<1>6. Terminal(task.status) /\ "exit" \in WorkerPCs \ {"off"}
  BY <1>3 DEF Terminal, WorkerPCs
<1>7. /\ text' \in [Ids -> [raw : Texts, final : Texts, formatted : BOOLEAN]]
      /\ text' = text
  BY <1>1, Types
<1> QED BY <1>1, <1>3, <1>4, <1>5, <1>6, <1>7, ReportInv

-----------------------------------------------------------------------------
(* Steps of a goroutine that are no tracker call.                          *)

LEMMA InvReadBack ==
  ASSUME VideoIndInv, NEW id \in Ids, ReadBack(id)
  PROVE  VideoIndInv'
<1> USE DEF VideoIndInv, VideoInv
<1> DEFINE o == tasks[id].output
<1>1. worker[id] = "finish" /\ Goto(id, "complete")
      /\ UNCHANGED <<trackerVars, request, slots, indexed>>
  BY DEF ReadBack, At
<1>2. /\ id \in DOMAIN tasks /\ AsReported("finish", tasks[id], text[id]) /\ o \in Outputs
      /\ text[id] \in [raw : Texts, final : Texts, formatted : BOOLEAN]
  BY <1>1, TaskAtWork
<1> DEFINE found == TextOf(o, "formatted_text") # "blank" /\ Flag(o, "text_formatted")
           t == [raw |-> TextOf(o, "raw_text"), formatted |-> found,
                 final |-> IF found THEN TextOf(o, "formatted_text") ELSE text[id].final]
<1>3. text' = [text EXCEPT ![id] = t]
  BY <1>2 DEF ReadBack
<1>4. /\ "formatted_text" \in DOMAIN o => o["formatted_text"] \in Texts
      /\ "raw_text" \in DOMAIN o => o["raw_text"] \in Texts
  BY <1>2, OutputTexts
<1> HIDE DEF o
<1>5. /\ text' \in [Ids -> [raw : Texts, final : Texts, formatted : BOOLEAN]]
      /\ \A x \in Ids \ {id} : text'[x] = text[x]
      /\ text'[id].formatted <=> "formatted_text" \in DOMAIN o
  <2>1. TextOf(o, "raw_text") \in Texts /\ TextOf(o, "formatted_text") \in Texts
    BY <1>4 DEF TextOf, Texts
  <2>2. found \in BOOLEAN /\ t.formatted = found
    BY DEF Flag
  <2>3. t \in [raw : Texts, final : Texts, formatted : BOOLEAN]
    BY <1>2, <2>1, <2>2
  <2>4. "formatted_text" \in DOMAIN o => o["formatted_text"] # "blank" /\ Flag(o, "text_formatted")
    BY <1>2 DEF o, AsReported
  <2>5. found <=> "formatted_text" \in DOMAIN o
    BY <2>4 DEF TextOf
  <2> HIDE DEF t, found
  <2> QED BY <1>3, <2>2, <2>3, <2>5, Types
<1>6. AsReported("complete", tasks[id], text'[id])
  BY <1>2, <1>5 DEF o, AsReported, DownloadAt, TranscribeAt, FormatAt
<1>7. /\ worker' = [worker EXCEPT ![id] = "complete"] /\ worker'[id] = "complete"
      /\ DOMAIN worker' = Ids /\ \A x \in Ids \ {id} : worker'[x] = worker[x]
  BY <1>1, Types DEF Goto
<1>8. UNCHANGED <<up, clock, used, tasks, store, saving, deleting, lost, request, slots, indexed>>
  BY <1>1 DEF trackerVars
<1>9. TrackerInv'
  BY <1>1, InvStutter
<1>10. TypeOK'
  BY <1>5, <1>7, <1>8, <1>9, Types DEF TrackerInv, TypeOK, WorkerPCs
<1>11. SlotsMatchWorkers' /\ IsFiniteSet(Working)'
  BY <1>1, SlotsKept DEF WorkerPCs
<1>12. WorkIsReported'
  BY <1>1, <1>2, <1>5, <1>6, <1>7, <1>8 DEF WorkIsReported
<1>13. SubmitsNewTask'
  <2>1. \A r \in Requests : request[r].pc = "submit" => request[r].task # id /\ request[r].task \in Ids
    BY <1>1, Types DEF SubmitsNewTask
  <2> QED BY <1>5, <1>7, <1>8, <2>1 DEF SubmitsNewTask
<1>14. (IndexesEndedTask /\ RecordsAreSound)'
  BY <1>8 DEF IndexesEndedTask, RecordsAreSound, FlagHonest, InKnowledge
<1>15. (SavesOwnTask /\ NoneWhileDown)'
  BY <1>1, <1>7, <1>8 DEF SavesOwnTask, NoneWhileDown
<1>16. (EndedTaskSteps /\ KnowledgeFlagHonest)'
  BY <1>8 DEF EndedTaskSteps, KnowledgeFlagHonest, FlagHonest, InKnowledge
<1> QED BY <1>9, <1>10, <1>11, <1>12, <1>13, <1>14, <1>15, <1>16

\* The slot is given back by the goroutine that held it, and by no other.
LEMMA InvRelease ==
  ASSUME VideoIndInv, NEW id \in Ids, worker[id] # "off", Free(id), Release(id)
  PROVE  VideoIndInv'
<1> USE DEF VideoIndInv, VideoInv
<1>1. /\ worker' = [worker EXCEPT ![id] = "off"] /\ worker'[id] = "off"
      /\ DOMAIN worker' = Ids /\ \A x \in Ids \ {id} : worker'[x] = worker[x]
  BY Types DEF Release
<1>2. /\ text' = [text EXCEPT ![id] = NoText] /\ \A x \in Ids \ {id} : text'[x] = text[x]
      /\ text' \in [Ids -> [raw : Texts, final : Texts, formatted : BOOLEAN]]
  <2>1. NoText \in [raw : Texts, final : Texts, formatted : BOOLEAN]
    BY DEF NoText, Texts
  <2> QED BY <2>1, Types DEF Release
<1>3. UNCHANGED <<up, clock, used, tasks, store, saving, deleting, lost, request, indexed>>
  BY DEF Release, trackerVars
<1>4. TrackerInv'
  BY InvStutter DEF Release
<1>5. id \in Working /\ Working' = Working \ {id}
  BY <1>1 DEF Working
<1>6. /\ IsFiniteSet(Working') /\ Cardinality(Working) \in Nat /\ Cardinality(Working') \in Nat
      /\ Cardinality(Working') = Cardinality(Working) - 1
  <2>1. IsFiniteSet(Working) /\ IsFiniteSet(Working \ {id})
        /\ Cardinality(Working \ {id}) = Cardinality(Working) - 1
    BY <1>5, FS_RemoveElement
  <2>2. Cardinality(Working) \in Nat /\ Cardinality(Working \ {id}) \in Nat
    BY <2>1, FS_CardinalityType
  <2> QED BY <1>5, <2>1, <2>2
<1>7. slots' \in Nat /\ SlotsMatchWorkers'
  BY <1>6, Types, VideoConstants DEF Release, SlotsMatchWorkers
<1>8. TypeOK'
  BY <1>1, <1>2, <1>3, <1>4, <1>7, Types DEF TrackerInv, TypeOK, WorkerPCs
<1>9. WorkIsReported'
  BY <1>1, <1>2, <1>3 DEF WorkIsReported
<1>10. SubmitsNewTask'
  <2>1. \A r \in Requests : request[r].pc = "submit" => request[r].task # id /\ request[r].task \in Ids
    BY Types DEF SubmitsNewTask
  <2> QED BY <1>1, <1>2, <1>3, <2>1 DEF SubmitsNewTask
<1>11. (IndexesEndedTask /\ RecordsAreSound)'
  BY <1>3 DEF IndexesEndedTask, RecordsAreSound, FlagHonest, InKnowledge
<1>12. SavesOwnTask'
  BY <1>1, <1>3 DEF SavesOwnTask, Free, Idle
<1>13. NoneWhileDown'
  BY <1>1, <1>3 DEF NoneWhileDown, Free
<1>14. (EndedTaskSteps /\ KnowledgeFlagHonest)'
  BY <1>3 DEF EndedTaskSteps, KnowledgeFlagHonest, FlagHonest, InKnowledge
<1> QED BY <1>4, <1>6, <1>7, <1>8, <1>9, <1>10, <1>11, <1>12, <1>13, <1>14

\* Every step of a goroutine.
LEMMA InvWorkerStep ==
  ASSUME VideoIndInv, NEW id \in Ids, WorkerStep(id)
  PROVE  VideoIndInv'
<1>1. ASSUME WorkerExit(id) \/ WorkerPanic(id) PROVE VideoIndInv'
  BY <1>1, InvRelease DEF WorkerExit, WorkerPanic, At
<1> QED
  BY <1>1, InvBeginWork, InvStepStarted, InvRequiredStepFails, InvDownloadDone,
     InvTranscribeDone, InvPublishTranscript, InvFormatStarted, InvFormatGivesUp,
     InvPublishFormatted, InvFormatDone, InvReadBack, InvWorkDone, InvWorkFailed
  DEF WorkerStep

-----------------------------------------------------------------------------
(* Requests.                                                               *)

\* IdleRequest is a request, and has nothing to say about any task.
LEMMA IdleIsRequest ==
  /\ IdleRequest \in [pc : {"idle", "submit", "index", "record"},
                      task : Ids \cup {Main}, text : Texts]
  /\ IdleRequest.pc = "idle"
BY DEF IdleRequest, Texts

\* What a new task tells: nothing has been reported yet.
LEMMA NewTaskReports ==
  ASSUME NEW id, NEW x
  PROVE  /\ AsReported("start", NewTask, x) /\ StepsTell(NewTask) /\ FlagHonest(id, NewTask)
         /\ ~Terminal(NewTask.status)
<1>1. /\ NewTask.status = "pending" /\ \A s \in Steps : NewTask.steps[s] = "pending"
      /\ DOMAIN NewTask.output = {}
  BY DEF NewTask, EmptyOutput
<1> HIDE DEF NewTask
<1> QED BY <1>1, StepNames
        DEF AsReported, DownloadAt, TranscribeAt, FormatAt, StepsTell, FlagHonest, InKnowledge, Flag, Terminal

\* Create: pruning takes no task that is at work or about to be.
LEMMA InvSubmit ==
  ASSUME VideoIndInv, NEW r \in Requests, NEW id \in Ids, Submit(r, id)
  PROVE  VideoIndInv'
<1> USE DEF VideoIndInv, VideoInv
<1> DEFINE ts == Put(tasks, id, NewTask)
<1>1. /\ request[r].pc = "idle" /\ Create(r, id)
      /\ request' = [request EXCEPT ![r].pc = "submit", ![r].task = id]
      /\ UNCHANGED <<worker, text, slots, indexed>>
  BY DEF Submit
<1>2. PICK now, gone : /\ gone \in Prunings(ts, now)
                       /\ tasks' = Drop(ts, gone)
                       /\ deleting' = [deleting EXCEPT ![r] = gone]
  BY <1>1 DEF Create
<1>3. /\ Free(r) /\ up /\ id \notin used /\ used' = used \cup {id}
      /\ saving' = [saving EXCEPT ![r] = Put(NoTasks, id, NewTask)]
      /\ UNCHANGED <<up, clock, store, lost>>
  BY <1>1 DEF Create, Free
<1>4. TrackerInv'
  BY <1>1, ActorKinds, InvCreate
<1>5. /\ IsTaskMap(ts) /\ DOMAIN ts = DOMAIN tasks \cup {id} /\ ts[id] = NewTask
      /\ \A x \in DOMAIN tasks \ {id} : ts[x] = tasks[x]
  <2>1. IsTaskMap(tasks)
    BY Types
  <2> HIDE DEF ts
  <2>2. /\ IsTaskMap(Put(tasks, id, NewTask))
        /\ DOMAIN Put(tasks, id, NewTask) = DOMAIN tasks \cup {id}
        /\ Put(tasks, id, NewTask)[id] = NewTask
        /\ \A x \in DOMAIN tasks \ {id} : Put(tasks, id, NewTask)[x] = tasks[x]
    BY <2>1, NewTaskIsTask, PutMap
  <2> QED BY <2>2 DEF ts
<1> HIDE DEF ts
<1>6. gone \subseteq TerminalIds(ts)
  BY <1>2, <1>5, PruningsTerminal
<1>7. /\ DOMAIN tasks' = (DOMAIN tasks \cup {id}) \ gone
      /\ \A x \in DOMAIN tasks' : tasks'[x] = ts[x]
  <2>1. /\ DOMAIN Drop(ts, gone) = DOMAIN ts \ gone
        /\ \A x \in DOMAIN ts \ gone : Drop(ts, gone)[x] = ts[x]
    BY <1>5, DropMap
  <2> QED BY <1>2, <1>5, <2>1
<1>8. id \notin DOMAIN tasks /\ worker[id] = "off"
  BY <1>3 DEF TrackerInv, KnownIds, WorkIsReported
<1>9. /\ id \in DOMAIN tasks' /\ tasks'[id] = NewTask
      /\ \A x \in DOMAIN tasks' \ {id} : x \in DOMAIN tasks /\ tasks'[x] = tasks[x]
      /\ \A x \in DOMAIN tasks : ~Terminal(tasks[x].status) => x \in DOMAIN tasks'
  BY <1>5, <1>6, <1>7, <1>8, NewTaskReports DEF TerminalIds
<1>10. /\ DOMAIN saving' = Actors /\ DOMAIN saving'[r] = {id} /\ saving'[r][id] = NewTask
       /\ \A b \in Actors \ {r} : saving'[b] = saving[b]
  BY <1>3, OneTaskMap, NewTaskIsTask, Types, ActorKinds
<1>11. \A b \in Actors \ {r} : deleting'[b] = deleting[b]
  BY <1>2, Types
<1>12. /\ request'[r].pc = "submit" /\ request'[r].task = id
       /\ \A q \in Requests \ {r} : request'[q] = request[q]
       /\ request' \in [Requests -> [pc : {"idle", "submit", "index", "record"},
                                     task : Ids \cup {Main}, text : Texts]]
  BY <1>1, Types
<1>13. TypeOK'
  BY <1>1, <1>4, <1>12, Types DEF TrackerInv, TypeOK
<1>14. SlotsMatchWorkers' /\ IsFiniteSet(Working)'
  BY <1>1 DEF SlotsMatchWorkers, Working
<1>15. WorkIsReported'
  <2>1. \A x \in Ids : worker[x] \notin {"off", "exit"} =>
          x # id /\ x \in DOMAIN tasks /\ ~Terminal(tasks[x].status)
    BY <1>8 DEF WorkIsReported, AsReported, Terminal
  <2>2. \A x \in Ids : worker[x] # "off" => x # id
    BY <1>8
  <2> QED BY <1>1, <1>3, <1>9, <2>1, <2>2 DEF WorkIsReported
<1>16. SubmitsNewTask'
  <2>1. \A q \in Requests \ {r} : request[q].pc = "submit" =>
          /\ request[q].task # id /\ request[q].task \in DOMAIN tasks'
          /\ tasks'[request[q].task] = tasks[request[q].task]
    BY <1>8, <1>9 DEF SubmitsNewTask, AsReported, Terminal
  <2> QED BY <1>1, <1>8, <1>9, <1>12, <2>1, NewTaskReports DEF SubmitsNewTask
<1>17. IndexesEndedTask'
  <2> SUFFICES ASSUME NEW q \in Requests, request'[q].pc \in {"index", "record"}
               PROVE  /\ request'[q].task \in used'
                      /\ request'[q].task \in DOMAIN tasks' =>
                           /\ tasks'[request'[q].task].status = "done"
                           /\ "formatted_text" \in DOMAIN tasks'[request'[q].task].output
                           /\ tasks'[request'[q].task].output["formatted_text"] = request'[q].text
                      /\ request'[q].pc = "record" =>
                           (request'[q].text \in ChunkedTexts => <<request'[q].task, request'[q].text>> \in indexed')
    BY DEF IndexesEndedTask, InKnowledge
  <2>1. request'[q] = request[q]
    BY <1>12
  <2>2. request[q].task \in used /\ request[q].task # id
    BY <1>3, <2>1 DEF IndexesEndedTask, InKnowledge
  <2>3. request[q].task \in DOMAIN tasks' =>
          request[q].task \in DOMAIN tasks /\ tasks'[request[q].task] = tasks[request[q].task]
    BY <1>9, <2>2
  <2>4. /\ request[q].task \in DOMAIN tasks =>
             /\ tasks[request[q].task].status = "done"
             /\ "formatted_text" \in DOMAIN tasks[request[q].task].output
             /\ tasks[request[q].task].output["formatted_text"] = request[q].text
        /\ request[q].pc = "record" => InKnowledge(request[q].task, request[q].text)
    BY <2>1 DEF IndexesEndedTask, InKnowledge
  <2> DEFINE x == request[q].task
  <2>5. request'[q].task = x /\ x \in used'
    BY <1>3, <2>1, <2>2
  <2>6. x \in DOMAIN tasks' =>
             /\ tasks'[x].status = "done"
             /\ "formatted_text" \in DOMAIN tasks'[x].output
             /\ tasks'[x].output["formatted_text"] = request[q].text
    BY <2>3, <2>4
  <2>7. request'[q].pc = "record" => (request[q].text \in ChunkedTexts => <<x, request[q].text>> \in indexed')
    BY <1>1, <2>1, <2>4 DEF InKnowledge
  <2> QED BY <2>1, <2>5, <2>6, <2>7
<1>18. SavesOwnTask'
  <2>1. \A x \in Ids : saving'[x] = saving[x] /\ deleting'[x] = deleting[x]
    BY <1>10, <1>11, ActorKinds
  <2>2. \A q \in Requests \ {r} : saving'[q] = saving[q]
    BY <1>10, ActorKinds
  <2> QED BY <1>1, <1>10, <1>12, <2>1, <2>2 DEF SavesOwnTask
<1>19. RecordsAreSound'
  <2>1. \A x \in DOMAIN store : (StepsTell(store[x]) /\ FlagHonest(x, store[x]))'
    BY <1>1, <1>3 DEF RecordsAreSound, FlagHonest, InKnowledge
  <2>2. \A b \in Actors \ {r} :
          (\A x \in DOMAIN saving[b] : StepsTell(saving[b][x]) /\ FlagHonest(x, saving[b][x]))'
    BY <1>1, <1>10 DEF RecordsAreSound, FlagHonest, InKnowledge
  <2>3. (\A x \in DOMAIN saving[r] : StepsTell(saving[r][x]) /\ FlagHonest(x, saving[r][x]))'
    BY <1>1, <1>10, NewTaskReports DEF FlagHonest, InKnowledge
  <2> QED BY <1>3, <1>10, <2>1, <2>2, <2>3 DEF RecordsAreSound
<1>20. NoneWhileDown'
  BY <1>3 DEF NoneWhileDown
<1>21. (EndedTaskSteps /\ KnowledgeFlagHonest)'
  BY <1>1, <1>9, NewTaskReports DEF EndedTaskSteps, KnowledgeFlagHonest, FlagHonest, InKnowledge
<1> QED BY <1>4, <1>13, <1>14, <1>15, <1>16, <1>17, <1>18, <1>19, <1>20, <1>21

LEMMA InvListTasks ==
  ASSUME VideoIndInv, NEW r \in Requests, ListTasks(r)
  PROVE  VideoIndInv'
<1> USE DEF VideoIndInv, VideoInv
<1>1. List(r) /\ UNCHANGED <<request, worker, text, slots, indexed>>
  BY DEF ListTasks, gatewayVars
<1>2. PICK now, gone : /\ gone \in Prunings(tasks, now)
                       /\ tasks' = Drop(tasks, gone)
                       /\ deleting' = [deleting EXCEPT ![r] = gone]
  BY <1>1 DEF List
<1>3. up /\ UNCHANGED <<up, clock, used, store, saving, lost>>
  BY <1>1 DEF List, Free
<1>4. TrackerInv'
  BY <1>1, ActorKinds, InvList
<1>5. gone \subseteq TerminalIds(tasks)
  BY <1>2, Types, PruningsTerminal
<1>6. /\ DOMAIN tasks' = DOMAIN tasks \ gone
      /\ \A x \in DOMAIN tasks' : tasks'[x] = tasks[x]
  <2>1. IsTaskMap(tasks)
    BY Types
  <2>2. /\ DOMAIN Drop(tasks, gone) = DOMAIN tasks \ gone
        /\ \A x \in DOMAIN tasks \ gone : Drop(tasks, gone)[x] = tasks[x]
    BY <2>1, DropMap
  <2> QED BY <1>2, <2>2
<1>7. \A x \in DOMAIN tasks : ~Terminal(tasks[x].status) => x \in DOMAIN tasks'
  BY <1>5, <1>6 DEF TerminalIds
<1>8. \A b \in Actors \ {r} : deleting'[b] = deleting[b]
  BY <1>2, Types
<1>9. TypeOK'
  BY <1>1, <1>4, Types DEF TrackerInv, TypeOK
<1>10. (SlotsMatchWorkers /\ NoneWhileDown)' /\ IsFiniteSet(Working)'
  BY <1>1, <1>3 DEF SlotsMatchWorkers, Working, NoneWhileDown
<1>11. WorkIsReported'
  BY <1>1, <1>3, <1>6, <1>7 DEF WorkIsReported, AsReported, Terminal
<1>12. SubmitsNewTask'
  BY <1>1, <1>6, <1>7 DEF SubmitsNewTask, AsReported, Terminal
<1>13. (IndexesEndedTask /\ RecordsAreSound)'
  BY <1>1, <1>3, <1>6 DEF IndexesEndedTask, RecordsAreSound, FlagHonest, InKnowledge
<1>14. SavesOwnTask'
  BY <1>1, <1>3, <1>8, ActorKinds DEF SavesOwnTask
<1>15. (EndedTaskSteps /\ KnowledgeFlagHonest)'
  BY <1>1, <1>6 DEF EndedTaskSteps, KnowledgeFlagHonest, FlagHonest, InKnowledge
<1> QED BY <1>4, <1>9, <1>10, <1>11, <1>12, <1>13, <1>14, <1>15

\* Runner.Go hands the task from the request to the goroutine it starts.
LEMMA InvRunnerGo ==
  ASSUME VideoIndInv, NEW r \in Requests, RunnerGo(r)
  PROVE  VideoIndInv'
<1> USE DEF VideoIndInv, VideoInv
<1> DEFINE id == request[r].task
<1>1. /\ request[r].pc = "submit" /\ Free(r) /\ HasSlot
      /\ slots' = IF MaxConcurrent = 0 THEN slots ELSE slots + 1
      /\ worker' = [worker EXCEPT ![id] = "start"]
      /\ request' = [request EXCEPT ![r] = IdleRequest]
      /\ UNCHANGED <<trackerVars, text, indexed>>
  BY DEF RunnerGo
<1>2. /\ id \in Ids /\ id \in DOMAIN tasks /\ worker[id] = "off"
      /\ AsReported("start", tasks[id], text[id])
      /\ \A q \in Requests \ {r} : request[q].pc = "submit" => request[q].task # id
  BY <1>1, Types DEF SubmitsNewTask
<1> HIDE DEF id
<1>3. UNCHANGED <<up, clock, used, tasks, store, saving, deleting, lost, text, indexed>>
  BY <1>1 DEF trackerVars
<1>4. /\ worker'[id] = "start" /\ DOMAIN worker' = Ids
      /\ \A x \in Ids \ {id} : worker'[x] = worker[x]
  BY <1>1, <1>2, Types
<1>5. /\ request'[r] = IdleRequest /\ \A q \in Requests \ {r} : request'[q] = request[q]
      /\ request' \in [Requests -> [pc : {"idle", "submit", "index", "record"},
                                    task : Ids \cup {Main}, text : Texts]]
  BY <1>1, Types, IdleIsRequest
<1>6. TrackerInv'
  BY <1>1, InvStutter
<1>7. Working' = Working \cup {id} /\ id \notin Working
  BY <1>2, <1>4 DEF Working
<1>8. /\ IsFiniteSet(Working') /\ Cardinality(Working) \in Nat
      /\ Cardinality(Working') = Cardinality(Working) + 1
  BY <1>7, FS_AddElement, FS_CardinalityType
<1>9. slots' \in Nat /\ SlotsMatchWorkers'
  BY <1>1, <1>8, Types, VideoConstants DEF SlotsMatchWorkers, HasSlot
<1>10. TypeOK'
  BY <1>1, <1>2, <1>3, <1>5, <1>6, <1>9, Types DEF TrackerInv, TypeOK, WorkerPCs
<1>11. WorkIsReported'
  BY <1>2, <1>3, <1>4 DEF WorkIsReported, TrackerInv, KnownIds
<1>12. SubmitsNewTask'
  <2>1. \A q \in Requests : request'[q].pc = "submit" => q # r /\ request'[q] = request[q]
    BY <1>5, IdleIsRequest
  <2>2. \A q \in Requests : request[q].pc = "submit" => request[q].task \in Ids
    BY Types DEF SubmitsNewTask
  <2> QED BY <1>2, <1>3, <1>4, <1>5, <2>1, <2>2 DEF SubmitsNewTask
<1>13. IndexesEndedTask'
  <2>1. \A q \in Requests : request'[q].pc \in {"index", "record"} => request'[q] = request[q]
    BY <1>5, IdleIsRequest
  <2> QED BY <1>3, <2>1 DEF IndexesEndedTask, InKnowledge
<1>14. SavesOwnTask'
  <2>1. DOMAIN saving[r] = {}
    BY <1>1, NoTasksMap DEF Free, Idle
  <2> QED BY <1>3, <1>4, <1>5, <2>1 DEF SavesOwnTask
<1>15. (RecordsAreSound /\ NoneWhileDown)'
  BY <1>1, <1>3 DEF RecordsAreSound, FlagHonest, InKnowledge, NoneWhileDown, Free
<1>16. (EndedTaskSteps /\ KnowledgeFlagHonest)'
  BY <1>3 DEF EndedTaskSteps, KnowledgeFlagHonest, FlagHonest, InKnowledge
<1> QED BY <1>6, <1>8, <1>9, <1>10, <1>11, <1>12, <1>13, <1>14, <1>15, <1>16

\* A request replaces a task by one that has ended, and is done with it.
LEMMA EndReportKeeps ==
  ASSUME VideoIndInv, TrackerInv', NEW r \in Requests, NEW id \in Ids, NEW task,
         Update(r, id, task),
         request' = [request EXCEPT ![r] = IdleRequest],
         UNCHANGED <<worker, text, slots, indexed>>,
         id \in DOMAIN tasks =>
           /\ task \in Task /\ Terminal(task.status)
           /\ StepsTell(task) /\ FlagHonest(id, task)
           /\ worker[id] \in {"off", "exit"}
           /\ \A q \in Requests \ {r} :
                request[q].task = id =>
                  /\ request[q].pc # "submit"
                  /\ request[q].pc \in {"index", "record"} =>
                       /\ task.status = "done" /\ "formatted_text" \in DOMAIN task.output
                       /\ task.output["formatted_text"] = tasks[id].output["formatted_text"]
  PROVE  GatewayInv'
<1> USE DEF VideoIndInv, VideoInv
<1>1. /\ up /\ saving[r] = NoTasks /\ deleting[r] = {}
      /\ UNCHANGED <<up, clock, used, store, deleting, lost>>
  BY DEF Update, Free, Idle
<1>2. /\ DOMAIN tasks' = DOMAIN tasks /\ \A x \in DOMAIN tasks \ {id} : tasks'[x] = tasks[x]
      /\ id \in DOMAIN tasks => tasks'[id] = task
  BY DEF Update
<1>3. /\ DOMAIN saving' = Actors /\ \A b \in Actors \ {r} : saving'[b] = saving[b]
      /\ \A x \in DOMAIN saving'[r] : x = id /\ id \in DOMAIN tasks /\ saving'[r][x] = task
  <2>1. CASE id \notin DOMAIN tasks
    <3>1. saving' = saving /\ DOMAIN saving[r] = {}
      BY <1>1, <2>1, NoTasksMap DEF Update
    <3> QED BY <3>1, Types
  <2>2. CASE id \in DOMAIN tasks
    <3>1. saving' = [saving EXCEPT ![r] = Put(NoTasks, id, task)]
      BY <2>2 DEF Update
    <3>2. DOMAIN Put(NoTasks, id, task) = {id} /\ Put(NoTasks, id, task)[id] = task
      BY <2>2, OneTaskMap
    <3> QED BY <2>2, <3>1, <3>2, Types, ActorKinds
  <2> QED BY <2>1, <2>2
<1>4. /\ request'[r] = IdleRequest /\ \A q \in Requests \ {r} : request'[q] = request[q]
      /\ request' \in [Requests -> [pc : {"idle", "submit", "index", "record"},
                                    task : Ids \cup {Main}, text : Texts]]
  BY Types, IdleIsRequest
<1>5. TypeOK'
  BY <1>4, Types DEF TrackerInv, TypeOK
<1>6. (SlotsMatchWorkers /\ IsFiniteSet(Working) /\ NoneWhileDown)'
  BY <1>1 DEF SlotsMatchWorkers, Working, NoneWhileDown
<1>7. WorkIsReported'
  BY <1>1, <1>2 DEF WorkIsReported
<1>8. SubmitsNewTask'
  <2>1. \A q \in Requests : request'[q].pc = "submit" => q # r /\ request'[q] = request[q]
    BY <1>4, IdleIsRequest
  <2>2. \A q \in Requests \ {r} : request[q].pc = "submit" => request[q].task # id
    BY DEF SubmitsNewTask
  <2> QED BY <1>2, <1>4, <2>1, <2>2 DEF SubmitsNewTask
<1>9. IndexesEndedTask'
  <2> SUFFICES ASSUME NEW q \in Requests, request'[q].pc \in {"index", "record"}
               PROVE  /\ request'[q].task \in used'
                      /\ request'[q].task \in DOMAIN tasks' =>
                           /\ tasks'[request'[q].task].status = "done"
                           /\ "formatted_text" \in DOMAIN tasks'[request'[q].task].output
                           /\ tasks'[request'[q].task].output["formatted_text"] = request'[q].text
                      /\ request'[q].pc = "record" =>
                           (request'[q].text \in ChunkedTexts => <<request'[q].task, request'[q].text>> \in indexed')
    BY DEF IndexesEndedTask, InKnowledge
  <2> DEFINE x == request[q].task
  <2>1. q # r /\ request'[q] = request[q]
    BY <1>4, IdleIsRequest
  <2>2. /\ x \in used
        /\ x \in DOMAIN tasks =>
             /\ tasks[x].status = "done" /\ "formatted_text" \in DOMAIN tasks[x].output
             /\ tasks[x].output["formatted_text"] = request[q].text
        /\ request[q].pc = "record" => InKnowledge(x, request[q].text)
    BY <2>1 DEF IndexesEndedTask, InKnowledge
  <2>3. x \in DOMAIN tasks =>
             /\ tasks'[x].status = "done" /\ "formatted_text" \in DOMAIN tasks'[x].output
             /\ tasks'[x].output["formatted_text"] = request[q].text
    BY <1>2, <2>1, <2>2
  <2> QED BY <1>1, <1>2, <2>1, <2>2, <2>3 DEF InKnowledge
<1>10. SavesOwnTask'
  <2>1. \A x \in Ids : saving'[x] = saving[x] /\ deleting'[x] = deleting[x]
    BY <1>1, <1>3, ActorKinds
  <2>2. \A q \in Requests \ {r} : saving'[q] = saving[q] /\ request'[q] = request[q]
    BY <1>3, <1>4, ActorKinds
  <2>3. \A x \in DOMAIN saving'[r] : Terminal(saving'[r][x].status)
    BY <1>3
  <2> QED BY <2>1, <2>2, <2>3 DEF SavesOwnTask
<1>11. RecordsAreSound'
  <2>1. (\A x \in DOMAIN store : StepsTell(store[x]) /\ FlagHonest(x, store[x]))'
    BY <1>1 DEF RecordsAreSound, FlagHonest, InKnowledge
  <2>2. \A b \in Actors \ {r} :
          (\A x \in DOMAIN saving[b] : StepsTell(saving[b][x]) /\ FlagHonest(x, saving[b][x]))'
    BY <1>3 DEF RecordsAreSound, FlagHonest, InKnowledge
  <2>3. (\A x \in DOMAIN saving[r] : StepsTell(saving[r][x]) /\ FlagHonest(x, saving[r][x]))'
    BY <1>3 DEF FlagHonest, InKnowledge
  <2> QED BY <2>1, <2>2, <2>3 DEF RecordsAreSound
<1>12. (EndedTaskSteps /\ KnowledgeFlagHonest)'
  BY <1>2 DEF EndedTaskSteps, KnowledgeFlagHonest, FlagHonest, InKnowledge
<1> QED BY <1>5, <1>6, <1>7, <1>8, <1>9, <1>10, <1>11, <1>12 DEF GatewayInv

LEMMA InvRunnerFull ==
  ASSUME VideoIndInv, NEW r \in Requests, RunnerFull(r)
  PROVE  VideoIndInv'
<1> DEFINE id == request[r].task
           task == [tasks[id] EXCEPT !.status = "failed", !.finishedAt = clock]
<1>1. /\ request[r].pc = "submit" /\ Update(r, id, task)
      /\ request' = [request EXCEPT ![r] = IdleRequest]
      /\ UNCHANGED <<worker, text, slots, indexed>>
  BY DEF RunnerFull, Fail
<1>2. id \in Ids /\ id \in DOMAIN tasks /\ OwnerMay(id) /\ tasks[id] \in Task
  BY <1>1, SubmitterOwns, Types DEF Update
<1>3. /\ worker[id] = "off" /\ AsReported("start", tasks[id], text[id])
      /\ \A q \in Requests \ {r} : request[q].pc = "submit" => request[q].task # id
  BY <1>1 DEF VideoIndInv, VideoInv, SubmitsNewTask
<1>4. /\ task \in Task /\ task.status = "failed" /\ task.steps = tasks[id].steps
      /\ task.output = tasks[id].output
  BY <1>2, Types DEF Task, TaskStatus
<1>5. ~Flag(tasks[id].output, "knowledge_indexed")
  BY <1>2, <1>3 DEF VideoIndInv, KnowledgeFlagHonest, FlagHonest, InKnowledge, AsReported
<1>6. \A q \in Requests : request[q].pc \in {"index", "record"} => request[q].task # id
  BY <1>2, <1>3 DEF VideoIndInv, VideoInv, IndexesEndedTask, InKnowledge, AsReported
<1> HIDE DEF id, task
<1>7. StepsTell(task)
  BY <1>3, <1>4, StepNames DEF AsReported, DownloadAt, TranscribeAt, FormatAt, StepsTell
<1>8. FlagHonest(id, task) /\ Terminal(task.status)
  BY <1>4, <1>5 DEF FlagHonest, InKnowledge, Terminal
<1>9. TrackerInv'
  BY <1>1, <1>2, <1>4, ActorKinds, InvUpdate DEF VideoIndInv
<1>10. GatewayInv'
  BY <1>1, <1>2, <1>3, <1>4, <1>6, <1>7, <1>8, <1>9, EndReportKeeps
<1> QED BY <1>9, <1>10 DEF GatewayInv, VideoIndInv

\* The patch that records the indexing leaves status, steps and text alone, and
\* the text is the one that was indexed.
LEMMA InvIndexRecord ==
  ASSUME VideoIndInv, NEW r \in Requests, IndexRecord(r)
  PROVE  VideoIndInv'
<1> DEFINE id == request[r].task
           task == [tasks[id] EXCEPT !.output = Merge(IndexedPatch, @)]
<1>1. /\ request[r].pc = "record" /\ Update(r, id, task)
      /\ request' = [request EXCEPT ![r] = IdleRequest]
      /\ UNCHANGED <<worker, text, slots, indexed>>
  BY DEF IndexRecord, PatchOutput, IndexedPatch
<1>2. /\ id \in used /\ InKnowledge(id, request[r].text)
      /\ id \in DOMAIN tasks =>
           /\ tasks[id].status = "done"
           /\ "formatted_text" \in DOMAIN tasks[id].output
           /\ tasks[id].output["formatted_text"] = request[r].text
  BY <1>1 DEF VideoIndInv, VideoInv, IndexesEndedTask, InKnowledge
<1>3. id \in Ids
  BY <1>2, Types
<1>4. ASSUME id \in DOMAIN tasks
      PROVE  /\ task \in Task /\ task.status = "done" /\ task.steps = tasks[id].steps
             /\ "formatted_text" \in DOMAIN task.output <=> "formatted_text" \in DOMAIN tasks[id].output
             /\ "formatted_text" \in DOMAIN task.output
             /\ task.output["formatted_text"] = tasks[id].output["formatted_text"]
  <2>1. tasks[id] \in Task
    BY <1>4, Types
  <2>2. /\ task \in Task /\ task.status = tasks[id].status /\ task.steps = tasks[id].steps
        /\ task.output = Merge(IndexedPatch, tasks[id].output)
    BY <2>1, IndexedIsOutput, OutputPatched
  <2> HIDE DEF task
  <2> QED BY <1>2, <1>4, <2>2, IndexedIsOutput DEF Merge
<1>5. id \in DOMAIN tasks => worker[id] \in {"off", "exit"}
  BY <1>2, <1>3 DEF VideoIndInv, VideoInv, WorkIsReported, AsReported
<1>6. \A q \in Requests : request[q].pc = "submit" => request[q].task # id
  BY <1>2 DEF VideoIndInv, VideoInv, SubmitsNewTask, AsReported
<1> HIDE DEF id, task
<1>7. ASSUME id \in DOMAIN tasks
      PROVE  StepsTell(task) /\ FlagHonest(id, task) /\ Terminal(task.status)
  <2>1. StepsTell(tasks[id])
    BY <1>7 DEF VideoIndInv, EndedTaskSteps
  <2>2. StepsTell(task)
    BY <1>2, <1>4, <1>7, <2>1 DEF StepsTell, Terminal
  <2>3. FlagHonest(id, task)
    BY <1>2, <1>4, <1>7 DEF FlagHonest, InKnowledge
  <2> QED BY <1>4, <1>7, <2>2, <2>3 DEF Terminal
<1>8. TrackerInv'
  <2>1. id \in DOMAIN tasks => /\ task \in Task
                               /\ task.status = tasks[id].status /\ task.steps = tasks[id].steps
    BY <1>2, <1>4
  <2> QED BY <1>1, <1>3, <2>1, ActorKinds, InvUpdate DEF VideoIndInv
<1>9. GatewayInv'
  BY <1>1, <1>2, <1>3, <1>4, <1>5, <1>6, <1>7, <1>8, EndReportKeeps
<1> QED BY <1>8, <1>9 DEF GatewayInv, VideoIndInv

\* A request that reads, indexes or answers: the tracker, the goroutines and the
\* slots stay, and what was indexed stays indexed.
LEMMA RequestMoves ==
  ASSUME VideoIndInv, NEW r \in Requests, NEW new,
         request' = [request EXCEPT ![r] = new],
         new \in [pc : {"idle", "index", "record"}, task : Ids \cup {Main}, text : Texts],
         UNCHANGED <<trackerVars, worker, text, slots>>,
         indexed \subseteq indexed', indexed' \subseteq Ids \X Texts,
         request[r].pc # "submit",
         new.pc \in {"index", "record"} =>
           /\ new.task \in used
           /\ new.task \in DOMAIN tasks =>
                /\ tasks[new.task].status = "done"
                /\ "formatted_text" \in DOMAIN tasks[new.task].output
                /\ tasks[new.task].output["formatted_text"] = new.text
           /\ new.pc = "record" => (new.text \in ChunkedTexts => <<new.task, new.text>> \in indexed'),
         up
  PROVE  VideoIndInv'
<1> USE DEF VideoIndInv, VideoInv
<1>1. UNCHANGED <<up, clock, used, tasks, store, saving, deleting, lost>>
  BY DEF trackerVars
<1>2. /\ request'[r] = new /\ \A q \in Requests \ {r} : request'[q] = request[q]
      /\ request' \in [Requests -> [pc : {"idle", "submit", "index", "record"},
                                    task : Ids \cup {Main}, text : Texts]]
  BY Types
<1>3. TrackerInv'
  BY InvStutter
<1>4. TypeOK'
  BY <1>2, <1>3, Types DEF TrackerInv, TypeOK
<1>5. (SlotsMatchWorkers /\ IsFiniteSet(Working) /\ NoneWhileDown)'
  BY <1>1 DEF SlotsMatchWorkers, Working, NoneWhileDown
<1>6. WorkIsReported'
  BY <1>1 DEF WorkIsReported
<1>7. SubmitsNewTask'
  <2>1. \A q \in Requests : request'[q].pc = "submit" => q # r /\ request'[q] = request[q]
    BY <1>2
  <2> QED BY <1>1, <1>2, <2>1 DEF SubmitsNewTask
<1>8. IndexesEndedTask'
  <2> SUFFICES ASSUME NEW q \in Requests, request'[q].pc \in {"index", "record"}
               PROVE  /\ request'[q].task \in used'
                      /\ request'[q].task \in DOMAIN tasks' =>
                           /\ tasks'[request'[q].task].status = "done"
                           /\ "formatted_text" \in DOMAIN tasks'[request'[q].task].output
                           /\ tasks'[request'[q].task].output["formatted_text"] = request'[q].text
                      /\ request'[q].pc = "record" =>
                           (request'[q].text \in ChunkedTexts => <<request'[q].task, request'[q].text>> \in indexed')
    BY DEF IndexesEndedTask, InKnowledge
  <2>1. CASE q = r
    BY <1>1, <1>2, <2>1
  <2>2. CASE q # r
    BY <1>1, <1>2, <2>2 DEF IndexesEndedTask, InKnowledge
  <2> QED BY <2>1, <2>2
<1>9. SavesOwnTask'
  <2>1. \A x \in DOMAIN saving[r] : Terminal(saving[r][x].status)
    BY DEF SavesOwnTask
  <2> QED BY <1>1, <1>2, <2>1 DEF SavesOwnTask
<1>10. RecordsAreSound'
  BY <1>1 DEF RecordsAreSound, FlagHonest, InKnowledge
<1>11. (EndedTaskSteps /\ KnowledgeFlagHonest)'
  BY <1>1 DEF EndedTaskSteps, KnowledgeFlagHonest, FlagHonest, InKnowledge
<1> QED BY <1>3, <1>4, <1>5, <1>6, <1>7, <1>8, <1>9, <1>10, <1>11

LEMMA InvIndexCheck ==
  ASSUME VideoIndInv, NEW r \in Requests, NEW id \in Ids, IndexCheck(r, id)
  PROVE  VideoIndInv'
<1> DEFINE new == [pc |-> "index", task |-> id, text |-> tasks[id].output["formatted_text"]]
<1>1. /\ request[r].pc = "idle" /\ up /\ id \in DOMAIN tasks /\ tasks[id].status = "done"
      /\ "formatted_text" \in DOMAIN tasks[id].output
      /\ request' = [request EXCEPT ![r] = new]
      /\ UNCHANGED <<trackerVars, worker, text, slots, indexed>>
  BY DEF IndexCheck, Free, Indexable, TextOf
<1>2. tasks[id].output["formatted_text"] \in Texts
  BY <1>1, Types, OutputTexts DEF Task
<1>3. id \in used
  BY <1>1 DEF VideoIndInv, TrackerInv, KnownIds
<1>4. /\ new \in [pc : {"idle", "index", "record"}, task : Ids \cup {Main}, text : Texts]
      /\ new.pc = "index" /\ new.task = id /\ new.text = tasks[id].output["formatted_text"]
  BY <1>2
<1> HIDE DEF new
<1>5. indexed \subseteq indexed' /\ indexed' \subseteq Ids \X Texts
  BY <1>1, Types
<1>6. request[r].pc # "submit"
  BY <1>1
<1>7. new.pc \in {"index", "record"} =>
           /\ new.task \in used
           /\ new.task \in DOMAIN tasks =>
                /\ tasks[new.task].status = "done"
                /\ "formatted_text" \in DOMAIN tasks[new.task].output
                /\ tasks[new.task].output["formatted_text"] = new.text
           /\ new.pc = "record" => (new.text \in ChunkedTexts => <<new.task, new.text>> \in indexed')
  BY <1>1, <1>3, <1>4
<1> QED BY <1>1, <1>4, <1>5, <1>6, <1>7, RequestMoves

LEMMA InvIndexRun ==
  ASSUME VideoIndInv, NEW r \in Requests, IndexRun(r)
  PROVE  VideoIndInv'
<1> DEFINE id == request[r].task
           done == [request[r] EXCEPT !.pc = "record"]
<1>1. /\ request[r].pc = "index" /\ up
      /\ UNCHANGED <<trackerVars, worker, text, slots>>
      /\ \/ /\ indexed' = Stored(r)
            /\ request' = [request EXCEPT ![r].pc = "record"]
         \/ /\ indexed' \in {indexed, Stored(r)}
            /\ request' = [request EXCEPT ![r] = IdleRequest]
  BY DEF IndexRun, Free
<1>2. /\ id \in used
      /\ id \in DOMAIN tasks =>
           /\ tasks[id].status = "done"
           /\ "formatted_text" \in DOMAIN tasks[id].output
           /\ tasks[id].output["formatted_text"] = request[r].text
  BY <1>1 DEF VideoIndInv, VideoInv, IndexesEndedTask, InKnowledge
<1>3. id \in Ids /\ request[r].text \in Texts
  BY <1>2, Types
<1>4. indexed \subseteq indexed' /\ indexed' \subseteq Ids \X Texts
  BY <1>1, <1>3, Types DEF Stored
<1>5. CASE request' = [request EXCEPT ![r] = IdleRequest]
  <2>1. IdleRequest \in [pc : {"idle", "index", "record"}, task : Ids \cup {Main}, text : Texts]
    BY DEF IdleRequest, Texts
  <2> QED BY <1>1, <1>4, <1>5, <2>1, IdleIsRequest, RequestMoves
<1>6. CASE /\ indexed' = Stored(r)
           /\ request' = [request EXCEPT ![r].pc = "record"]
  <2>1. request' = [request EXCEPT ![r] = done]
    BY <1>6
  <2>2. /\ done \in [pc : {"idle", "index", "record"}, task : Ids \cup {Main}, text : Texts]
        /\ done.pc = "record" /\ done.task = id /\ done.text = request[r].text
    BY <1>3, Types
  <2> HIDE DEF done
  <2>3. done.pc \in {"index", "record"} =>
           /\ done.task \in used
           /\ done.task \in DOMAIN tasks =>
                /\ tasks[done.task].status = "done"
                /\ "formatted_text" \in DOMAIN tasks[done.task].output
                /\ tasks[done.task].output["formatted_text"] = done.text
           /\ done.pc = "record" => (done.text \in ChunkedTexts => <<done.task, done.text>> \in indexed')
    BY <1>2, <1>6, <2>2 DEF Stored
  <2>4. request[r].pc # "submit"
    BY <1>1
  <2> QED BY <1>1, <1>4, <2>1, <2>2, <2>3, <2>4, RequestMoves
<1> QED BY <1>1, <1>5, <1>6

\* Every step of a request.
LEMMA InvRequestStep ==
  ASSUME VideoIndInv, NEW r \in Requests, RequestStep(r)
  PROVE  VideoIndInv'
BY InvSubmit, InvIndexCheck, InvRunnerGo, InvRunnerFull, InvIndexRun, InvIndexRecord,
   InvListTasks
DEF RequestStep, SubmitStep

-----------------------------------------------------------------------------
(* The store, the crash, the restart and the clock.                        *)

\* A call of the store takes snapshots off the way, and makes no record that
\* was not one of them.
LEMMA StoreStepFacts ==
  ASSUME VideoIndInv, NEW a \in Actors, StoreStep(a)
  PROVE  /\ TrackerInv'
         /\ UNCHANGED <<up, clock, used, tasks>>
         /\ UNCHANGED <<request, worker, text, slots, indexed>>
         /\ \A b \in Actors : /\ DOMAIN saving'[b] \subseteq DOMAIN saving[b]
                              /\ \A x \in DOMAIN saving'[b] : saving'[b][x] = saving[b][x]
                              /\ saving[b] = NoTasks => saving'[b] = NoTasks
                              /\ deleting'[b] \subseteq deleting[b]
         /\ \A x \in DOMAIN store' : \/ x \in DOMAIN store /\ store'[x] = store[x]
                                     \/ \E b \in Actors : x \in DOMAIN saving[b]
                                                          /\ store'[x] = saving[b][x]
<1>1. UNCHANGED <<request, worker, text, slots, indexed>> /\ TrackerStoreStep(a)
  BY DEF StoreStep, gatewayVars
<1>2. TrackerInv
  BY DEF VideoIndInv
<1>3. ASSUME NEW id \in Ids, SaveTask(a, id)
      PROVE  /\ TrackerInv'
             /\ UNCHANGED <<up, clock, used, tasks>>
             /\ \A b \in Actors : /\ DOMAIN saving'[b] \subseteq DOMAIN saving[b]
                                  /\ \A x \in DOMAIN saving'[b] : saving'[b][x] = saving[b][x]
                                  /\ saving[b] = NoTasks => saving'[b] = NoTasks
                                  /\ deleting'[b] \subseteq deleting[b]
             /\ \A x \in DOMAIN store' : \/ x \in DOMAIN store /\ store'[x] = store[x]
                                         \/ x \in DOMAIN saving[a] /\ store'[x] = saving[a][x]
  <2> DEFINE task == saving[a][id]
  <2>1. /\ id \in DOMAIN saving[a]
        /\ saving' = [saving EXCEPT ![a] = Drop(saving[a], {id})]
        /\ store' = Put(store, id, task) \/ store' = store
        /\ UNCHANGED <<up, clock, used, tasks, deleting>>
    BY <1>3 DEF SaveTask
  <2>2. IsTaskMap(saving[a]) /\ IsTaskMap(store) /\ task \in Task
    BY <2>1, Types
  <2>3. /\ DOMAIN Drop(saving[a], {id}) = DOMAIN saving[a] \ {id}
        /\ \A x \in DOMAIN saving[a] \ {id} : Drop(saving[a], {id})[x] = saving[a][x]
    BY <2>2, DropMap
  <2>4. /\ DOMAIN saving'[a] = DOMAIN saving[a] \ {id}
        /\ \A x \in DOMAIN saving'[a] : saving'[a][x] = saving[a][x]
        /\ \A b \in Actors \ {a} : saving'[b] = saving[b]
    BY <2>1, <2>3, Types
  <2>5. saving[a] # NoTasks
    BY <2>1, NoTasksMap
  <2> HIDE DEF task
  <2>6. /\ DOMAIN Put(store, id, task) = DOMAIN store \cup {id}
        /\ Put(store, id, task)[id] = task
        /\ \A x \in DOMAIN store \ {id} : Put(store, id, task)[x] = store[x]
    BY <2>2, PutMap
  <2>7. \A x \in DOMAIN store' : \/ x \in DOMAIN store /\ store'[x] = store[x]
                                 \/ x \in DOMAIN saving[a] /\ store'[x] = saving[a][x]
    BY <2>1, <2>6 DEF task
  <2>8. TrackerInv'
    BY <1>2, <1>3, InvSaveTask
  <2> QED BY <2>1, <2>4, <2>5, <2>7, <2>8
<1>4. ASSUME DeleteTasks(a)
      PROVE  /\ TrackerInv'
             /\ UNCHANGED <<up, clock, used, tasks, saving>>
             /\ \A b \in Actors : deleting'[b] \subseteq deleting[b]
             /\ \A x \in DOMAIN store' : x \in DOMAIN store /\ store'[x] = store[x]
  <2> DEFINE D == deleting[a]
  <2>1. /\ deleting' = [deleting EXCEPT ![a] = {}]
        /\ store' = Drop(store, D) \/ store' = store
        /\ UNCHANGED <<up, clock, used, tasks, saving>>
    BY <1>4 DEF DeleteTasks
  <2>2. IsTaskMap(store)
    BY Types
  <2>3. \A b \in Actors : deleting'[b] \subseteq deleting[b]
    BY <2>1, Types
  <2> HIDE DEF D
  <2>4. /\ DOMAIN Drop(store, D) = DOMAIN store \ D
        /\ \A x \in DOMAIN store \ D : Drop(store, D)[x] = store[x]
    BY <2>2, DropMap
  <2>5. TrackerInv'
    BY <1>2, <1>4, InvDeleteTasks
  <2> QED BY <2>1, <2>3, <2>4, <2>5
<1>5. CASE \E id \in Ids : SaveTask(a, id)
  BY <1>1, <1>3, <1>5
<1>6. CASE DeleteTasks(a)
  BY <1>1, <1>4, <1>6
<1> QED BY <1>1, <1>5, <1>6 DEF TrackerStoreStep

LEMMA InvStoreStep ==
  ASSUME VideoIndInv, NEW a \in Actors, StoreStep(a)
  PROVE  VideoIndInv'
<1> USE DEF VideoIndInv, VideoInv
<1>1. /\ TrackerInv'
      /\ UNCHANGED <<up, clock, used, tasks>>
      /\ UNCHANGED <<request, worker, text, slots, indexed>>
  BY StoreStepFacts
<1>2. \A b \in Actors : /\ DOMAIN saving'[b] \subseteq DOMAIN saving[b]
                        /\ \A x \in DOMAIN saving'[b] : saving'[b][x] = saving[b][x]
                        /\ saving[b] = NoTasks => saving'[b] = NoTasks
                        /\ deleting'[b] \subseteq deleting[b]
  BY StoreStepFacts
<1>3. \A x \in DOMAIN store' : \/ x \in DOMAIN store /\ store'[x] = store[x]
                               \/ \E b \in Actors : x \in DOMAIN saving[b]
                                                    /\ store'[x] = saving[b][x]
  BY StoreStepFacts
<1>4. TypeOK'
  BY <1>1 DEF TrackerInv, TypeOK
<1>5. (SlotsMatchWorkers /\ IsFiniteSet(Working) /\ NoneWhileDown)'
  BY <1>1 DEF SlotsMatchWorkers, Working, NoneWhileDown
<1>6. (WorkIsReported /\ SubmitsNewTask /\ IndexesEndedTask)'
  BY <1>1 DEF WorkIsReported, SubmitsNewTask, IndexesEndedTask, InKnowledge
<1>7. SavesOwnTask'
  <2>1. \A x \in Ids : /\ DOMAIN saving'[x] \subseteq {x} /\ deleting'[x] = {}
                       /\ worker'[x] = "off" => saving'[x] = NoTasks
    BY <1>1, <1>2, ActorKinds DEF SavesOwnTask
  <2>2. \A r \in Requests : \A x \in DOMAIN saving'[r] :
          \/ request[r].pc = "submit" /\ request[r].task = x
          \/ Terminal(saving'[r][x].status)
    BY <1>2, ActorKinds DEF SavesOwnTask
  <2> QED BY <1>1, <2>1, <2>2 DEF SavesOwnTask
<1>8. RecordsAreSound'
  <2>1. (\A x \in DOMAIN store : StepsTell(store[x]) /\ FlagHonest(x, store[x]))'
    BY <1>1, <1>3 DEF RecordsAreSound, FlagHonest, InKnowledge
  <2>2. \A b \in Actors :
          (\A x \in DOMAIN saving[b] : StepsTell(saving[b][x]) /\ FlagHonest(x, saving[b][x]))'
    BY <1>1, <1>2 DEF RecordsAreSound, FlagHonest, InKnowledge
  <2> QED BY <2>1, <2>2 DEF RecordsAreSound
<1>9. (EndedTaskSteps /\ KnowledgeFlagHonest)'
  BY <1>1 DEF EndedTaskSteps, KnowledgeFlagHonest, FlagHonest, InKnowledge
<1> QED BY <1>1, <1>4, <1>5, <1>6, <1>7, <1>8, <1>9

LEMMA InvGatewayCrash ==
  ASSUME VideoIndInv, GatewayCrash
  PROVE  VideoIndInv'
<1> USE DEF VideoIndInv, VideoInv
<1>1. /\ Crash /\ tasks' = NoTasks /\ UNCHANGED <<clock, used, store, lost, indexed>>
      /\ saving' = [a \in Actors |-> NoTasks] /\ deleting' = [a \in Actors |-> {}]
      /\ request' = [r \in Requests |-> IdleRequest]
      /\ worker' = [id \in Ids |-> "off"]
      /\ text' = [id \in Ids |-> NoText]
      /\ slots' = 0
  BY DEF GatewayCrash, Crash
<1>2. TrackerInv'
  BY <1>1, InvCrash
<1>3. TypeOK'
  <2>1. NoText \in [raw : Texts, final : Texts, formatted : BOOLEAN] /\ "off" \in WorkerPCs
    BY DEF NoText, Texts, WorkerPCs
  <2> QED BY <1>1, <1>2, <2>1, Types, IdleIsRequest DEF TrackerInv, TypeOK
<1>4. Working' = {}
  BY <1>1 DEF Working
<1>5. SlotsMatchWorkers' /\ IsFiniteSet(Working)'
  BY <1>1, <1>4, FS_EmptySet, VideoConstants DEF SlotsMatchWorkers
<1>6. (WorkIsReported /\ SubmitsNewTask /\ IndexesEndedTask /\ NoneWhileDown)'
  BY <1>1, IdleIsRequest DEF WorkIsReported, SubmitsNewTask, IndexesEndedTask, InKnowledge, NoneWhileDown
<1>7. SavesOwnTask'
  BY <1>1, NoTasksMap, ActorKinds DEF SavesOwnTask
<1>8. RecordsAreSound'
  BY <1>1, NoTasksMap DEF RecordsAreSound, FlagHonest, InKnowledge
<1>9. (EndedTaskSteps /\ KnowledgeFlagHonest)'
  BY <1>1, NoTasksMap DEF EndedTaskSteps, KnowledgeFlagHonest
<1> QED BY <1>2, <1>3, <1>5, <1>6, <1>7, <1>8, <1>9

\* What a restart puts in the map has ended, and is as sound as its record.
LEMMA RestoredIsSound ==
  ASSUME VideoIndInv, NEW id \in DOMAIN store
  PROVE  /\ Terminal(RestoredTasks[id].status)
         /\ Terminal(store[id].status) => RestoredTasks[id] = store[id]
         /\ ~Terminal(store[id].status) => RestoredTasks[id].status = "failed"
         /\ StepsTell(RestoredTasks[id]) /\ FlagHonest(id, RestoredTasks[id])
<1> DEFINE t == store[id]
           i == Interrupted(t)
<1>1. StepsTell(t) /\ FlagHonest(id, t) /\ t \in Task
  BY Types DEF VideoIndInv, VideoInv, RecordsAreSound
<1>2. RestoredTasks[id] = IF Terminal(t.status) THEN t ELSE i
  BY DEF RestoredTasks
<1>3. ASSUME ~Terminal(t.status)
      PROVE  i.status = "failed" /\ StepsTell(i) /\ FlagHonest(id, i)
  <2>1. /\ i.status = "failed" /\ i.output = t.output
        /\ \A s \in Steps : i.steps[s] # "running"
    BY <1>1 DEF Interrupted, Task, TerminalStep
  <2>2. ~Flag(t.output, "knowledge_indexed")
    BY <1>1, <1>3 DEF FlagHonest, InKnowledge, Terminal
  <2> HIDE DEF i
  <2> QED BY <2>1, <2>2 DEF StepsTell, FlagHonest, InKnowledge
<1> HIDE DEF i
<1> QED BY <1>1, <1>2, <1>3 DEF Terminal

LEMMA InvGatewayRestart ==
  ASSUME VideoIndInv, GatewayRestart
  PROVE  VideoIndInv'
<1> USE DEF VideoIndInv, VideoInv
<1>1. /\ Restore /\ ~up /\ up' = TRUE /\ UNCHANGED <<clock, used, store, lost>>
      /\ UNCHANGED <<request, worker, text, slots, indexed>>
  BY DEF GatewayRestart, Restore, gatewayVars
<1>2. TrackerInv'
  BY <1>1, InvRestore
<1>3. /\ \A r \in Requests : request[r] = IdleRequest
      /\ \A id \in Ids : worker[id] = "off"
      /\ tasks = NoTasks /\ \A a \in Actors : saving[a] = NoTasks /\ deleting[a] = {}
  BY <1>1 DEF NoneWhileDown, TrackerInv, DownIsEmpty
<1>4. /\ \A id \in DOMAIN tasks' : id \in DOMAIN store /\ tasks'[id] = RestoredTasks[id]
      /\ \A id \in DOMAIN saving'[Main] :
           id \in DOMAIN store /\ saving'[Main][id] = RestoredTasks[id]
      /\ \A b \in Actors \ {Main} : saving'[b] = NoTasks /\ deleting'[b] = {}
  <2>1. IsTaskMap(RestoredTasks) /\ DOMAIN RestoredTasks = DOMAIN store
    BY RestoredMap
  <2>2. ASSUME NEW S
        PROVE  /\ DOMAIN Drop(RestoredTasks, S) = DOMAIN store \ S
               /\ \A id \in DOMAIN store \ S : Drop(RestoredTasks, S)[id] = RestoredTasks[id]
    BY <2>1, DropMap
  <2>3. CASE UNCHANGED <<tasks, saving, deleting>>
    BY <1>3, <2>3, NoTasksMap, TrackerConstants
  <2>4. CASE /\ \E gone \in Prunings(RestoredTasks, clock) :
                  /\ tasks' = Drop(RestoredTasks, gone)
                  /\ deleting' = [deleting EXCEPT ![Main] = gone]
             /\ saving' = [saving EXCEPT ![Main] = Drop(RestoredTasks, TerminalIds(store))]
    <3>1. PICK gone : /\ tasks' = Drop(RestoredTasks, gone)
                      /\ deleting' = [deleting EXCEPT ![Main] = gone]
      BY <2>4
    <3>2. saving'[Main] = Drop(RestoredTasks, TerminalIds(store))
          /\ \A b \in Actors \ {Main} : saving'[b] = saving[b]
      BY <2>4, Types, TrackerConstants
    <3>3. \A b \in Actors \ {Main} : deleting'[b] = deleting[b]
      BY <3>1, Types
    <3>4. \A id \in DOMAIN tasks' : id \in DOMAIN store /\ tasks'[id] = RestoredTasks[id]
      BY <2>2, <3>1
    <3>5. \A id \in DOMAIN saving'[Main] :
            id \in DOMAIN store /\ saving'[Main][id] = RestoredTasks[id]
      <4> DEFINE S == TerminalIds(store)
      <4>1. saving'[Main] = Drop(RestoredTasks, S)
        BY <3>2
      <4> HIDE DEF S
      <4>2. /\ DOMAIN Drop(RestoredTasks, S) = DOMAIN store \ S
            /\ \A id \in DOMAIN store \ S : Drop(RestoredTasks, S)[id] = RestoredTasks[id]
        BY <2>1, DropMap
      <4> QED BY <4>1, <4>2
    <3> QED BY <1>3, <3>2, <3>3, <3>4, <3>5
  <2> QED BY <1>1, <2>3, <2>4 DEF Restore
<1>5. TypeOK'
  BY <1>1, <1>2 DEF TrackerInv, TypeOK
<1>6. (SlotsMatchWorkers /\ IsFiniteSet(Working) /\ NoneWhileDown)'
  BY <1>1 DEF SlotsMatchWorkers, Working, NoneWhileDown
<1>7. (WorkIsReported /\ SubmitsNewTask /\ IndexesEndedTask)'
  BY <1>1, <1>3, IdleIsRequest DEF WorkIsReported, SubmitsNewTask, IndexesEndedTask, InKnowledge
<1>8. SavesOwnTask'
  BY <1>1, <1>3, <1>4, NoTasksMap, ActorKinds DEF SavesOwnTask
<1>9. RecordsAreSound'
  <2>1. (\A x \in DOMAIN store : StepsTell(store[x]) /\ FlagHonest(x, store[x]))'
    BY <1>1 DEF RecordsAreSound, FlagHonest, InKnowledge
  <2>2. \A b \in Actors \ {Main} :
          (\A x \in DOMAIN saving[b] : StepsTell(saving[b][x]) /\ FlagHonest(x, saving[b][x]))'
    BY <1>4, NoTasksMap
  <2>3. (\A x \in DOMAIN saving[Main] :
           StepsTell(saving[Main][x]) /\ FlagHonest(x, saving[Main][x]))'
    BY <1>1, <1>4, RestoredIsSound DEF FlagHonest, InKnowledge
  <2> QED BY <2>1, <2>2, <2>3 DEF RecordsAreSound
<1>10. (EndedTaskSteps /\ KnowledgeFlagHonest)'
  BY <1>1, <1>4, RestoredIsSound DEF EndedTaskSteps, KnowledgeFlagHonest, FlagHonest, InKnowledge
<1> QED BY <1>2, <1>5, <1>6, <1>7, <1>8, <1>9, <1>10

\* Steps that change nothing but the clock.
LEMMA InvQuiet ==
  ASSUME VideoIndInv, UNCHANGED gatewayVars, Tick \/ UNCHANGED trackerVars
  PROVE  VideoIndInv'
<1> USE DEF VideoIndInv, VideoInv
<1>1. /\ UNCHANGED <<up, used, tasks, store, saving, deleting, lost>>
      /\ UNCHANGED <<request, worker, text, slots, indexed>>
  BY DEF Tick, trackerVars, gatewayVars
<1>2. TrackerInv'
  BY InvTick, InvStutter
<1>3. TypeOK'
  BY <1>1, <1>2 DEF TrackerInv, TypeOK
<1>4. (SlotsMatchWorkers /\ IsFiniteSet(Working) /\ NoneWhileDown)'
  BY <1>1 DEF SlotsMatchWorkers, Working, NoneWhileDown
<1>5. (WorkIsReported /\ SubmitsNewTask /\ IndexesEndedTask /\ SavesOwnTask)'
  BY <1>1 DEF WorkIsReported, SubmitsNewTask, IndexesEndedTask, InKnowledge, SavesOwnTask
<1>6. (RecordsAreSound /\ EndedTaskSteps /\ KnowledgeFlagHonest)'
  BY <1>1 DEF RecordsAreSound, EndedTaskSteps, KnowledgeFlagHonest, FlagHonest, InKnowledge
<1> QED BY <1>2, <1>3, <1>4, <1>5, <1>6

-----------------------------------------------------------------------------
(* The invariant holds.                                                    *)

LEMMA VideoInit == Init => VideoIndInv
<1> SUFFICES ASSUME Init PROVE VideoIndInv
  OBVIOUS
<1>1. /\ TrackerInit /\ tasks = NoTasks /\ store = NoTasks /\ up
      /\ saving = [a \in Actors |-> NoTasks] /\ deleting = [a \in Actors |-> {}]
      /\ request = [r \in Requests |-> IdleRequest] /\ worker = [id \in Ids |-> "off"]
      /\ text = [id \in Ids |-> NoText] /\ slots = 0 /\ indexed = {}
  BY DEF Init, TrackerInit
<1>2. TrackerInv
  BY <1>1, InvInit
<1>3. TypeOK
  <2>1. NoText \in [raw : Texts, final : Texts, formatted : BOOLEAN] /\ "off" \in WorkerPCs
    BY DEF NoText, Texts, WorkerPCs
  <2> QED BY <1>1, <1>2, <2>1, IdleIsRequest DEF TrackerInv, TypeOK
<1>4. Working = {}
  BY <1>1 DEF Working
<1>5. SlotsMatchWorkers /\ IsFiniteSet(Working)
  BY <1>1, <1>4, FS_EmptySet, VideoConstants DEF SlotsMatchWorkers
<1>6. WorkIsReported /\ SubmitsNewTask /\ IndexesEndedTask /\ NoneWhileDown
  BY <1>1, IdleIsRequest DEF WorkIsReported, SubmitsNewTask, IndexesEndedTask, InKnowledge, NoneWhileDown
<1>7. SavesOwnTask /\ RecordsAreSound
  BY <1>1, NoTasksMap, ActorKinds DEF SavesOwnTask, RecordsAreSound
<1>8. EndedTaskSteps /\ KnowledgeFlagHonest
  BY <1>1, NoTasksMap DEF EndedTaskSteps, KnowledgeFlagHonest
<1> QED BY <1>2, <1>3, <1>5, <1>6, <1>7, <1>8 DEF VideoIndInv, VideoInv

LEMMA VideoNext == VideoIndInv /\ [Next]_vars => VideoIndInv'
<1> SUFFICES ASSUME VideoIndInv, [Next]_vars PROVE VideoIndInv'
  OBVIOUS
<1>1. CASE \E id \in Ids : WorkerStep(id)
  BY <1>1, InvWorkerStep
<1>2. CASE \E r \in Requests : RequestStep(r)
  BY <1>2, InvRequestStep
<1>3. CASE \E a \in Actors : StoreStep(a)
  BY <1>3, InvStoreStep
<1>4. CASE GatewayCrash
  BY <1>4, InvGatewayCrash
<1>5. CASE GatewayRestart
  BY <1>5, InvGatewayRestart
<1>6. CASE Passing
  BY <1>6, InvQuiet DEF Passing
<1>7. CASE UNCHANGED vars
  BY <1>7, InvQuiet DEF vars
<1> QED BY <1>1, <1>2, <1>3, <1>4, <1>5, <1>6, <1>7 DEF Next

\* Slots, goroutines, requests, records and tasks fit together in every state
\* of the gateway, also while calls of the store are late and after a crash.
THEOREM VideoInvariant == Spec => []VideoInv
<1>1. VideoIndInv => VideoInv
  BY DEF VideoIndInv
<1> QED BY VideoInit, VideoNext, <1>1, PTL DEF Spec

\* The steps of a task that ended tell how it ended (the observer of
\* ExecuteVideoProcessWithObserver, completeVideoProcessOutput, restore).
THEOREM EndedTasksTell == Spec => []EndedTaskSteps
<1>1. VideoIndInv => EndedTaskSteps
  BY DEF VideoIndInv
<1> QED BY VideoInit, VideoNext, <1>1, PTL DEF Spec

\* A task that says knowledge_indexed is done and the knowledge base has its
\* text, though IndexTranscriptTask patches a task it read long before.
THEOREM IndexedTasksHonest == Spec => []KnowledgeFlagHonest
<1>1. VideoIndInv => KnowledgeFlagHonest
  BY DEF VideoIndInv
<1> QED BY VideoInit, VideoNext, <1>1, PTL DEF Spec

-----------------------------------------------------------------------------
(* What the steps of the gateway are to the tracker.                       *)

\* A call by a that replaces the tracked task id: its status goes forward as
\* the pipeline goes, and it keeps saying that it is indexed if it did.
Reports(a, id, task) ==
  /\ Update(a, id, task)
  /\ id \in DOMAIN tasks
  /\ \/ task.status = tasks[id].status
     \/ tasks[id].status = "pending" /\ task.status = "running"
     \/ tasks[id].status = "running" /\ task.status = "done"
     \/ tasks[id].status \in {"pending", "running"} /\ task.status = "failed"
  /\ Flag(tasks[id].output, "knowledge_indexed") => Flag(task.output, "knowledge_indexed")

\* A tracker call of a goroutine is one its owner may make.
LEMMA OwnersCall ==
  ASSUME VideoIndInv, NEW id \in Ids, worker[id] \notin {"off", "exit"},
         \/ Start(id, id) \/ Fail(id, id)
         \/ \E o \in Outputs : Complete(id, id, o)
         \/ \E o \in Outputs : PatchOutput(id, id, o)
         \/ \E s \in Steps, v \in StepStatus \ {"pending"} : UpdateStep(id, id, s, v)
  PROVE  TrackerNext
<1>1. Free(id)
  BY DEF Start, Fail, Complete, PatchOutput, UpdateStep, Update
<1>2. OwnerMay(id) /\ id \in Actors \ {Main}
  BY <1>1, WorkerOwns, ActorKinds
<1>3. TrackerCall(id)
  BY <1>2 DEF TrackerCall
<1> QED BY <1>2, <1>3 DEF TrackerNext

\* Steps that keep a task's status and its flag.
LEMMA StepReports ==
  ASSUME VideoIndInv, NEW id \in Ids, worker[id] \notin {"off", "exit"},
         \/ \E o \in Outputs : PatchOutput(id, id, o)
         \/ \E s \in Steps, v \in StepStatus : UpdateStep(id, id, s, v)
  PROVE  \E task : Reports(id, id, task)
<1>1. /\ id \in DOMAIN tasks /\ tasks[id] \in Task
      /\ ~Flag(tasks[id].output, "knowledge_indexed")
  BY TaskAtWork
<1>2. ASSUME NEW o \in Outputs, PatchOutput(id, id, o) PROVE \E task : Reports(id, id, task)
  <2> DEFINE task == [tasks[id] EXCEPT !.output = Merge(o, @)]
  <2>1. Update(id, id, task)
    BY <1>2 DEF PatchOutput
  <2>2. task.status = tasks[id].status
    BY <1>1, OutputPatched
  <2> HIDE DEF task
  <2> QED BY <1>1, <2>1, <2>2 DEF Reports
<1>3. ASSUME NEW s \in Steps, NEW v \in StepStatus, UpdateStep(id, id, s, v)
      PROVE  \E task : Reports(id, id, task)
  <2> DEFINE task == [tasks[id] EXCEPT !.steps[s] = v]
  <2>1. Update(id, id, task)
    BY <1>3 DEF UpdateStep
  <2>2. task.status = tasks[id].status
    BY <1>1, StepUpdated
  <2> HIDE DEF task
  <2> QED BY <1>1, <2>1, <2>2 DEF Reports
<1> QED BY <1>2, <1>3

\* What the gateway's steps do to the tracker: a call it allows, and, when it
\* is about one task, one that moves the task forward.
LEMMA WorkerEffects ==
  ASSUME VideoIndInv, NEW id \in Ids, WorkerStep(id)
  PROVE  \/ UNCHANGED trackerVars
         \/ TrackerNext /\ \E task : Reports(id, id, task)
<1>1. CASE ReadBack(id) \/ WorkerExit(id) \/ WorkerPanic(id)
  BY <1>1 DEF ReadBack, WorkerExit, WorkerPanic, Release
<1>2. CASE BeginWork(id)
  <2> DEFINE task == [tasks[id] EXCEPT !.status = "running"]
  <2>1. worker[id] = "start" /\ Start(id, id) /\ Update(id, id, task)
    BY <1>2 DEF BeginWork, At, Start
  <2>2. /\ id \in DOMAIN tasks /\ tasks[id] \in Task
        /\ AsReported("start", tasks[id], text[id])
        /\ ~Flag(tasks[id].output, "knowledge_indexed")
    BY <2>1, TaskAtWork
  <2>3. tasks[id].status = "pending" /\ task.status = "running"
    BY <2>2 DEF AsReported, Task
  <2>4. Reports(id, id, task)
    <3> HIDE DEF task
    <3> QED BY <2>1, <2>2, <2>3 DEF Reports
  <2> QED BY <2>1, <2>4, OwnersCall
<1>3. CASE WorkDone(id)
  <2> DEFINE o == ReadyOutput(text[id])
             task == [tasks[id] EXCEPT !.status = "done", !.output = o, !.finishedAt = clock]
  <2>1. worker[id] = "complete" /\ Complete(id, id, o) /\ Update(id, id, task)
    BY <1>3 DEF WorkDone, At, Complete
  <2>2. /\ id \in DOMAIN tasks /\ tasks[id] \in Task
        /\ AsReported("complete", tasks[id], text[id])
        /\ ~Flag(tasks[id].output, "knowledge_indexed")
        /\ text[id] \in [raw : Texts, final : Texts, formatted : BOOLEAN]
    BY <2>1, TaskAtWork
  <2>3. tasks[id].status = "running" /\ task.status = "done"
    BY <2>2 DEF AsReported, Task
  <2>4. o \in Outputs
    BY <2>2, ReadyIsOutput
  <2>5. Reports(id, id, task)
    <3> HIDE DEF task
    <3> QED BY <2>1, <2>2, <2>3 DEF Reports
  <2> HIDE DEF o, task
  <2>6. TrackerNext
    BY <2>1, <2>4, OwnersCall
  <2> QED BY <2>5, <2>6
<1>4. CASE WorkFailed(id)
  <2> DEFINE task == [tasks[id] EXCEPT !.status = "failed", !.finishedAt = clock]
  <2>1. worker[id] = "fail" /\ Fail(id, id) /\ Update(id, id, task)
    BY <1>4 DEF WorkFailed, At, Fail
  <2>2. /\ id \in DOMAIN tasks /\ tasks[id] \in Task
        /\ AsReported("fail", tasks[id], text[id])
        /\ ~Flag(tasks[id].output, "knowledge_indexed")
    BY <2>1, TaskAtWork
  <2>3. tasks[id].status = "running" /\ task.status = "failed"
    BY <2>2 DEF AsReported, Task
  <2>4. Reports(id, id, task)
    <3> HIDE DEF task
    <3> QED BY <2>1, <2>2, <2>3 DEF Reports
  <2> QED BY <2>1, <2>4, OwnersCall
<1>5. ASSUME worker[id] \notin {"off", "exit"},
             \/ \E o \in Outputs : PatchOutput(id, id, o)
             \/ \E s \in Steps, v \in StepStatus \ {"pending"} : UpdateStep(id, id, s, v)
      PROVE  TrackerNext /\ \E task : Reports(id, id, task)
  BY <1>5, OwnersCall, StepReports
<1>6. CASE PublishTranscript(id)
  <2>1. worker[id] = "transcribed" /\ PatchOutput(id, id, TranscribedOutput(text[id].raw))
    BY <1>6 DEF PublishTranscript, At
  <2>2. TranscribedOutput(text[id].raw) \in Outputs
    BY <2>1, TaskAtWork, TranscribedIsOutput
  <2> QED BY <1>5, <2>1, <2>2
<1>7. CASE PublishFormatted(id)
  <2>1. /\ worker[id] = "formatting"
        /\ PatchOutput(id, id, FormattedOutput(FormattedBy(text[id].raw)))
    BY <1>7 DEF PublishFormatted, At
  <2>2. FormattedBy(text[id].raw) \in Texts
    BY <2>1, TaskAtWork DEF FormattedBy, Texts
  <2>3. FormattedOutput(FormattedBy(text[id].raw)) \in Outputs
    BY <2>2, FormattedIsOutput
  <2> QED BY <1>5, <2>1, <2>3
<1>8. CASE \/ \E s \in {"download_audio", "transcribe_audio"} :
                StepStarted(id, s) \/ RequiredStepFails(id, s)
           \/ DownloadDone(id) \/ TranscribeDone(id)
           \/ FormatStarted(id) \/ FormatGivesUp(id) \/ FormatDone(id)
  <2>1. worker[id] \notin {"off", "exit"}
    BY <1>8 DEF StepStarted, RequiredStepFails, DownloadDone, TranscribeDone,
                FormatStarted, FormatGivesUp, FormatDone, At
  <2>2. \E s \in Steps, v \in StepStatus \ {"pending"} : UpdateStep(id, id, s, v)
    <3>1. {"running", "done", "failed", "skipped"} \subseteq StepStatus \ {"pending"}
      BY DEF StepStatus
    <3> QED BY <1>8, <3>1, StepNames
            DEF StepStarted, RequiredStepFails, DownloadDone, TranscribeDone,
                FormatStarted, FormatGivesUp, FormatDone
  <2> QED BY <1>5, <2>1, <2>2
<1> QED BY <1>1, <1>2, <1>3, <1>4, <1>6, <1>7, <1>8 DEF WorkerStep

LEMMA RequestEffects ==
  ASSUME VideoIndInv, NEW r \in Requests, RequestStep(r)
  PROVE  \/ UNCHANGED trackerVars
         \/ /\ TrackerNext
            /\ \/ \E id \in Ids : Create(r, id)
               \/ List(r)
               \/ \E id \in Ids : \E task : Reports(r, id, task)
<1>1. r \in Actors \ {Main}
  BY ActorKinds
<1>2. CASE RunnerGo(r) \/ IndexRun(r) \/ \E id \in Ids : IndexCheck(r, id)
  BY <1>2 DEF RunnerGo, IndexRun, IndexCheck
<1>3. CASE ListTasks(r) \/ \E id \in Ids : Submit(r, id)
  BY <1>1, <1>3 DEF ListTasks, Submit, TrackerNext, TrackerCall
<1>4. CASE RunnerFull(r)
  <2> DEFINE id == request[r].task
             task == [tasks[id] EXCEPT !.status = "failed", !.finishedAt = clock]
  <2>1. request[r].pc = "submit" /\ Fail(r, id) /\ Update(r, id, task)
    BY <1>4 DEF RunnerFull, Fail
  <2>2. /\ id \in Ids /\ id \in DOMAIN tasks /\ OwnerMay(id) /\ tasks[id].status = "pending"
        /\ tasks[id] \in Task
    BY <2>1, SubmitterOwns, Types DEF Update
  <2>3. ~Flag(tasks[id].output, "knowledge_indexed")
    BY <2>2 DEF VideoIndInv, KnowledgeFlagHonest, FlagHonest, InKnowledge
  <2>4. task.status = "failed"
    BY <2>2 DEF Task
  <2>5. TrackerNext
    BY <1>1, <2>1, <2>2 DEF TrackerNext, TrackerCall
  <2> HIDE DEF id, task
  <2>6. Reports(r, id, task)
    BY <2>1, <2>2, <2>3, <2>4 DEF Reports
  <2> QED BY <2>2, <2>5, <2>6
<1>5. CASE IndexRecord(r)
  <2> DEFINE id == request[r].task
             task == [tasks[id] EXCEPT !.output = Merge(IndexedPatch, @)]
  <2>1. /\ request[r].pc = "record" /\ PatchOutput(r, id, IndexedPatch)
        /\ Update(r, id, task)
    BY <1>5 DEF IndexRecord, PatchOutput, IndexedPatch
  <2>2. id \in Ids
    BY <2>1, Types DEF VideoIndInv, VideoInv, IndexesEndedTask, InKnowledge
  <2>3. TrackerNext
    BY <1>1, <2>1, <2>2, IndexedIsOutput DEF TrackerNext, TrackerCall
  <2>4. CASE id \notin DOMAIN tasks
    BY <2>1, <2>4 DEF Update, trackerVars
  <2>5. CASE id \in DOMAIN tasks
    <3>1. task.status = tasks[id].status /\ task.output = Merge(IndexedPatch, tasks[id].output)
      BY <2>5, Types, IndexedIsOutput, OutputPatched
    <3> HIDE DEF id, task
    <3>2. Flag(task.output, "knowledge_indexed")
      BY <3>1, IndexedIsOutput DEF Merge, Flag
    <3>3. Reports(r, id, task)
      BY <2>1, <2>5, <3>1, <3>2 DEF Reports
    <3> QED BY <2>2, <2>3, <3>3
  <2> QED BY <2>4, <2>5
<1> QED BY <1>2, <1>3, <1>4, <1>5 DEF RequestStep, SubmitStep

\* The kinds of steps of the gateway, by what they do to the tracker.
LEMMA StepEffects ==
  ASSUME VideoIndInv, [Next]_vars
  PROVE  /\ [TrackerNext]_trackerVars
         /\ \/ UNCHANGED <<up, used, tasks, store, saving>>
            \/ \E r \in Requests, id \in Ids : Create(r, id)
            \/ \E r \in Requests : List(r)
            \/ \E a \in Actors, id \in Ids : \E task : Reports(a, id, task)
            \/ \E a \in Actors : StoreStep(a)
            \/ Crash
            \/ Restore
<1>1. CASE \E id \in Ids : WorkerStep(id)
  BY <1>1, WorkerEffects, ActorKinds DEF trackerVars
<1>2. CASE \E r \in Requests : RequestStep(r)
  BY <1>2, RequestEffects, ActorKinds DEF trackerVars
<1>3. CASE \E a \in Actors : StoreStep(a)
  BY <1>3 DEF StoreStep, TrackerNext
<1>4. CASE GatewayCrash \/ GatewayRestart
  BY <1>4 DEF GatewayCrash, GatewayRestart, TrackerNext
<1>5. CASE Passing
  BY <1>5 DEF Passing, Tick, TrackerNext
<1>6. CASE UNCHANGED vars
  BY <1>6 DEF vars, trackerVars
<1> QED BY <1>1, <1>2, <1>3, <1>4, <1>5, <1>6 DEF Next

\* The handlers and the pipeline use the tracker as its obligation says, so all
\* that is proved of TrackerSpec holds of the gateway.
THEOREM GatewayUsesTracker == Spec => UsesTracker
<1>1. Init => TrackerInit
  BY DEF Init
<1>2. VideoIndInv /\ [Next]_vars => [TrackerNext]_trackerVars
  BY StepEffects
<1> QED BY <1>1, <1>2, VideoInit, VideoNext, PTL DEF Spec, UsesTracker, TrackerSpec

\* What the tracker promises its callers holds of the gateway, whatever its
\* requests, pipelines and crashes do: a tracked task reaches the store with its
\* status, unless a call of the store failed; no DeleteTasks in flight can
\* destroy the record of a task that is still tracked; only ended tasks are
\* forgotten; what ended on disk has ended for good; and a creation makes room.
THEOREM GatewayKeepsTasks ==
  Spec => /\ [](StatusReachesStore /\ TrackedNotBeingDeleted)
          /\ OnlyTerminalForgotten /\ DurableEndIsFinal /\ CreateMakesRoom
<1>1. Spec => TrackerSpec
  BY GatewayUsesTracker DEF UsesTracker
<1> QED BY <1>1, StatusIsStored, DeletesSpareTracked, OnlyEndedForgotten,
           OutcomeIsFinal, RoomIsMade, PTL

\* What a reported task and the pruning leave of the map.
LEMMA ReportMap ==
  ASSUME VideoIndInv, NEW a \in Actors, NEW id \in Ids, NEW task, Reports(a, id, task)
  PROVE  /\ up /\ UNCHANGED <<up, used, store>> /\ id \in DOMAIN tasks
         /\ DOMAIN tasks' = DOMAIN tasks /\ tasks'[id] = task
         /\ \A x \in DOMAIN tasks \ {id} : tasks'[x] = tasks[x]
         /\ \A b \in Actors : \A x \in DOMAIN saving'[b] :
              \/ x = id /\ saving'[b][x] = task
              \/ x \in DOMAIN saving[b] /\ saving'[b][x] = saving[b][x]
<1>1. /\ up /\ id \in DOMAIN tasks /\ UNCHANGED <<up, used, store>>
      /\ tasks' = [tasks EXCEPT ![id] = task]
      /\ saving' = [saving EXCEPT ![a] = Put(NoTasks, id, task)]
  BY DEF Reports, Update, Free
<1>2. DOMAIN Put(NoTasks, id, task) = {id} /\ Put(NoTasks, id, task)[id] = task
  BY DEF Put, NoTasks
<1>3. /\ \A b \in Actors \ {a} : saving'[b] = saving[b]
      /\ saving'[a] = Put(NoTasks, id, task)
  BY <1>1, Types
<1> QED BY <1>1, <1>2, <1>3

LEMMA ListMap ==
  ASSUME VideoIndInv, NEW r \in Requests, List(r)
  PROVE  /\ up /\ UNCHANGED <<up, used, store, saving>>
         /\ DOMAIN tasks' \subseteq DOMAIN tasks
         /\ \A x \in DOMAIN tasks' : tasks'[x] = tasks[x]
         /\ \A x \in DOMAIN tasks : ~Terminal(tasks[x].status) => x \in DOMAIN tasks'
<1>1. PICK now, gone : gone \in Prunings(tasks, now) /\ tasks' = Drop(tasks, gone)
  BY DEF List
<1>2. IsTaskMap(tasks)
  BY Types
<1>3. gone \subseteq TerminalIds(tasks)
  BY <1>1, <1>2, PruningsTerminal
<1>4. /\ DOMAIN Drop(tasks, gone) = DOMAIN tasks \ gone
      /\ \A x \in DOMAIN tasks \ gone : Drop(tasks, gone)[x] = tasks[x]
  BY <1>2, DropMap
<1> QED BY <1>1, <1>3, <1>4 DEF List, Free, TerminalIds

LEMMA NewTaskMap ==
  ASSUME VideoIndInv, NEW r \in Requests, NEW id \in Ids, Create(r, id)
  PROVE  /\ up /\ UNCHANGED <<up, store>> /\ id \notin used /\ used' = used \cup {id}
         /\ id \notin DOMAIN tasks /\ id \in DOMAIN tasks' /\ tasks'[id] = NewTask
         /\ DOMAIN tasks' \subseteq DOMAIN tasks \cup {id}
         /\ \A x \in DOMAIN tasks' \ {id} : tasks'[x] = tasks[x]
         /\ \A x \in DOMAIN tasks : ~Terminal(tasks[x].status) => x \in DOMAIN tasks'
         /\ \A b \in Actors : \A x \in DOMAIN saving'[b] :
              \/ x = id /\ saving'[b][x] = NewTask
              \/ x \in DOMAIN saving[b] /\ saving'[b][x] = saving[b][x]
<1> DEFINE ts == Put(tasks, id, NewTask)
<1>1. PICK now, gone : gone \in Prunings(ts, now) /\ tasks' = Drop(ts, gone)
  BY DEF Create
<1>2. /\ up /\ UNCHANGED <<up, store>> /\ id \notin used /\ used' = used \cup {id}
      /\ saving' = [saving EXCEPT ![r] = Put(NoTasks, id, NewTask)]
  BY DEF Create, Free
<1>3. id \notin DOMAIN tasks
  BY <1>2 DEF VideoIndInv, TrackerInv, KnownIds
<1>4. /\ IsTaskMap(ts) /\ DOMAIN ts = DOMAIN tasks \cup {id} /\ ts[id] = NewTask
      /\ \A x \in DOMAIN tasks \ {id} : ts[x] = tasks[x]
  <2>1. IsTaskMap(tasks)
    BY Types
  <2> HIDE DEF ts
  <2>2. /\ IsTaskMap(Put(tasks, id, NewTask))
        /\ DOMAIN Put(tasks, id, NewTask) = DOMAIN tasks \cup {id}
        /\ Put(tasks, id, NewTask)[id] = NewTask
        /\ \A x \in DOMAIN tasks \ {id} : Put(tasks, id, NewTask)[x] = tasks[x]
    BY <2>1, NewTaskIsTask, PutMap
  <2> QED BY <2>2 DEF ts
<1> HIDE DEF ts
<1>5. gone \subseteq TerminalIds(ts)
  BY <1>1, <1>4, PruningsTerminal
<1>6. /\ DOMAIN Drop(ts, gone) = DOMAIN ts \ gone
      /\ \A x \in DOMAIN ts \ gone : Drop(ts, gone)[x] = ts[x]
  BY <1>4, DropMap
<1>7. id \notin gone
  BY <1>4, <1>5, NewTaskReports DEF TerminalIds
<1>8. \A b \in Actors : \A x \in DOMAIN saving'[b] :
              \/ x = id /\ saving'[b][x] = NewTask
              \/ x \in DOMAIN saving[b] /\ saving'[b][x] = saving[b][x]
  <2>1. DOMAIN Put(NoTasks, id, NewTask) = {id} /\ Put(NoTasks, id, NewTask)[id] = NewTask
    BY OneTaskMap, NewTaskIsTask
  <2>2. /\ \A b \in Actors \ {r} : saving'[b] = saving[b]
        /\ saving'[r] = Put(NoTasks, id, NewTask)
    BY <1>2, Types, ActorKinds
  <2> QED BY <2>1, <2>2
<1>9. /\ id \in DOMAIN tasks' /\ tasks'[id] = NewTask
      /\ DOMAIN tasks' \subseteq DOMAIN tasks \cup {id}
      /\ \A x \in DOMAIN tasks' \ {id} : tasks'[x] = tasks[x]
  BY <1>1, <1>3, <1>4, <1>6, <1>7
<1>10. \A x \in DOMAIN tasks : ~Terminal(tasks[x].status) => x \in DOMAIN tasks'
  BY <1>1, <1>3, <1>4, <1>5, <1>6 DEF TerminalIds
<1> QED BY <1>2, <1>3, <1>8, <1>9, <1>10

\* The restart makes tasks of records: ended ones as they are, others failed.
LEMMA RestartMap ==
  ASSUME VideoIndInv, Restore
  PROVE  /\ ~up /\ up' = TRUE /\ UNCHANGED <<used, store>>
         /\ DOMAIN tasks = {} /\ \A a \in Actors : DOMAIN saving[a] = {}
         /\ \A id \in DOMAIN tasks' :
              /\ id \in DOMAIN store
              /\ tasks'[id].status = IF store[id].status = "done" THEN "done" ELSE "failed"
         /\ \A a \in Actors : \A id \in DOMAIN saving'[a] : saving'[a][id].status = "failed"
<1> USE DEF VideoIndInv
<1>1. /\ ~up /\ up' = TRUE /\ UNCHANGED <<used, store>>
      /\ tasks = NoTasks /\ \A a \in Actors : saving[a] = NoTasks
  BY DEF Restore, TrackerInv, DownIsEmpty
<1>2. IsTaskMap(RestoredTasks) /\ DOMAIN RestoredTasks = DOMAIN store
  BY RestoredMap
<1>3. \A id \in DOMAIN store :
        /\ RestoredTasks[id].status = IF store[id].status = "done" THEN "done" ELSE "failed"
        /\ id \notin TerminalIds(store) => RestoredTasks[id].status = "failed"
  BY RestoredIsSound DEF Terminal, TerminalIds
<1>4. CASE UNCHANGED <<tasks, saving>>
  BY <1>1, <1>4, NoTasksMap
<1>5. CASE /\ \E gone \in Prunings(RestoredTasks, clock) : tasks' = Drop(RestoredTasks, gone)
           /\ saving' = [saving EXCEPT ![Main] = Drop(RestoredTasks, TerminalIds(store))]
  <2> DEFINE S == TerminalIds(store)
  <2>1. PICK gone : tasks' = Drop(RestoredTasks, gone)
    BY <1>5
  <2>2. /\ DOMAIN Drop(RestoredTasks, gone) = DOMAIN store \ gone
        /\ \A id \in DOMAIN store \ gone : Drop(RestoredTasks, gone)[id] = RestoredTasks[id]
    BY <1>2, DropMap
  <2>3. \A b \in Actors : saving'[b] = NoTasks \/ saving'[b] = Drop(RestoredTasks, S)
    BY <1>1, <1>5, Types, TrackerConstants
  <2> HIDE DEF S
  <2>4. /\ DOMAIN Drop(RestoredTasks, S) = DOMAIN store \ S
        /\ \A id \in DOMAIN store \ S : Drop(RestoredTasks, S)[id] = RestoredTasks[id]
    BY <1>2, DropMap
  <2>5. \A a \in Actors : \A id \in DOMAIN saving'[a] : saving'[a][id].status = "failed"
    BY <1>3, <2>3, <2>4, NoTasksMap DEF S
  <2> QED BY <1>1, <1>3, <2>1, <2>2, <2>5, NoTasksMap
<1> QED BY <1>1, <1>4, <1>5 DEF Restore

FlagsStay ==
  \A id \in DOMAIN tasks \cap DOMAIN tasks' :
    Flag(tasks[id].output, "knowledge_indexed") => Flag(tasks'[id].output, "knowledge_indexed")

\* No late report of the pipeline overwrites knowledge_indexed (PatchOutput and
\* Complete against IndexTranscriptTask).
THEOREM KnowledgeFlagKept == Spec => KnowledgeFlagStays
<1>1. VideoIndInv /\ [Next]_vars => FlagsStay
  <2> SUFFICES ASSUME VideoIndInv, [Next]_vars PROVE FlagsStay
    OBVIOUS
  <2>1. CASE tasks' = tasks
    BY <2>1 DEF FlagsStay
  <2>2. ASSUME NEW r \in Requests, NEW id \in Ids, Create(r, id) PROVE FlagsStay
    BY <2>2, NewTaskMap DEF FlagsStay
  <2>3. ASSUME NEW r \in Requests, List(r) PROVE FlagsStay
    BY <2>3, ListMap DEF FlagsStay
  <2>4. ASSUME NEW a \in Actors, NEW id \in Ids, NEW task, Reports(a, id, task) PROVE FlagsStay
    <3>1. /\ DOMAIN tasks' = DOMAIN tasks /\ tasks'[id] = task
          /\ \A x \in DOMAIN tasks \ {id} : tasks'[x] = tasks[x]
      BY <2>4, ReportMap
    <3> QED BY <2>4, <3>1 DEF Reports, FlagsStay
  <2>5. CASE \E a \in Actors : StoreStep(a)
    BY <2>1, <2>5, StoreStepFacts
  <2>6. CASE Crash
    BY <2>6, NoTasksMap DEF Crash, FlagsStay
  <2>7. CASE Restore
    BY <2>7, RestartMap DEF FlagsStay
  <2> QED BY <2>1, <2>2, <2>3, <2>4, <2>5, <2>6, <2>7, StepEffects
<1> QED BY <1>1, VideoInit, VideoNext, PTL DEF Spec, KnowledgeFlagStays, FlagsStay

-----------------------------------------------------------------------------
(* Unfinished tasks have an owner, where no tool panics.                   *)

\* Where a goroutine's step leaves it: at work, or gone with its task ended.
LEMMA WorkerStays ==
  ASSUME ~ToolsMayPanic, VideoIndInv, NEW id \in Ids, WorkerStep(id)
  PROVE  /\ request' = request /\ \A x \in Ids \ {id} : worker'[x] = worker[x]
         /\ worker'[id] # "off" \/ (worker[id] = "exit" /\ tasks' = tasks)
<1>1. worker \in [Ids -> WorkerPCs]
  BY Types
<1>2. CASE WorkerExit(id)
  BY <1>1, <1>2 DEF WorkerExit, Release, At, trackerVars
<1>3. ASSUME NEW pc, Goto(id, pc), pc # "off", request' = request
      PROVE  /\ request' = request /\ \A x \in Ids \ {id} : worker'[x] = worker[x]
             /\ worker'[id] # "off"
  BY <1>1, <1>3 DEF Goto
<1>4. ASSUME NEW s \in {"download_audio", "transcribe_audio"}, StepStarted(id, s)
      PROVE  \E pc : Goto(id, pc) /\ pc # "off" /\ request' = request
  BY <1>4 DEF StepStarted
<1>5. \/ BeginWork(id) \/ TranscribeDone(id) \/ PublishTranscript(id) \/ FormatStarted(id)
      \/ FormatGivesUp(id) \/ PublishFormatted(id) \/ FormatDone(id) \/ DownloadDone(id)
      \/ ReadBack(id) \/ WorkDone(id) \/ WorkFailed(id)
      \/ \E s \in {"download_audio", "transcribe_audio"} : RequiredStepFails(id, s)
      => \E pc : Goto(id, pc) /\ pc # "off" /\ request' = request
  BY DEF BeginWork, TranscribeDone, PublishTranscript, FormatStarted, FormatGivesUp,
         PublishFormatted, FormatDone, DownloadDone, ReadBack, WorkDone, WorkFailed,
         RequiredStepFails
<1> QED BY <1>2, <1>3, <1>4, <1>5 DEF WorkerStep, WorkerPanic

LEMMA OwnerNext ==
  ASSUME ~ToolsMayPanic, VideoIndInv, UnfinishedHasOwner, [Next]_vars
  PROVE  UnfinishedHasOwner'
<1> DEFINE Owned(x) == \/ x \in Working
                       \/ \E r \in Requests : request[r].pc = "submit" /\ request[r].task = x
<1>1. \A x \in DOMAIN tasks : x \in Ids /\ (~Terminal(tasks[x].status) => Owned(x))
  BY Types DEF UnfinishedHasOwner
<1>2. ASSUME UNCHANGED <<request, worker>>,
             \A x \in DOMAIN tasks' : x \in DOMAIN tasks /\ tasks'[x] = tasks[x]
      PROVE  UnfinishedHasOwner'
  BY <1>1, <1>2 DEF UnfinishedHasOwner, Working
<1>3. ASSUME NEW id \in Ids, WorkerStep(id) PROVE UnfinishedHasOwner'
  <2>1. /\ request' = request /\ \A x \in Ids \ {id} : worker'[x] = worker[x]
        /\ worker'[id] # "off" \/ (worker[id] = "exit" /\ tasks' = tasks)
    BY <1>3, WorkerStays
  <2>2. DOMAIN tasks' = DOMAIN tasks /\ \A x \in DOMAIN tasks \ {id} : tasks'[x] = tasks[x]
    <3>1. CASE UNCHANGED trackerVars
      BY <3>1 DEF trackerVars
    <3>2. CASE \E task : Reports(id, id, task)
      BY <3>2, ReportMap, ActorKinds
    <3> QED BY <1>3, <3>1, <3>2, WorkerEffects
  <2>3. worker[id] = "exit" /\ id \in DOMAIN tasks => Terminal(tasks[id].status)
    BY DEF VideoIndInv, VideoInv, WorkIsReported
  <2> QED BY <1>1, <2>1, <2>2, <2>3 DEF UnfinishedHasOwner, Working
<1>4. ASSUME NEW r \in Requests, RequestStep(r) PROVE UnfinishedHasOwner'
  <2>1. \A q \in Requests \ {r} : request'[q] = request[q]
    BY <1>4, Types DEF RequestStep, Submit, IndexCheck, SubmitStep, RunnerGo, RunnerFull,
                       IndexRun, IndexRecord, ListTasks, gatewayVars
  <2>2. ASSUME NEW id \in Ids, Submit(r, id) PROVE UnfinishedHasOwner'
    <3>1. /\ request[r].pc = "idle" /\ Create(r, id) /\ worker' = worker
          /\ request'[r].pc = "submit" /\ request'[r].task = id
      BY <2>2, Types DEF Submit
    <3>2. /\ DOMAIN tasks' \subseteq DOMAIN tasks \cup {id}
          /\ \A x \in DOMAIN tasks' \ {id} : tasks'[x] = tasks[x]
      BY <3>1, NewTaskMap
    <3> QED BY <1>1, <2>1, <3>1, <3>2 DEF UnfinishedHasOwner, Working
  <2>3. CASE ListTasks(r)
    BY <1>2, <2>3, ListMap DEF ListTasks, gatewayVars
  <2>4. CASE RunnerGo(r)
    <3> DEFINE id == request[r].task
    <3>1. request[r].pc = "submit" /\ worker' = [worker EXCEPT ![id] = "start"] /\ tasks' = tasks
      BY <2>4 DEF RunnerGo, trackerVars
    <3>2. id \in Ids
      BY <3>1, Types DEF VideoIndInv, VideoInv, SubmitsNewTask
    <3>3. id \in Working' /\ \A x \in Working : x \in Working'
      BY <3>1, <3>2, Types DEF Working
    <3>4. \A x \in DOMAIN tasks : ~Terminal(tasks[x].status) /\ x # id => Owned(x)'
      BY <1>1, <2>1, <3>1, <3>3
    <3> QED BY <3>1, <3>3, <3>4 DEF UnfinishedHasOwner
  <2>5. CASE RunnerFull(r)
    <3> DEFINE id == request[r].task
               task == [tasks[id] EXCEPT !.status = "failed", !.finishedAt = clock]
    <3>1. request[r].pc = "submit" /\ Update(r, id, task) /\ worker' = worker
      BY <2>5 DEF RunnerFull, Fail
    <3>2. id \in DOMAIN tasks /\ tasks[id] \in Task
      BY <3>1, SubmitterOwns, Types DEF Update
    <3>3. /\ DOMAIN tasks' = DOMAIN tasks /\ tasks'[id].status = "failed"
          /\ \A x \in DOMAIN tasks \ {id} : tasks'[x] = tasks[x]
      BY <3>1, <3>2 DEF Update, Task
    <3>4. \A x \in DOMAIN tasks \ {id} : ~Terminal(tasks[x].status) => Owned(x)'
      <4> HIDE DEF task
      <4> QED BY <1>1, <2>1, <3>1 DEF Working
    <3> QED BY <3>3, <3>4 DEF UnfinishedHasOwner, Terminal
  <2>6. CASE IndexRun(r) \/ \E id \in Ids : IndexCheck(r, id)
    <3>1. request[r].pc # "submit" /\ worker' = worker /\ tasks' = tasks
      BY <2>6 DEF IndexRun, IndexCheck, trackerVars
    <3> QED BY <1>1, <2>1, <3>1 DEF UnfinishedHasOwner, Working
  <2>7. CASE IndexRecord(r)
    <3> DEFINE id == request[r].task
               task == [tasks[id] EXCEPT !.output = Merge(IndexedPatch, @)]
    <3>1. request[r].pc = "record" /\ Update(r, id, task) /\ worker' = worker
      BY <2>7 DEF IndexRecord, PatchOutput, IndexedPatch
    <3>2. id \in DOMAIN tasks => task.status = tasks[id].status
      BY Types, IndexedIsOutput, OutputPatched
    <3> HIDE DEF task
    <3>3. /\ DOMAIN tasks' = DOMAIN tasks
          /\ \A x \in DOMAIN tasks : tasks'[x].status = tasks[x].status
      BY <3>1, <3>2 DEF Update
    <3> QED BY <1>1, <2>1, <3>1, <3>3 DEF UnfinishedHasOwner, Working
  <2> QED BY <1>4, <2>2, <2>3, <2>4, <2>5, <2>6, <2>7 DEF RequestStep, SubmitStep
<1>5. CASE \E a \in Actors : StoreStep(a)
  BY <1>2, <1>5, StoreStepFacts
<1>6. CASE GatewayCrash
  BY <1>6, NoTasksMap DEF GatewayCrash, Crash, UnfinishedHasOwner
<1>7. CASE GatewayRestart
  BY <1>7, RestartMap DEF GatewayRestart, UnfinishedHasOwner, Terminal
<1>8. CASE Passing \/ UNCHANGED vars
  BY <1>2, <1>8 DEF Passing, Tick, vars, trackerVars, gatewayVars
<1> QED BY <1>3, <1>4, <1>5, <1>6, <1>7, <1>8 DEF Next

\* A task that has not ended is always in the hands of the goroutine that runs
\* it or of the request that is about to start one, unless a tool panics
\* (Runner.Go recovers without ending the task).
THEOREM UnfinishedOwned == ~ToolsMayPanic => (Spec => []UnfinishedHasOwner)
<1> SUFFICES ASSUME ~ToolsMayPanic PROVE Spec => []UnfinishedHasOwner
  OBVIOUS
<1>1. Init => UnfinishedHasOwner
  BY NoTasksMap DEF Init, TrackerInit, UnfinishedHasOwner
<1>2. VideoIndInv /\ UnfinishedHasOwner /\ [Next]_vars => UnfinishedHasOwner'
  BY OwnerNext
<1> QED BY <1>1, <1>2, VideoInit, VideoNext, PTL DEF Spec

-----------------------------------------------------------------------------
(* The status clients see behaves as TaskLifecycle promises.               *)

\* The refinement mapping, by name.
Visible == [id \in Ids |-> IF id \in DOMAIN tasks THEN tasks[id].status ELSE "absent"]
Recoverable ==
  {id \in Ids : \/ SaysDone(tasks, id)
                \/ SaysDone(store, id)
                \/ \E a \in Actors : SaysDone(saving[a], id)}

\* What clients see of one task.
LEMMA VisibleIs ==
  ASSUME VideoIndInv
  PROVE  \A id \in Ids :
           /\ id \in DOMAIN tasks => Visible[id] = tasks[id].status /\ Visible[id] # "absent"
           /\ id \notin DOMAIN tasks => Visible[id] = "absent"
BY Types DEF Visible, Task, TaskStatus

\* Which tasks may come back as done after a step, from what the step leaves in
\* the map, in the store and on the way.
LEMMA NothingGained ==
  ASSUME VideoIndInv, NEW N \in SUBSET Ids,
         \A x \in DOMAIN tasks' \ N : tasks'[x].status = "done" => x \in Recoverable,
         \A x \in DOMAIN store' \ N : store'[x].status = "done" => x \in Recoverable,
         \A b \in Actors : \A x \in DOMAIN saving'[b] \ N :
           saving'[b][x].status = "done" => x \in Recoverable
  PROVE  Recoverable' \subseteq Recoverable \cup N
BY DEF Recoverable, SaysDone

\* What was done is recoverable.
LEMMA DoneIsRecoverable ==
  ASSUME VideoIndInv
  PROVE  /\ \A x \in DOMAIN tasks : tasks[x].status = "done" => x \in Recoverable
         /\ \A x \in DOMAIN store : store[x].status = "done" => x \in Recoverable
         /\ \A b \in Actors : \A x \in DOMAIN saving[b] :
              saving[b][x].status = "done" => x \in Recoverable
BY Types DEF Recoverable, SaysDone

\* A step that clients see nothing of, but that ended tasks are gone.
LEMMA ForgetStep ==
  ASSUME UNCHANGED <<up, used>>, Recoverable' \subseteq Recoverable,
         \A id \in Ids : \/ Visible'[id] = Visible[id]
                         \/ Visible'[id] = "absent" /\ Visible[id] \in {"done", "failed"}
  PROVE  Lifecycle!LifecycleNext
<1> DEFINE S == {id \in Ids : Visible'[id] # Visible[id]}
<1>1. S \in SUBSET {i \in Ids : Visible[i] \in {"done", "failed"}}
  OBVIOUS
<1>2. Visible' = [id \in Ids |-> IF id \in S THEN "absent" ELSE Visible[id]]
  BY DEF Visible
<1> HIDE DEF S
<1>3. Lifecycle!Forget
  BY <1>1, <1>2 DEF Lifecycle!Forget, Lifecycle!Without, Lifecycle!Ended,
                    Lifecycle!NothingGained, Visible, Recoverable
<1> QED BY <1>3 DEF Lifecycle!LifecycleNext

LEMMA LifecycleOfReport ==
  ASSUME VideoIndInv, NEW a \in Actors, NEW id \in Ids, NEW task, Reports(a, id, task)
  PROVE  Lifecycle!LifecycleNext
<1>1. /\ up /\ UNCHANGED <<up, used, store>> /\ id \in DOMAIN tasks
      /\ DOMAIN tasks' = DOMAIN tasks /\ tasks'[id] = task
      /\ \A x \in DOMAIN tasks \ {id} : tasks'[x] = tasks[x]
      /\ \A b \in Actors : \A x \in DOMAIN saving'[b] :
              \/ x = id /\ saving'[b][x] = task
              \/ x \in DOMAIN saving[b] /\ saving'[b][x] = saving[b][x]
  BY ReportMap
<1>2. Visible[id] = tasks[id].status
  BY <1>1, VisibleIs
<1>3. Visible' = [Visible EXCEPT ![id] = task.status]
  BY <1>1 DEF Visible
<1>4. Recoverable' \subseteq Recoverable \cup {id}
  <2>1. \A x \in DOMAIN tasks' \ {id} : tasks'[x].status = "done" => x \in Recoverable
    BY <1>1, DoneIsRecoverable
  <2>2. \A x \in DOMAIN store' \ {id} : store'[x].status = "done" => x \in Recoverable
    BY <1>1, DoneIsRecoverable
  <2>3. \A b \in Actors : \A x \in DOMAIN saving'[b] \ {id} :
            saving'[b][x].status = "done" => x \in Recoverable
    BY <1>1, DoneIsRecoverable
  <2> DEFINE N == {id}
  <2>4. /\ \A x \in DOMAIN tasks' \ N : tasks'[x].status = "done" => x \in Recoverable
        /\ \A x \in DOMAIN store' \ N : store'[x].status = "done" => x \in Recoverable
        /\ \A b \in Actors : \A x \in DOMAIN saving'[b] \ N :
             saving'[b][x].status = "done" => x \in Recoverable
    BY <2>1, <2>2, <2>3
  <2>5. N \in SUBSET Ids
    OBVIOUS
  <2> HIDE DEF N
  <2>6. Recoverable' \subseteq Recoverable \cup N
    BY <2>4, <2>5, NothingGained
  <2> QED BY <2>6 DEF N
<1>6. ASSUME task.status # "done" \/ tasks[id].status = "done"
      PROVE  Recoverable' \subseteq Recoverable
  <2>1. CASE tasks[id].status = "done"
    BY <1>1, <1>4, <2>1, DoneIsRecoverable
  <2>2. CASE task.status # "done"
    <3>1. \A x \in DOMAIN tasks' : tasks'[x].status = "done" => x \in Recoverable
      BY <1>1, <2>2, DoneIsRecoverable
    <3>2. \A x \in DOMAIN store' : store'[x].status = "done" => x \in Recoverable
      BY <1>1, <2>2, DoneIsRecoverable
    <3>3. \A b \in Actors : \A x \in DOMAIN saving'[b] :
              saving'[b][x].status = "done" => x \in Recoverable
      BY <1>1, <2>2, DoneIsRecoverable
    <3> DEFINE N == {}
    <3>4. /\ \A x \in DOMAIN tasks' \ N : tasks'[x].status = "done" => x \in Recoverable
          /\ \A x \in DOMAIN store' \ N : store'[x].status = "done" => x \in Recoverable
          /\ \A b \in Actors : \A x \in DOMAIN saving'[b] \ N :
               saving'[b][x].status = "done" => x \in Recoverable
      BY <3>1, <3>2, <3>3
    <3>5. N \in SUBSET Ids
      OBVIOUS
    <3> HIDE DEF N
    <3>6. Recoverable' \subseteq Recoverable \cup N
      BY <3>4, <3>5, NothingGained
    <3> QED BY <3>6 DEF N
  <2> QED BY <1>6, <2>1, <2>2
<1>7. CASE task.status = tasks[id].status
  <2>1. \A x \in Ids : Visible'[x] = Visible[x]
    BY <1>1, <1>7 DEF Visible
  <2>2. Recoverable' \subseteq Recoverable
    BY <1>6, <1>7
  <2> QED BY <1>1, <2>1, <2>2, ForgetStep
<1>8. CASE tasks[id].status = "pending" /\ task.status = "running"
  <2>1. Lifecycle!Begin(id)
    BY <1>1, <1>2, <1>3, <1>6, <1>8
       DEF Lifecycle!Begin, Lifecycle!NothingGained, Visible, Recoverable
  <2> QED BY <2>1 DEF Lifecycle!LifecycleNext
<1>9. CASE tasks[id].status = "running" /\ task.status = "done"
  <2>1. Lifecycle!Finish(id)
    BY <1>1, <1>2, <1>3, <1>4, <1>9 DEF Lifecycle!Finish, Visible, Recoverable
  <2> QED BY <2>1 DEF Lifecycle!LifecycleNext
<1>10. CASE tasks[id].status \in {"pending", "running"} /\ task.status = "failed"
  <2>1. Lifecycle!Break(id)
    BY <1>1, <1>2, <1>3, <1>6, <1>10
       DEF Lifecycle!Break, Lifecycle!NothingGained, Visible, Recoverable
  <2> QED BY <2>1 DEF Lifecycle!LifecycleNext
<1> QED BY <1>7, <1>8, <1>9, <1>10 DEF Reports

LEMMA LifecycleOfCreate ==
  ASSUME VideoIndInv, NEW r \in Requests, NEW id \in Ids, Create(r, id)
  PROVE  Lifecycle!LifecycleNext
<1>1. /\ up /\ UNCHANGED <<up, store>> /\ id \notin used /\ used' = used \cup {id}
      /\ id \notin DOMAIN tasks /\ id \in DOMAIN tasks' /\ tasks'[id] = NewTask
      /\ DOMAIN tasks' \subseteq DOMAIN tasks \cup {id}
      /\ \A x \in DOMAIN tasks' \ {id} : tasks'[x] = tasks[x]
      /\ \A x \in DOMAIN tasks : ~Terminal(tasks[x].status) => x \in DOMAIN tasks'
  BY NewTaskMap
<1>2. \A b \in Actors : \A x \in DOMAIN saving'[b] :
              \/ x = id /\ saving'[b][x] = NewTask
              \/ x \in DOMAIN saving[b] /\ saving'[b][x] = saving[b][x]
  BY NewTaskMap
<1>3. NewTask.status = "pending"
  BY DEF NewTask
<1>4. Recoverable' \subseteq Recoverable
  <2>1. Recoverable' \subseteq Recoverable \cup {}
    <3>1. \A x \in DOMAIN tasks' \ {} : tasks'[x].status = "done" => x \in Recoverable
      BY <1>1, <1>2, <1>3, DoneIsRecoverable
    <3>2. \A x \in DOMAIN store' \ {} : store'[x].status = "done" => x \in Recoverable
      BY <1>1, <1>2, <1>3, DoneIsRecoverable
    <3>3. \A b \in Actors : \A x \in DOMAIN saving'[b] \ {} :
              saving'[b][x].status = "done" => x \in Recoverable
      BY <1>1, <1>2, <1>3, DoneIsRecoverable
    <3> QED BY <3>1, <3>2, <3>3, NothingGained
  <2> QED BY <2>1
<1> DEFINE S == {x \in DOMAIN tasks : x \notin DOMAIN tasks'}
<1>5. \A x \in S : x \in Ids /\ Visible[x] \in {"done", "failed"}
  BY <1>1, VisibleIs, Types DEF Terminal
<1>6. Visible' = [[x \in Ids |-> IF x \in S THEN "absent" ELSE Visible[x]] EXCEPT ![id] = "pending"]
  BY <1>1, <1>3 DEF Visible
<1>7. S \in SUBSET {i \in Ids : Visible[i] \in {"done", "failed"}}
  BY <1>5
<1> HIDE DEF S
<1>8. Lifecycle!Accept(id)
  BY <1>1, <1>4, <1>6, <1>7
     DEF Lifecycle!Accept, Lifecycle!Without, Lifecycle!Ended, Lifecycle!NothingGained,
         Visible, Recoverable
<1> QED BY <1>8 DEF Lifecycle!LifecycleNext

LEMMA LifecycleOfRestore ==
  ASSUME VideoIndInv, Restore
  PROVE  Lifecycle!LifecycleNext
<1>1. /\ ~up /\ up' = TRUE /\ UNCHANGED <<used, store>>
      /\ DOMAIN tasks = {} /\ \A a \in Actors : DOMAIN saving[a] = {}
      /\ \A id \in DOMAIN tasks' :
           /\ id \in DOMAIN store
           /\ tasks'[id].status = IF store[id].status = "done" THEN "done" ELSE "failed"
      /\ \A a \in Actors : \A id \in DOMAIN saving'[a] : saving'[a][id].status = "failed"
  BY RestartMap
<1>2. Recoverable' \subseteq Recoverable
  <2>1. Recoverable' \subseteq Recoverable \cup {}
    BY <1>1, DoneIsRecoverable, NothingGained
  <2> QED BY <2>1
<1> DEFINE D == {id \in DOMAIN tasks' : tasks'[id].status = "done"}
           S == DOMAIN tasks'
<1>3. D \in SUBSET Recoverable
  BY <1>1, DoneIsRecoverable
<1>4. S \in SUBSET used
  BY <1>1 DEF VideoIndInv, TrackerInv, KnownIds
<1>5. Visible' = [id \in Ids |-> IF id \in D THEN "done"
                                 ELSE IF id \in S THEN "failed" ELSE "absent"]
  BY <1>1 DEF Visible
<1> HIDE DEF D, S
<1>6. Lifecycle!Resume
  BY <1>1, <1>2, <1>3, <1>4, <1>5
     DEF Lifecycle!Resume, Lifecycle!NothingGained, Visible, Recoverable
<1> QED BY <1>6 DEF Lifecycle!LifecycleNext

LEMMA LifecycleOfCrash ==
  ASSUME VideoIndInv, Crash
  PROVE  Lifecycle!LifecycleNext
<1>1. /\ up /\ up' = FALSE /\ UNCHANGED <<used, store>> /\ tasks' = NoTasks
      /\ saving' = [a \in Actors |-> NoTasks]
  BY DEF Crash
<1>2. Recoverable' \subseteq Recoverable
  <2>1. Recoverable' \subseteq Recoverable \cup {}
    BY <1>1, NoTasksMap, DoneIsRecoverable, NothingGained
  <2> QED BY <2>1
<1>3. Visible' = [id \in Ids |-> "absent"]
  BY <1>1, NoTasksMap DEF Visible
<1>4. Lifecycle!Stop
  BY <1>1, <1>2, <1>3 DEF Lifecycle!Stop, Lifecycle!NothingGained, Visible, Recoverable
<1> QED BY <1>4 DEF Lifecycle!LifecycleNext

LEMMA LifecycleNextStep ==
  VideoIndInv /\ [Next]_vars => [Lifecycle!LifecycleNext]_(Lifecycle!lifecycleVars)
<1> SUFFICES ASSUME VideoIndInv, [Next]_vars PROVE [Lifecycle!LifecycleNext]_(Lifecycle!lifecycleVars)
  OBVIOUS
<1>1. CASE UNCHANGED <<up, used, tasks, store, saving>>
  BY <1>1 DEF Lifecycle!lifecycleVars, SaysDone
<1>2. ASSUME NEW r \in Requests, List(r) PROVE Lifecycle!LifecycleNext
  <2>1. /\ UNCHANGED <<up, used, store, saving>>
        /\ DOMAIN tasks' \subseteq DOMAIN tasks
        /\ \A x \in DOMAIN tasks' : tasks'[x] = tasks[x]
        /\ \A x \in DOMAIN tasks : ~Terminal(tasks[x].status) => x \in DOMAIN tasks'
    BY <1>2, ListMap
  <2>2. Recoverable' \subseteq Recoverable
    BY <2>1 DEF Recoverable, SaysDone
  <2>3. \A id \in Ids : \/ Visible'[id] = Visible[id]
                        \/ Visible'[id] = "absent" /\ Visible[id] \in {"done", "failed"}
    BY <2>1 DEF Visible, Terminal
  <2> QED BY <2>1, <2>2, <2>3, ForgetStep
<1>3. ASSUME NEW a \in Actors, StoreStep(a) PROVE Lifecycle!LifecycleNext
  <2>1. UNCHANGED <<up, used, tasks>> /\ Visible' = Visible
    BY <1>3, StoreStepFacts DEF Visible
  <2>2. Recoverable' \subseteq Recoverable \cup {}
    <3>1. \A x \in DOMAIN tasks' \ {} : tasks'[x].status = "done" => x \in Recoverable
      BY <1>3, <2>1, StoreStepFacts, DoneIsRecoverable
    <3>2. \A x \in DOMAIN store' \ {} : store'[x].status = "done" => x \in Recoverable
      BY <1>3, <2>1, StoreStepFacts, DoneIsRecoverable
    <3>3. \A b \in Actors : \A x \in DOMAIN saving'[b] \ {} :
              saving'[b][x].status = "done" => x \in Recoverable
      BY <1>3, <2>1, StoreStepFacts, DoneIsRecoverable
    <3> QED BY <3>1, <3>2, <3>3, NothingGained
  <2> QED BY <2>1, <2>2, ForgetStep
<1> QED
  BY <1>1, <1>2, <1>3, LifecycleOfReport, LifecycleOfCreate, LifecycleOfRestore,
     LifecycleOfCrash, StepEffects

\* What clients see of tasks refines TaskLifecycle: statuses only go forward,
\* only ended tasks disappear, and a restart invents no result.
THEOREM ImplementsLifecycle == Spec => RefinesLifecycle
<1>1. Init => Lifecycle!LifecycleInit
  BY NoTasksMap DEF Init, TrackerInit, Lifecycle!LifecycleInit, SaysDone
<1> QED
  BY <1>1, LifecycleNextStep, VideoInit, VideoNext, PTL
  DEF Spec, RefinesLifecycle, Lifecycle!LifecycleSpec

=============================================================================
