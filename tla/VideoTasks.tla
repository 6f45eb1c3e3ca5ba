---------------------------- MODULE VideoTasks ----------------------------
(***************************************************************************)
(* The life of a video task in the gateway: the HTTP handlers of           *)
(* internal/server/handler/video.go and task.go, the bounded background    *)
(* runner of internal/background/runner.go, the pipeline of                *)
(* internal/agent/graph.go, and the tracker of module TaskTracker that     *)
(* they all report to.                                                     *)
(*                                                                         *)
(* The actors of the tracker are the request goroutines, and one goroutine *)
(* per accepted task, which is named by the task's id.                     *)
(***************************************************************************)
EXTENDS TaskTracker

CONSTANTS
  Requests,       \* the goroutines that serve HTTP requests
  MaxConcurrent,  \* capacity of Runner.slots; 0 means unlimited
  Heard,          \* bound: the texts that rawText may be after the ASR tool answered
  ToolsMayPanic   \* whether a tool may panic inside the pipeline

\* A text is "speech" when it is what was said, "envelope" when it is the JSON
\* that a tool returned around it, "noise" when it is not blank but the cleaner of
\* internal/rag leaves nothing of it (the mark of a page, a zero-width space), and
\* "blank" when it is white space, or missing: the code does not tell these two.
Texts == {"speech", "envelope", "noise", "blank"}

\* The texts of which rag_index makes chunks; of the others it makes none, and
\* says so without an error.
ChunkedTexts == {"speech", "envelope"}

\* Keys of a task's output.  text_formatted stands for itself and for
\* can_index_knowledge, which the code always sets to the same value.
TextKeys == {"raw_text", "formatted_text"}
OutputKeys == TextKeys \cup {"text_formatted", "knowledge_indexed"}

ASSUME VideoConstants ==
  /\ Main \notin Requests \cup Ids /\ Requests \cap Ids = {}   \* goroutines
  /\ Actors = {Main} \cup Requests \cup Ids
  /\ Steps = {"download_audio", "transcribe_audio", "format_transcript"}
  /\ Outputs = {o \in UNION {[K -> Texts \cup {"true", "false"}] : K \in SUBSET OutputKeys} :
                  \A k \in DOMAIN o : o[k] \in Texts <=> k \in TextKeys}
  /\ MaxConcurrent \in Nat
  /\ Heard \subseteq Texts
  /\ ToolsMayPanic \in BOOLEAN

VARIABLES
  request,   \* request[r]: where a request is, and the task and text it holds
  worker,    \* worker[id]: where the goroutine that runs task id is
  text,      \* text[id]: that goroutine's local rawText and formattedText
  slots,     \* tokens in Runner.slots
  indexed    \* external: the <<task, text>> pairs the rag_index tool stored

gatewayVars == <<request, worker, text, slots, indexed>>
vars == <<trackerVars, gatewayVars>>

-----------------------------------------------------------------------------
(* What the pipeline reports.                                              *)

NoText == [raw |-> "blank", final |-> "blank", formatted |-> FALSE]

\* VideoProcessTextOutput at the stages "transcribed" and "formatted".
TranscribedOutput(raw) ==
  [k \in OutputKeys \ {"formatted_text"} |-> IF k = "raw_text" THEN raw ELSE "false"]
FormattedOutput(formatted) ==
  [k \in OutputKeys \ {"raw_text"} |->
     CASE k = "formatted_text" -> formatted
       [] k = "text_formatted" -> "true"
       [] OTHER -> "false"]

\* VideoProcessReadyTextOutput: formatted text stands beside the raw text, if
\* there is one; raw text that is blank is replaced by the result.
ReadyOutput(t) ==
  IF t.formatted
  THEN Merge([k \in {"raw_text"} \ (IF t.raw = "blank" THEN {"raw_text"} ELSE {}) |-> t.raw],
             FormattedOutput(t.final))
  ELSE TranscribedOutput(IF t.raw = "blank" THEN t.final ELSE t.raw)

\* taskOutputString: what is not there reads as "".
TextOf(output, k) == IF k \in DOMAIN output THEN output[k] ELSE "blank"

Flag(output, k) == k \in DOMAIN output /\ output[k] = "true"

-----------------------------------------------------------------------------
(* POST /video/process: StartVideoProcess.                                 *)

IdleRequest == [pc |-> "idle", task |-> Main, text |-> "blank"]

Submit(r, id) ==
  /\ request[r].pc = "idle"
  /\ Create(r, id)
  /\ request' = [request EXCEPT ![r].pc = "submit", ![r].task = id]
  /\ UNCHANGED <<worker, text, slots, indexed>>

HasSlot == MaxConcurrent = 0 \/ slots < MaxConcurrent

\* Variant: the goroutine starts while Create still persists the task.
RunnerGoEarly(r) ==
  LET id == request[r].task IN
  /\ request[r].pc = "submit"
  /\ HasSlot
  /\ slots' = IF MaxConcurrent = 0 THEN slots ELSE slots + 1
  /\ worker' = [worker EXCEPT ![id] = "start"]
  /\ request' = [request EXCEPT ![r] = IdleRequest]
  /\ UNCHANGED <<trackerVars, text, indexed>>

\* Runner.Go takes a slot without blocking and starts the goroutine.
RunnerGo(r) ==
  LET id == request[r].task IN
  /\ request[r].pc = "submit"
  /\ Free(r)
  /\ HasSlot
  /\ slots' = IF MaxConcurrent = 0 THEN slots ELSE slots + 1
  /\ worker' = [worker EXCEPT ![id] = "start"]
  /\ request' = [request EXCEPT ![r] = IdleRequest]
  /\ UNCHANGED <<trackerVars, text, indexed>>

\* Runner.Go returned false: the task fails and the client gets a 503.
RunnerFull(r) ==
  /\ request[r].pc = "submit"
  /\ ~HasSlot
  /\ Fail(r, request[r].task)
  /\ request' = [request EXCEPT ![r] = IdleRequest]
  /\ UNCHANGED <<worker, text, slots, indexed>>

-----------------------------------------------------------------------------
(* The goroutine of a task: Start, ExecuteVideoProcessWithObserver, then   *)
(* Fail or Complete.  Every report is a tracker call that returns before   *)
(* the next one is made.                                                   *)

At(id, pc) == worker[id] = pc
Goto(id, pc) == worker' = [worker EXCEPT ![id] = pc]

\* Variant: the goroutine does not report that it started.
BeginWorkUnreported(id) ==
  /\ At(id, "start")
  /\ Goto(id, "download_audio")
  /\ UNCHANGED <<trackerVars, request, text, slots, indexed>>

BeginWork(id) ==
  /\ At(id, "start")
  /\ Start(id, id)
  /\ Goto(id, "download_audio")
  /\ UNCHANGED <<request, text, slots, indexed>>

StepStarted(id, step) ==
  /\ At(id, step)
  /\ UpdateStep(id, id, step, "running")
  /\ Goto(id, IF step = "download_audio" THEN "downloading" ELSE "transcribing")
  /\ UNCHANGED <<request, text, slots, indexed>>

\* Variant: the pipeline returns its error without StepFailed.
RequiredStepFailsUnreported(id, step) ==
  /\ At(id, IF step = "download_audio" THEN "downloading" ELSE "transcribing")
  /\ Free(id)
  /\ Goto(id, "fail")
  /\ UNCHANGED <<trackerVars, request, text, slots, indexed>>

\* The audio tool is missing or fails, or the ASR tool is or does.
RequiredStepFails(id, step) ==
  /\ At(id, IF step = "download_audio" THEN "downloading" ELSE "transcribing")
  /\ UpdateStep(id, id, step, "failed")
  /\ Goto(id, "fail")
  /\ UNCHANGED <<request, text, slots, indexed>>

DownloadDone(id) ==
  /\ At(id, "downloading")
  /\ UpdateStep(id, id, "download_audio", "done")
  /\ Goto(id, "transcribe_audio")
  /\ UNCHANGED <<request, text, slots, indexed>>

\* The ASR tool answers JSON.  Its text field, whatever it is, replaces rawText
\* unless it is empty (nobody speaks): then rawText stays the whole JSON.
TranscribeDone(id) ==
  /\ At(id, "transcribing")
  /\ UpdateStep(id, id, "transcribe_audio", "done")
  /\ \E raw \in Heard :
       text' = [text EXCEPT ![id] = [raw |-> raw, final |-> raw, formatted |-> FALSE]]
  /\ Goto(id, "transcribed")
  /\ UNCHANGED <<request, slots, indexed>>

PublishTranscript(id) ==
  /\ At(id, "transcribed")
  /\ PatchOutput(id, id, TranscribedOutput(text[id].raw))
  /\ Goto(id, "format_transcript")
  /\ UNCHANGED <<request, text, slots, indexed>>

FormatStarted(id) ==
  /\ At(id, "format_transcript")
  /\ UpdateStep(id, id, "format_transcript", "running")
  /\ Goto(id, "formatting")
  /\ UNCHANGED <<request, text, slots, indexed>>

\* The tool is not registered; or it fails, or runs and skips because there is
\* no LLM, which it does not find out for blank text.  The task goes on with
\* the raw text.
FormatGivesUp(id) ==
  /\ \/ At(id, "format_transcript") /\ UpdateStep(id, id, "format_transcript", "skipped")
     \/ At(id, "formatting") /\ UpdateStep(id, id, "format_transcript", "failed")
     \/ /\ At(id, "formatting") /\ text[id].raw # "blank"
        /\ UpdateStep(id, id, "format_transcript", "skipped")
  /\ Goto(id, "finish")
  /\ UNCHANGED <<request, text, slots, indexed>>

\* The text that the tool's answer gives.  The LLM keeps the kind of a text; to
\* a blank one the tool answers with an empty formatted_text, and then the
\* pipeline takes the whole answer, trimmed, for the text.
FormattedBy(raw) == IF raw = "blank" THEN "envelope" ELSE raw

PublishFormatted(id) ==
  LET formatted == FormattedBy(text[id].raw) IN
  /\ At(id, "formatting")
  /\ PatchOutput(id, id, FormattedOutput(formatted))
  /\ text' = [text EXCEPT ![id].final = formatted]
  /\ Goto(id, "formatted")
  /\ UNCHANGED <<request, slots, indexed>>

FormatDone(id) ==
  /\ At(id, "formatted")
  /\ UpdateStep(id, id, "format_transcript", "done")
  /\ Goto(id, "finish")
  /\ UNCHANGED <<request, text, slots, indexed>>

\* completeVideoProcessOutput reads the tracked output back ...
ReadBack(id) ==
  /\ At(id, "finish")
  /\ Free(id)
  /\ LET output == IF id \in DOMAIN tasks THEN tasks[id].output ELSE EmptyOutput
         found  == TextOf(output, "formatted_text") # "blank" /\ Flag(output, "text_formatted")
     IN  text' = [text EXCEPT ![id] =
           [raw |-> TextOf(output, "raw_text"), formatted |-> found,
            final |-> IF found THEN TextOf(output, "formatted_text") ELSE @.final]]
  /\ Goto(id, "complete")
  /\ UNCHANGED <<trackerVars, request, slots, indexed>>

\* ... and Complete replaces the output by what it computed.
WorkDone(id) ==
  /\ At(id, "complete")
  /\ Complete(id, id, ReadyOutput(text[id]))
  /\ Goto(id, "exit")
  /\ UNCHANGED <<request, text, slots, indexed>>

\* Variant: the goroutine returns on an error without Fail.
WorkFailedUnreported(id) ==
  /\ At(id, "fail")
  /\ Goto(id, "exit")
  /\ UNCHANGED <<trackerVars, request, text, slots, indexed>>

WorkFailed(id) ==
  /\ At(id, "fail")
  /\ Fail(id, id)
  /\ Goto(id, "exit")
  /\ UNCHANGED <<request, text, slots, indexed>>

\* The deferred calls of Runner.Go: the slot is given back.
Release(id) ==
  /\ slots' = IF MaxConcurrent = 0 THEN slots ELSE slots - 1
  /\ worker' = [worker EXCEPT ![id] = "off"]
  /\ text' = [text EXCEPT ![id] = NoText]
  /\ UNCHANGED <<trackerVars, request, indexed>>

\* Variant: the goroutine returns without giving its slot back.
WorkerExitKeepsSlot(id) ==
  /\ At(id, "exit")
  /\ Free(id)
  /\ Goto(id, "off")
  /\ UNCHANGED <<trackerVars, request, text, slots, indexed>>

WorkerExit(id) ==
  /\ At(id, "exit")
  /\ Free(id)
  /\ Release(id)

\* Variant: the slot is given back after the work, not in a deferred call.
WorkerPanicKeepsSlot(id) ==
  /\ ToolsMayPanic
  /\ worker[id] \in {"downloading", "transcribing", "formatting"}
  /\ Free(id)
  /\ Goto(id, "off")
  /\ UNCHANGED <<trackerVars, request, text, slots, indexed>>

\* A tool panics: Runner.Go recovers, so neither Fail nor Complete runs.
WorkerPanic(id) ==
  /\ ToolsMayPanic
  /\ worker[id] \in {"downloading", "transcribing", "formatting"}
  /\ Free(id)
  /\ Release(id)

-----------------------------------------------------------------------------
(* POST /task/:id/index: IndexTranscriptTask, and GET /tasks.              *)

\* Variant: a task may be indexed as soon as its text is formatted.
IndexableEarly(task) ==
  /\ ~Flag(task.output, "knowledge_indexed")
  /\ TextOf(task.output, "formatted_text") # "blank"
  /\ Flag(task.output, "text_formatted")

Indexable(task) ==
  /\ task.status = "done"
  /\ ~Flag(task.output, "knowledge_indexed")
  /\ TextOf(task.output, "formatted_text") # "blank"
  /\ Flag(task.output, "text_formatted")

\* The checks on the copy that Get returns; a request that fails one of them
\* answers at once and changes nothing.
IndexCheck(r, id) ==
  /\ request[r].pc = "idle"
  /\ Free(r)
  /\ id \in DOMAIN tasks
  /\ Indexable(tasks[id])
  /\ request' = [request EXCEPT ![r] = [pc |-> "index", task |-> id,
                                        text |-> tasks[id].output["formatted_text"]]]
  /\ UNCHANGED <<trackerVars, worker, text, slots, indexed>>

\* What the knowledge base holds when the chunks of the request's text, if
\* there are any, are stored.
Stored(r) ==
  indexed \cup (IF request[r].text \in ChunkedTexts
                THEN {<<request[r].task, request[r].text>>} ELSE {})

\* Variant: an error of the tool is logged and the task is marked all the same.
IndexRunUnchecked(r) ==
  /\ request[r].pc = "index"
  /\ Free(r)
  /\ indexed' \in {indexed, Stored(r)}
  /\ request' = [request EXCEPT ![r].pc = "record"]
  /\ UNCHANGED <<trackerVars, worker, text, slots>>

\* The rag_index tool runs without any lock held.  It fails with or without
\* having stored the text, or it succeeds: also with a text without chunks.
IndexRun(r) ==
  /\ request[r].pc = "index"
  /\ Free(r)
  /\ \/ /\ indexed' = Stored(r)
        /\ request' = [request EXCEPT ![r].pc = "record"]
     \/ /\ indexed' \in {indexed, Stored(r)}
        /\ request' = [request EXCEPT ![r] = IdleRequest]
  /\ UNCHANGED <<trackerVars, worker, text, slots>>

IndexRecord(r) ==
  /\ request[r].pc = "record"
  /\ PatchOutput(r, request[r].task, [k \in {"knowledge_indexed"} |-> "true"])
  /\ request' = [request EXCEPT ![r] = IdleRequest]
  /\ UNCHANGED <<worker, text, slots, indexed>>

ListTasks(r) ==
  /\ request[r].pc = "idle"
  /\ List(r)
  /\ UNCHANGED gatewayVars

-----------------------------------------------------------------------------
GatewayCrash ==
  /\ Crash
  /\ request' = [r \in Requests |-> IdleRequest]
  /\ worker' = [id \in Ids |-> "off"]
  /\ text' = [id \in Ids |-> NoText]
  /\ slots' = 0
  /\ UNCHANGED indexed

GatewayRestart == Restore /\ UNCHANGED gatewayVars

Passing == Tick /\ UNCHANGED gatewayVars

StoreStep(a) == TrackerStoreStep(a) /\ UNCHANGED gatewayVars

-----------------------------------------------------------------------------
Init ==
  /\ TrackerInit
  /\ request = [r \in Requests |-> IdleRequest]
  /\ worker = [id \in Ids |-> "off"]
  /\ text = [id \in Ids |-> NoText]
  /\ slots = 0
  /\ indexed = {}

WorkerStep(id) ==
  \/ BeginWork(id)
  \/ \E s \in {"download_audio", "transcribe_audio"} :
       StepStarted(id, s) \/ RequiredStepFails(id, s)
  \/ DownloadDone(id)
  \/ TranscribeDone(id)
  \/ PublishTranscript(id)
  \/ FormatStarted(id)
  \/ FormatGivesUp(id)
  \/ PublishFormatted(id)
  \/ FormatDone(id)
  \/ ReadBack(id)
  \/ WorkDone(id)
  \/ WorkFailed(id)
  \/ WorkerExit(id)
  \/ WorkerPanic(id)

SubmitStep(r) == RunnerGo(r) \/ RunnerFull(r)

RequestStep(r) ==
  \/ \E id \in Ids : Submit(r, id) \/ IndexCheck(r, id)
  \/ SubmitStep(r)
  \/ IndexRun(r)
  \/ IndexRecord(r)
  \/ ListTasks(r)

Next ==
  \/ \E id \in Ids : WorkerStep(id)
  \/ \E r \in Requests : RequestStep(r)
  \/ \E a \in Actors : StoreStep(a)
  \/ GatewayCrash
  \/ GatewayRestart
  \/ Passing

Spec == Init /\ [][Next]_vars

\* The gateway keeps running what it has started: the scheduler of Go runs
\* every goroutine that can run, every tool call returns (Wrapper.Run gives
\* each attempt a timeout), and so does every store call.
Fairness ==
  /\ \A id \in Ids : WF_vars(WorkerStep(id))
  /\ \A r \in Requests : WF_vars(SubmitStep(r))
  /\ \A a \in Actors : WF_vars(StoreStep(a))

FairSpec == Spec /\ Fairness

-----------------------------------------------------------------------------
(* Properties.                                                             *)

WorkerPCs == {"off", "start", "download_audio", "downloading",
              "transcribe_audio", "transcribing", "transcribed",
              "format_transcript", "formatting", "formatted",
              "finish", "complete", "fail", "exit"}

TypeOK ==
  /\ TrackerTypeOK
  /\ request \in [Requests -> [pc : {"idle", "submit", "index", "record"},
                               task : Ids \cup {Main}, text : Texts]]
  /\ worker \in [Ids -> WorkerPCs]
  /\ text \in [Ids -> [raw : Texts, final : Texts, formatted : BOOLEAN]]
  /\ slots \in Nat
  /\ indexed \subseteq Ids \X Texts

Working == {id \in Ids : worker[id] # "off"}

\* The slots taken are exactly the goroutines that run, and never exceed
\* max_concurrent_video: no path, a panic included, leaks a slot or gives one
\* back twice (the deferred release of Runner.Go).
SlotsMatchWorkers ==
  MaxConcurrent # 0 => /\ slots = Cardinality(Working)
                       /\ slots <= MaxConcurrent

\* A task that has not ended is in somebody's hands: the goroutine that runs
\* it, or the request that is about to start one.  A tool that panics breaks
\* this, so it is checked where none does.
UnfinishedHasOwner ==
  \A id \in DOMAIN tasks :
    ~Terminal(tasks[id].status) =>
      \/ id \in Working
      \/ \E r \in Requests : request[r].pc = "submit" /\ request[r].task = id

\* What the steps of task t tell of how it ended.
StepsTell(t) ==
  /\ t.status = "done" =>
       /\ t.steps["download_audio"] = "done"
       /\ t.steps["transcribe_audio"] = "done"
       /\ TerminalStep(t.steps["format_transcript"])
       /\ t.steps["format_transcript"] = "done" <=> "formatted_text" \in DOMAIN t.output
  /\ Terminal(t.status) => \A s \in Steps : t.steps[s] # "running"

\* The steps of a task that ended tell how it ended: a done task has its audio
\* and transcript steps done and its formatting step decided, "done" exactly
\* when formatted text exists; and no ended task shows a step still running.
EndedTaskSteps == \A id \in DOMAIN tasks : StepsTell(tasks[id])

\* The chunks of text x of task id were stored, as far as it has any.
InKnowledge(id, x) == x \in ChunkedTexts => <<id, x>> \in indexed

FlagHonest(id, t) ==
  Flag(t.output, "knowledge_indexed") =>
    /\ t.status = "done"
    /\ "formatted_text" \in DOMAIN t.output
    /\ InKnowledge(id, t.output["formatted_text"])

\* A task that says knowledge_indexed is done, and the knowledge base got the
\* very text the task shows (IndexTranscriptTask reads the task, indexes
\* without a lock, and patches the task afterwards), unless nothing is left of
\* that text when it is cleaned: then rag_index succeeds with no chunk, the
\* task says knowledge_indexed all the same, and nothing was stored.
KnowledgeFlagHonest == \A id \in DOMAIN tasks : FlagHonest(id, tasks[id])

-----------------------------------------------------------------------------
(* The inductive invariant behind these properties.                        *)

\* What a step of the pipeline may say while the goroutine is at pc.
DownloadAt(pc) ==
  CASE pc \in {"start", "download_audio"} -> {"pending"}
    [] pc = "downloading" -> {"running"}
    [] pc = "fail" -> {"failed", "done"}
    [] OTHER -> {"done"}

TranscribeAt(pc) ==
  CASE pc \in {"start", "download_audio", "downloading", "transcribe_audio"} -> {"pending"}
    [] pc = "transcribing" -> {"running"}
    [] pc = "fail" -> {"failed", "pending"}
    [] OTHER -> {"done"}

FormatAt(pc) ==
  CASE pc \in {"formatting", "formatted"} -> {"running"}
    [] pc \in {"finish", "complete"} -> {"done", "skipped", "failed"}
    [] OTHER -> {"pending"}

\* Task t, and the texts x that its goroutine holds, are as the goroutine left
\* them on its way to pc: formatted text is in the output from its publication
\* on, and is what Complete will find.
AsReported(pc, t, x) ==
  /\ t.status = IF pc = "start" THEN "pending" ELSE "running"
  /\ t.steps["download_audio"] \in DownloadAt(pc)
  /\ t.steps["transcribe_audio"] \in TranscribeAt(pc)
  /\ t.steps["format_transcript"] \in FormatAt(pc)
  /\ "formatted_text" \in DOMAIN t.output <=>
       \/ pc = "formatted"
       \/ pc \in {"finish", "complete"} /\ t.steps["format_transcript"] = "done"
  /\ "formatted_text" \in DOMAIN t.output =>
       t.output["formatted_text"] # "blank" /\ Flag(t.output, "text_formatted")
  /\ pc = "complete" => (x.formatted <=> "formatted_text" \in DOMAIN t.output)

\* A goroutine at work has a task that is as its reports made it; it is never
\* forgotten, and one that is about to exit has ended its task.
WorkIsReported ==
  \A id \in Ids :
    /\ worker[id] # "off" => id \in used
    /\ worker[id] \notin {"off", "exit"} =>
         id \in DOMAIN tasks /\ AsReported(worker[id], tasks[id], text[id])
    /\ worker[id] = "exit" /\ id \in DOMAIN tasks => Terminal(tasks[id].status)

\* A request that submits holds a new task, which it shares with nobody.
SubmitsNewTask ==
  \A r \in Requests :
    LET id == request[r].task
    IN  request[r].pc = "submit" =>
          /\ id \in DOMAIN tasks /\ worker[id] = "off"
          /\ AsReported("start", tasks[id], text[id])
          /\ \A q \in Requests \ {r} : request[q].pc = "submit" => request[q].task # id

\* What a request indexes is the text of an ended task, as long as it is there,
\* also after others have indexed it or forgotten it.
IndexesEndedTask ==
  \A r \in Requests :
    LET id == request[r].task
    IN  request[r].pc \in {"index", "record"} =>
          /\ id \in used
          /\ id \in DOMAIN tasks =>
               /\ tasks[id].status = "done"
               /\ "formatted_text" \in DOMAIN tasks[id].output
               /\ tasks[id].output["formatted_text"] = request[r].text
          /\ request[r].pc = "record" => InKnowledge(id, request[r].text)

\* A goroutine saves its own task only; a request saves the task it submits, or
\* one that has ended.  So nobody else has a snapshot of a task at work.
SavesOwnTask ==
  /\ \A id \in Ids : /\ DOMAIN saving[id] \subseteq {id} /\ deleting[id] = {}
                     /\ worker[id] = "off" => saving[id] = NoTasks
  /\ \A r \in Requests : \A id \in DOMAIN saving[r] :
       \/ request[r].pc = "submit" /\ request[r].task = id
       \/ Terminal(saving[r][id].status)

\* Durable records, and those on their way, are as sound as the tasks that a
\* restart makes of them.
RecordsAreSound ==
  /\ \A id \in DOMAIN store : StepsTell(store[id]) /\ FlagHonest(id, store[id])
  /\ \A a \in Actors : \A id \in DOMAIN saving[a] :
       StepsTell(saving[a][id]) /\ FlagHonest(id, saving[a][id])

\* No request and no goroutine outlives the process.
NoneWhileDown ==
  ~up => (\A r \in Requests : request[r] = IdleRequest) /\ (\A id \in Ids : worker[id] = "off")

\* The conjunction that every step of the gateway preserves, together with
\* TrackerInv, EndedTaskSteps and KnowledgeFlagHonest.
VideoInv ==
  /\ TypeOK
  /\ SlotsMatchWorkers
  /\ WorkIsReported
  /\ SubmitsNewTask
  /\ IndexesEndedTask
  /\ SavesOwnTask
  /\ RecordsAreSound
  /\ NoneWhileDown

-----------------------------------------------------------------------------
(* What a step may not do, and what the gateway implements.                *)

\* While the process runs, a task that says knowledge_indexed keeps saying it:
\* no later report of the pipeline overwrites the flag.
KnowledgeFlagStays ==
  [][\A id \in DOMAIN tasks \cap DOMAIN tasks' :
       Flag(tasks[id].output, "knowledge_indexed")
         => Flag(tasks'[id].output, "knowledge_indexed")]_vars

\* The tracker is used as module TaskTracker lets it be used, so what is proved
\* of every client of the tracker holds here.
UsesTracker == TrackerSpec

\* The status clients see behaves as TaskLifecycle promises.
SaysDone(f, id) == id \in DOMAIN f /\ f[id].status = "done"

Lifecycle == INSTANCE TaskLifecycle WITH
  serving <- up,
  accepted <- used,
  visible <- [id \in Ids |-> IF id \in DOMAIN tasks THEN tasks[id].status ELSE "absent"],
  recoverable <- {id \in Ids : \/ SaysDone(tasks, id)
                               \/ SaysDone(store, id)
                               \/ \E a \in Actors : SaysDone(saving[a], id)}

RefinesLifecycle == Lifecycle!LifecycleSpec

\* Every accepted task ends, or the gateway that runs it stops.
TaskEnds ==
  \A id \in Ids :
    (id \in DOMAIN tasks) ~> (id \in DOMAIN tasks => Terminal(tasks[id].status))

\* A runner whose slots are all taken accepts work again.
SlotComesBack == ~HasSlot ~> HasSlot

-----------------------------------------------------------------------------
(* What the repository says and the code does not do.                      *)

\* TestTrackerDeletesPrunedTasksFromConfiguredStore: a task that pruning
\* removed is removed from the store; once nothing is in flight, no record of
\* an untracked task is left.
PrunedLeavesStore ==
  up /\ (\A a \in Actors : Idle(a)) => DOMAIN store \subseteq DOMAIN tasks

\* "Extract just the text field for further processing": the transcript a task
\* shows, and lets the user index, is what was said.
TranscriptIsSpeech ==
  \A id \in DOMAIN tasks :
    "formatted_text" \in DOMAIN tasks[id].output =>
      tasks[id].output["formatted_text"] = "speech"

=============================================================================
