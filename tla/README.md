# TLA+ models of VidWise

VidWise is a Go gateway (with Python model services beside it) that downloads
videos, transcribes and formats them, keeps a personal knowledge base in a
vector store, and answers questions about it. This directory models its
stateful parts and its algorithms, checks the models with TLC and proves
properties with TLAPS.

## The system and its parts

| Part | State | Operations | What is hard | What makes it correct |
|---|---|---|---|---|
| Task tracker, `internal/task/tracker.go` | map of tasks behind a mutex; a `TrackerStore` | Create, Start, Complete, Fail, PatchOutput, step updates, List, Prune, restore | store calls run after the unlock; pruning; crash and restart; failing store | nothing acknowledged is silently lost, outcomes are final, only ended tasks are forgotten |
| Background runner, `internal/background/runner.go` | slots, wait group | Go, Wait | rejection when full, panics | a slot per running goroutine |
| Video pipeline and handlers, `internal/agent/graph.go`, `internal/server/handler/video.go` | goroutine per task, its texts | submit, three steps, index a transcript | every path must report; index request races the worker's last save | the task a client polls goes pending, running, done or failed |
| File store, `internal/task/store_file.go` | JSON file, loaded flag | Load, SaveTask, DeleteTasks | failed reads and writes, rename | what was saved is what is loaded |
| MySQL repository, `internal/task/repo.go` | task, step and transcript tables | SaveTask, DeleteTasks, Load, import of the file | failing transactions, a start without MySQL, an import cut off | Load tells what was last saved, whole |
| DAG runner, `internal/task/runner.go`, `manager.go` | step table | CreateTask, Run | failed and never-ready steps, repeated runs | dependencies first, every run ends |
| Pending actions, `internal/knowledgeagent/store.go` | actions with status, retention and capacity | Add, Reserve, Complete, Fail | two confirmations, eviction, restart | an action runs at most once |
| Knowledge agent, `internal/knowledgeagent/agent.go` | sessions, pending actions | Turn, Confirm | confirmation after restart or eviction, scope of the delete | only what was proposed is done, for the user it was proposed to |
| RAG sources, `internal/rag`, `internal/ragregistry` | points in Qdrant, rows in MySQL | index, delete, list | delete then insert without a transaction; registry and points apart; scopes | one whole version of a source, within its scope |
| RAG retrieval, `internal/rag/retriever.go`, `context.go`, `internal/chatagent` | none of its own | retrieve, rerank, pack, answer | every service may fail; a budget of runes | own, relevant chunks only, numbered as cited; an honest outcome |
| Text processing, `internal/chunk`, `internal/paragraph` | none | split, format | separators, headings, overlaps; concurrent formatting | chunks fit and lose nothing; results in order |
| Memory, `internal/memory` | facts with status | upsert, supersede, confirm | concurrent jobs, targets named by a model | one active fact per key, of the right user |
| Chat, `internal/server/handler/chat.go`, `internal/chat` | sessions, messages | query | concurrent queries, failing turns | a question and its answer, a title |
| Tool wrapper, `internal/tool/base.go` | retry count, circuit breaker | Run | retries across generations, half-open breaker | bounded attempts, true counts |
| Web search, `internal/search` | cache, providers | search, fetch | failing services, an unlocked look at the age, a worker pool | sound sources, fresh answers |
| ASR, `asr_service` (Python) | a connection's buffers; an order | stream, transcribe | two counters of samples; polling; times of pieces | no speech lost, in order; pieces follow one another |
| Embedding and summary services, configuration, extraction, MCP, web page | none between requests | | | |

The gateway process holds everything in memory; the durable state is in MySQL
or the JSON file, Qdrant and Redis. Handlers call the tracker, the runner and
the knowledge agent; the pipeline reports to the tracker through an observer;
tools are called through the wrapper; turns read chunks and facts and leave
messages, facts and titles behind.

## Modules

A definition called a *variant* in its comment is a plausible mistake in the
definition after it; it is used only to show that a property notices.

### Tasks

* `TaskTracker` - the tracker. `tasks` is the map, `store` the durable records.
  A call changes the map in one step (it holds the mutex) and leaves the
  snapshot in `saving[a]` and the pruned ids in `deleting[a]`; `SaveTask` and
  `DeleteTasks` are the later store calls of the same goroutine `a`. Between
  them every other goroutine may move, which is what
  `TestTrackerDoesNotHoldLockDuringPersistence` demands of the code. `Crash`
  and `Restore` are the end and the start of the process. A task is its status,
  the status of its steps, its output map and its finish time.
  `TrackerCall` states what the tracker needs of its callers (`OwnerMay`): no
  call changes the status or steps of a task while a snapshot of it is unsaved
  or once it has ended.
* `TaskLifecycle` - the abstract promise to a client that polls a task.
* `VideoTasks` - extends `TaskTracker` with the request handlers, the runner's
  slots, the goroutine of each task with every report it makes, and requests
  that index a finished transcript. `worker[id]` is the program counter of the
  goroutine of task `id`. `RefinesLifecycle` is its refinement of
  `TaskLifecycle`, `UsesTracker` that it keeps `OwnerMay`.
* `FileStore` - the JSON file behind the tracker when there is no MySQL. Its
  mutex admits one call at a time: `Begin` loads the file if it was not loaded
  and changes the map, `WriteFails` or `Replace` ends the writing of the
  temporary file, `Return` answers. A temporary file that a crash leaves behind
  is never read and is not in the model. The `store` of `TaskTracker` is the
  contract (a save that succeeds is there after a restart, one that fails
  changes nothing on disk until a later one succeeds) that `FileStore` shows
  the file to meet while it can be read.
* `TaskRepo` - the MySQL repository. `records`, `stepRows` and `transcripts` are
  its tables; `SaveTask` and `DeleteTasks` are one transaction each, which may
  fail as a whole; `Loaded` puts a task together again, texts of the output and
  of the transcript included. `Start` finds MySQL or goes on with the file,
  `importTaskFallbackStore` copies the file task by task into an empty
  database, and the process may end anywhere. `expected[id]` remembers what
  callers were told.
* `StepRunner` - `CreateTask` of the manager and `Run` of the DAG runner: a run
  reads the steps once and works in rounds; each call of the database is a
  step of its own and may fail; two runs of a task may meet. Every DAG over the
  step names is tried, cycles too.

Abstractions: an id is a model value that `uuid.New` returns once; texts are
`"speech"` (what was said), `"envelope"` (the JSON that a tool answers around
it), `"noise"` (not blank, but cleaning leaves nothing of it) or `"blank"`, and
model values in `TaskRepo`. The kinds of text are those that the code takes
apart: an empty ASR text falls back to the envelope, a blank one reaches the
format tool, whose whole answer then becomes the transcript, and `rag_index`
succeeds with zero chunks when cleaning leaves nothing, so that a task may be
marked indexed with nothing stored (`KnowledgeFlagHonest` asks for the text only
as far as it has chunks). The steps of the pipeline that only compute are part
of the report that follows them; error texts, user ids, list filters and copies
are left out. `time.Now` is a counter.

### The knowledge agent and its conversations

* `PendingActions` - `Turn` and `Confirm` of the agent over its `ActionStore`.
  `turn[t]` and `confirm[c]` say where each request is; one action of the model
  is one critical section of the store or one call outside it: a turn posts the
  user's message, decides and adds the action, posts its answer; a confirmation
  is reserved, its tool is run, the outcome is posted in the session of the
  proposal, and `Complete` or `Fail` recorded. `offers`, the outcome of a
  confirmation and `log` are what an observer remembers.
* `ConfirmOnce` - the abstract promise: an offer is taken at most once, by the
  user to whom it was made, or withdrawn. `RefinesConfirmOnce` maps pending
  actions to open offers and confirmations that got past `Reserve` to takings.
* `Maps` - put, drop and restrict on functions with a changing domain; `Lists` -
  the loops over slices, as recursive functions.
* `ChatTurns` - concurrent `ChatQuery` requests over `chat_sessions` and
  `chat_messages`: session, history, question, answer, count, title, each a
  call of its own that may fail, and the background job that writes the title.
  `AgentTurns` are the requests that are turns of the knowledge agent: they
  write to the same rows in the same order, count nothing and start no title
  job, and the confirmation of an action that a turn offered appends one more
  message (`SaveResult`).
  Messages are in the order in which they are inserted, by which the code
  reads them.
* `MemoryFacts` - the background jobs that apply an LLM's operations to the
  facts of a user, row by row and without a transaction. The LLM may name any
  row that is there as the target of a supersede, another user's or the one
  that the operation updates included; an id that it invents hits no row.
* `ToolCalls` - the tool wrapper: attempts with retries inside one request of
  gobreaker, whose states, generations and counts are the external part. Calls
  run concurrently, and a tick may pass at any attempt. A tool may panic: the
  breaker counts a failure, and the panic leaves `Run` past the retries.

Abstractions: what a message is routed to, what a tool answers and what the LLM
extracts are nondeterministic choices; `Result` and `CreatedAt` of a stored
action are never read and are left out; both handlers refuse an empty user id;
without a chat database every message is lost, which is the case that every
call fails; counters, evidence and times of facts are left out, and with them
what `ConfirmFact` changes.

### Sources, answers and the web

* `KnowledgeSources` - `SourceManager`, `Indexer`, `SourceCatalog` and the
  registry. `points[s]` are the chunks of source `s` in Qdrant, as it
  acknowledged them, and `visible[s]` those that searches and scrolls see: the
  code upserts without `wait`, so an upsert is seen some time later (`Apply`),
  and deletes with it, so a delete is seen with everything before it.
  `registry[s]` is the status of the row in MySQL. `request[r]` is one call of
  `IndexSourceScoped` (chunking and embedding, clearing, upserting, recording)
  or `DeleteSourcesWithOptions` (deleting, marking); each call of a database is
  an action that may instead fail, with or without effect. `clashed`, `told`,
  `given` and `unrecorded` remember what requests were told: `told` of every
  request, `given` of those whose text had chunks. A text without chunks is
  reported as indexed and leaves the earlier version of the source where it is.
  Without MySQL there is no registry: every registry call ends as in
  `RegistryFails`.
* `KnowledgeTurn` - one turn of the chat agent: deciding to search, the rewritten
  and the original query, the filter of the scope, the reranker and its
  fallback, the minimum score, the packing of snippets under the budget of
  runes, the answer and what it cites. Scores are an order; the chunks have an
  owner, a source, a content and a relevance.
* `Chunking` - `SplitText`: blocks of Markdown or paragraphs, packing of units,
  sections with repeated headings, the levels of `splitRecursive`, windows, and
  the filter of short chunks. A text is a sequence of stretches, each with the
  runes it has, what it ends with and what follows it; a document is a sequence
  of lines. The loops of the code are `Looped`, `Only` and `Grouped` of `Lists`:
  packing and the two splits into blocks are where groups of a slice begin.
  Blank lines in a fence and the share of letters in `isLowQuality` are left
  out.
* `WebSearch` - one search after a miss of the cache: rewriting, providers in
  turn, extraction, ranking, merging and cutting; each step may fail. The rerank
  service may answer any indexes in any order, out of range and repeated ones
  too: the reranker takes a repeated index again, and `repeated` remembers it.
* `SearchCache` - the cache under concurrent searches: the read under the read
  lock, the look at the age without one, the removal and the store under the
  write lock, the list of keys that eviction takes from.
* `WorkerPools` - the sender, the goroutines and the wait of the crawler and of
  the parallel formatter, with the callers that fall back to the raw text.

Abstractions of `KnowledgeSources`: a source's name, URL, task and content type
are one value; a text without any of these is a source per chunk. The texts of
one source have the same Markdown headings, so chunk `i` of one replaces chunk
`i` of another. A list is not cut at its limit, and the display metadata that
the catalog merges is left out.

### Speech

* `AsrStream` - one connection to `/stream` with the `VADIterator` of Silero
  behind it (external): chunks, the start and end it reports (never both for a
  chunk), the buffer that is sent when it is full, `config` and `end` messages,
  and the `finally` that sends what is left. The VAD object is shared by
  connections; what that changes is its judgement, which is chosen freely.
* `AsrBackends` - a file at XFYun (orders, polling until a deadline, pieces with
  an offset), Baidu (pieces) or Whisper (windows). Durations may be unknown.

### Instances for TLC

`MCTaskTracker`, `MCVideoTasks`, `MCFileStore` and `MCKnowledgeSources` are
instances of one module. `MCConversations`, `MCRequestsSettle`, `MCKnowledge`
and `MCWorkAndKnowledge` are instances of several modules that share no state:
the variable `part` (and `work`, which adds five modules to those of
`MCKnowledge`) is chosen at the start and says which of them runs, while the
others stay in their first state. `MemoryFacts` is also run by itself. Each such
run is a sum of independent searches, not a product, and its properties are
those of all its modules.

## Runs

| Run | Question |
|---|---|
| `tracker_any_client` | Is the tracker right under every client that keeps `OwnerMay`, with failing stores and crashes? |
| `video_tasks` | Do handlers, runner and pipeline keep slots, steps and the knowledge flag right, and implement `TaskLifecycle`? |
| `video_tasks_liveness` | Does every unfinished task have an owner and end, does a full runner open again, and do the handlers keep the tracker's obligation? |
| `conversations` | Is an action run once and for its user, and everybody told the truth (`ConfirmOnce`)? Do messages, titles and facts stay with their session and user, with queries, agent turns and confirmations together? Are retries bounded and the breaker's counts true, with tools that panic? |
| `requests_settle` | Do actions leave `executing`, sessions that a query opened get their titles, runs of steps and calls of the pools end? |
| `work_and_knowledge` | Do the file and MySQL give back what was saved, with failures and restarts anywhere? Are steps run in order? Is speech, streamed or recorded, transcribed whole and in order? Does the next undisturbed request repair a half-done source, and does the catalog tell the truth? Are answers made from one's own chunks? Do chunks fit and keep the text? Are web answers sound and cached ones fresh? |
| `pruned_leaves_store`, `transcript_is_speech`, `file_store_unreadable`, `deleted_is_gone`, `answers_without_reranker`, `fact_shown_once` | Counterexamples to what the repository says, below |

Bounds:

* Tasks: two tasks and one or two request goroutines, so that a worker, another
  task and an index request meet; `MaxTasks = 1`, so that the second creation
  evicts; `RetainFor = 1` and a clock of one or two ticks, so that a task
  expires; one slot, or two, so that the runner is full in some runs and has two
  workers in others; `LockWait = 1` in the tracker's run, so that pruning uses a
  clock reading older than the tasks it judges. `Heard` are the texts that the
  ASR tool may answer: all four kinds in the safety run, one where liveness is
  checked, since no branch on a text ends a task differently. Every interesting
  interleaving involves at most two tasks, two callers and the goroutine of
  `restore`.
* Stores: three ids in the file, so that one call names two tasks and spares a
  third, and two snapshots; two tasks in MySQL, saved without texts, as older
  versions saved them, and formatted, so that each kind replaces each other.
* Step runner: three steps, with every relation between them as dependencies,
  and two runs, together or one after the other; two steps in the liveness run.
* Pending actions: two ids, two turns, three confirmations (two that compete
  and one that comes late), `MaxActions = 1`, so that the second proposal
  evicts the first whatever its state, a clock of three ticks and `LockWait = 1`.
* Chats: two sessions, two queries and a turn of the agent, which meet in one
  session or not, and a history of two messages, less than a session has in the
  end; one session where liveness is checked, since no two sessions share
  anything.
* Facts: two users with two keys, two jobs of two operations each, three rows.
* Tools: three calls, one retry, a breaker that trips at the second failure in
  a row and admits one call on probation; an interval that one call outlasts.
* Sources: one user and one anonymous session, each with sources of the same two
  names; texts of two, one and no chunks; two requests at a time and three in
  all (a clash of two, and the one that repairs it).
* Turns: five chunks, of which two say the same, and one each belongs to another
  session, to another user, and is irrelevant; a budget of eight runes, which
  holds two snippets and cuts a third.
* Chunking: chunks of twelve runes, every text of up to three stretches of five
  kinds (one longer than a chunk), sections and paragraphs with long and short
  headings, breaks, and fences with lines like headings in them.
* Web: one provider and two queries, two links, three items, and a rerank service
  that answers up to three indexes (`RerankSize`), more than there are
  documents, so that it can repeat one; cache: three
  searches, two queries and room for one.
* Pools: two goroutines and up to three jobs, so that a goroutine serves twice.
* Speech: chunks of one or two samples, a buffer of four, six samples in all;
  recordings of two pieces of known or unknown duration, an order that is
  polled up to three times, windows of five samples on up to fourteen.

`MaxClock`, `MaxTicks`, `MaxTime`, `MaxOps`, `RerankSize`, `MaxSamples` and
`MaxStarts` only end the run. What is proved does not depend on any bound.

Deadlock is not checked in the runs in which every request may come to its end.

Fairness: the Go scheduler runs every goroutine that can run, so the worker of a
task, a submission or confirmation in progress and a pending store call are
weakly fair (`FairSpec` of `VideoTasks` and `PendingActions`), and so are a
query once its request was read (`ChatFairness`, with its title job), a run of
steps (`RunnerFairness`) and the goroutines of a pool (`PoolFairness`). It
assumes that tools and store calls return, which the two-hour context of the
runner and the timeouts of the tool wrapper are for. Requests that clients may
or may not send, crashes, restarts and ticks have no fairness. `ToolsMayPanic`
is false in these runs: after a panic a task stays running, and an action
executing, until the next start, which the code accepts (`Runner.Go` and gin
recover and report nothing).

## Findings

* `PrunedLeavesStore`: a `SaveTask` that runs after the `DeleteTasks` of a
  pruning puts the record back.
* `TranscriptIsSpeech`: an empty recording ends with the JSON of the ASR
  service as its transcript.
* `PersistsAcrossInstances` with a file that cannot be read once:
  `loadLocked` counts the empty map as loaded, and the next save overwrites
  every task in the file.
* `DeletedIsGone`: a delete confirmed in the chat filters by user and session,
  while a user's sources are stored without session: nothing is deleted and
  the user is told that it was. The agent's list of sources has the same filter.
* `VectorSearchOnly`: without a healthy rerank service the retriever holds a
  nil client in an interface that is not nil, and panics when it reranks.
* `KeyIsShownOnce`: two extractions of a user that meet create two active rows
  for one key, which is the trace that TLC finds. With one job of two operations
  it fails too: a supersede by a fact with the same key updates the old row and
  then marks it as superseded by itself, and the fact disappears. `FactInv`
  excepts both cases; this property states them without the exception.

Met while modelling, and stated as an exception in the property named, without
a run of its own:

* `ChatTurns!SessionsGetTitles`: the title job starts when a session holds one
  user message ("generate on first user message", `chat.go:204`), and a turn of
  the agent writes its message without starting one, so a session that a turn
  opened keeps the default title.
* `AsrStream!SentencesInOrder`: `{"event": "end"}` sends the utterance in the
  buffer in its handler and again in the `finally`. `SpeechIsHeard`: a `config`
  in the middle of an utterance drops what was buffered.
* `AsrBackends`: XFYun's times up to 60 milliseconds are read as seconds, which
  moves a segment and may stretch its piece (`PiecesFollow` holds all the same).
* `Chunking!TextIsKept`: the heading of a long section that takes more than two
  thirds of a chunk is left out of every chunk.
* `KnowledgeSources!SourceIsWhole`: a source indexed again with a text of which
  cleaning leaves nothing is told to be indexed and keeps its earlier text.
* `WebSearch!SourcesAreSound`: a document that the rerank service names twice is
  twice among the sources.
* `ChatTurns!SessionsGetTitles`: two first queries that meet both count two
  messages, and the session never gets a title.
* `StepRunner!OnlyStuckLeftOut`: a step that stayed running in an earlier run is
  left out of the next, which then completes the task.

## Proofs

Every theorem holds for all values of the constants that meet the assumptions of
its module: any number of tasks, requests, users, sessions, chunks or workers,
and any limits. None of the bounds above is used. The assumptions are the
configuration's own limits and that names differ: the goroutines of requests,
of tasks and of `main` (`VideoConstants`), "no record" and the records of a task
(`RepoConstants`).

| Module | What it proves | Of |
|---|---|---|
| `TaskTracker_proofs` | type invariant, `TrackerInv`, the state and action properties of `tracker_any_client` | `TrackerSpec` |
| `VideoTasks_proofs` | `VideoInv`, `EndedTaskSteps`, `KnowledgeFlagHonest`, `KnowledgeFlagStays`, `UnfinishedHasOwner`, `UsesTracker`, the refinement of `TaskLifecycle` | `Spec` of `VideoTasks` |
| `PendingActions_proofs` | `ActionInv` and its parts, `ActionsAreHonest`, `ActionsMoveForward`, the refinement of `ConfirmOnce` | `Spec` of `PendingActions` |
| `Conversations_proofs` | `ChatInv`, `FactInv`, `OnlyOwnFacts`, `ToolInv` | `ChatTurns`, `MemoryFacts`, `ToolCalls` |
| `Answers_proofs` | `TurnInv`, `WebInv`, `CacheInv`, `SourceIsWhole`, `ListsWhatIsThere`, `OthersUntouched` | `KnowledgeTurn`, `WebSearch`, `SearchCache`, `KnowledgeSources` |
| `Chunking_proofs` | `ChunkInv`: `ChunksFit`, `TextIsKept`, `TextInOrder`, `FencesAreWhole` | `Chunking` |
| `TaskWork_proofs` | `FileInv` and `PersistsAcrossInstances`, `RepoInv`, `RunnerInv`, `PoolInv`, `StreamInv`, `AsrInv` | `FileStore`, `TaskRepo`, `StepRunner`, `WorkerPools`, `AsrStream`, `AsrBackends` |
| `MapTheorems` | lemmas on maps, on least and greatest numbers, and on loops | `Maps`, `Lists` |

The properties are seldom inductive. What each proof adds to them:

**Tasks.** `TrackerInv` has `KnownIds` (ids come from `used`, so a created id is
in no map, record, snapshot or pending delete), `DownIsEmpty` (what restore finds
in memory), `SnapshotsAgree` (snapshots in flight say of status and steps what the
map says, and agree with an ended record and with each other: the fact that makes
the order of late saves harmless for the status) and `EndsAgree` (a record that
ended agrees with the map). One lemma per action shows that it preserves each
conjunct; `InvUpdate` covers all five calls that replace one task, and
`PruningsTerminal` and `PruningsFit` say what `pruneLocked` may remove and leave.

`TrackerSpec` has `OwnerMay`, the obligation of the tracker's callers, in its
steps. `GatewayUsesTracker` discharges it: every step of the gateway is a step
of `TrackerSpec` or leaves the tracker alone, so that everything proved of the
tracker holds of the gateway (`GatewayKeepsTasks`). `VideoIndInv` is
`TrackerInv` with `VideoInv`, `EndedTaskSteps`, `KnowledgeFlagHonest` and the
finiteness of the slots in use. `ImplementsLifecycle` shows for every step that
what a client sees of a task starts, goes on, ends, is forgotten or stays; a
restart is the hard one, as it must not show a task that was never acknowledged,
nor an end that is not that of the record. `UnfinishedOwned` has the hypothesis
`~ToolsMayPanic`: after a panic a task does stay running without an owner.

`FileKeeps` and `FilePersists` have the hypothesis `~ReadMayFail`, without which
the property is false (see Findings); `FileInv` relates the file, the map in
memory, and what a reader may be told. For `TaskRepo`, `RepoIndInv` says that the
rows of a task are those of a view that was saved (`RowsAreOf`), while an older
transcript may stay, and that an import meets no rows (`ImportsIntoNothing`);
`RowsTell` says that such rows, put together again, tell the view. For
`StepRunner` the invariant adds `StepHeld` (a round that starts holds no step that
it could offer again) and `IdleUntilCreated` (no run sees its DAG change), and
`Sound(f)` says both of the local variables of one run. `PoolIndInv` adds that a
goroutine works on a job of the task and that an untouched place holds what it
held at first.

**Speech.** `StreamIndInv` says of an open connection that what was sent came
before what is buffered and in order, that the buffer has each sample once, and
that an iterator that reported no start has heard nothing that is only buffered
(`VadSound`). `AsrIndInv` says where the pieces stand, that no segment ends after
the offset of the next piece, and what the polls have cost; the windows of Whisper
are counted by the least number of windows that reaches the end (`WindowsSound`).

**Conversations.** `ActionInv` adds `KnownIds`, `TurnsFilled`, `OwnersAgree`
(the store remembers to whom an action was offered), `PhasesAgree`,
`PendingIsUntouched` (what is pending was never started: the fact that `Reserve`
rests on) and `RunningIsExecuting`. For the refinement every step is shown to
make, take or withdraw offers, or to stutter. `HonestInv` says what every turn
and confirmation has done and told so far, and ties each message of the log to
the one run of its action. `ChatIndInv` says where the question, the answer and
the result of a request may be in the messages of its session, and that its
history is a stretch of them that ends before its question. For `MemoryFacts`,
`JobsSound` says what a job may rely on between the lookup of a row and the
write, and `JobsAlone` that jobs of one user run at a time only if `overlapped`
has the user, which is what makes the exception in `OneActivePerKey` and
`LatestIsKnown` enough. `ToolIndInv` counts the calls of each generation of the
breaker, whose counters are at most as high; a call that panicked is one that
failed after fewer attempts.

**Sources and answers.** `SourceIsWhole` speaks of sources at rest, so `SourceInv`
says what is true on the way there:

* `IndexesOwn`: an index request writes to the scope its source is named in;
* `ChunksOwned`: chunks belong to the scope of their source, which makes a
  filtered delete take all of them or none;
* `AloneIsAlone`, `UnclashedAlone`: two requests meet on a source only if it
  clashed, so the requests on any other source are alone there;
* `PhaseFacts`: what a request that is alone has made of the chunks so far;
* `WholeAsEnded`, `RegisteredAsEnded`: until a request begins to change a
  source, its chunks and its row are as the last one left them.

A step of one request is `Confined` to its source; `EndsKeeps` and `MovesKeeps`
show once that a confined step keeps the invariant when the request leaves its
source settled, or has the facts of its next phase. `ScopesApart` follows from
what each call of Qdrant does to the points (`DeleteEffect`, `UpsertEffect`).

`TurnIndInv` says of a turn in every phase that its chunks are `Visible` to its
request, whatever Qdrant and the reranker answered (`HitsVisible`, `RerankedOf`),
that its prompt is `PackSound`, and what its status tells of its chunks.
`PackContextSound` is the lemma on the packing loop: while nothing was cut, the
number of the next snippet follows the last one, which is what keeps the numbers
without a gap although duplicates are skipped. `WebIndInv` says that no link was
collected twice (nor ranked twice, unless the rerank service `repeated` a name)
and that the documents are `DocsSound` from the crawl on: every
one is a page that was read or a snippet without one, which merging, ranking and
cutting preserve. In the search cache, what is in the map and what a search has
read of it is `Genuine`: it is what some search computed for that query when it
ended, and expires `TTL` after that. An ended search never moves again, so a copy
stays genuine while the entry is dropped or replaced.

**Chunks.** `ChunkInv` speaks of the result of one call, so the invariant
`ChunkIInv` only says that the chunks are those of the document; what is proved is
the algorithm, for every document of `ChunkConstants` (lines of any number and
length whose stretches are in order). The points of a text are its runes, each
with the id of its stretch. A list of texts is a `Division` of a set of points if
it has all of them, in order and none twice, and `Says` them if its texts end one
after another and nothing is missing but what may be lost: a division says
everything, and windows and repeated headings keep that but overlap.

* `JoinedShape`, `AllJoinedKeeps`: `strings.Join` changes white space only.
* `BeginsFit`: the loop of `packSegments` and `packUnits` counts at least the
  runes of the chunk it builds (`FitSoFar`), so that what is between two begins
  fits or is one text that is too long.
* `CutParts`, `CutAtParts`: each level of `splitRecursive` makes a division of a
  division, and a part that is still too long is `Stuck` at all levels so far;
  after the last one it is a single stretch (`OnePart`), which `SlidingSays`
  covers with windows: the next one starts after the last started and at most
  one rune after it ended, and one window for each rune is enough.
* `BlocksDivide`, `UnitsDivide`: blocks, and sections or paragraphs, are
  divisions of the text.
* `SplitUnitSays`: a section that is too long says all but a heading that is not
  repeated (`LostOf`), and a repeated one leaves room for the body
  (`AvailableFits`).
* `FenceBegins`: between the first fence and its end the scan of
  `splitMarkdownBlocks` begins no block (`InFence`).

**Loops.** The library's induction theorems take an operator as a parameter, which
none of the provers can instantiate. The proofs use the least number for which
something fails instead (`LeastNatural`, which cites `WFMin`). With it
`LoopKeeps` shows that what every step of a loop over a slice keeps holds after
the loop, for a loop written with `Looped` of module `Lists`, and `OnlyPicks`
that a filtering loop keeps the right elements in their order, and
`GroupedDivides` that a grouping loop cuts a slice into ranges that begin where
it was told.

Model-checked only:

* liveness under fairness (`TaskEnds`, `SlotComesBack`, `ExecutionSettles`,
  `SessionsGetTitles`, `RunsEnd`, `PoolEnds`), which is out of the prover's reach;
* the counterexamples under Findings, each of which is one behaviour.

## Plan

1. Done: every component below `internal/` that keeps state of its own, the
   algorithms of chunking, retrieval and search, and the ASR service.
2. Done: a theorem for every invariant, action property and refinement that the
   passing runs check.
3. Still worth doing: the rules on characters of `cleaner.go` and `markdown.go`,
   over the stretches of `Chunking`, and blank lines in a fence.

## Not modelled

* Configuration (`internal/appconfig`): settings are read and defaulted once;
  what they may be is in the assumptions on the constants.
* `internal/rag/cleaner.go`, `markdown.go`, and the document extraction: rules on
  characters and formats, without a state. What cleaning may leave (nothing,
  too) is in `KnowledgeSources`.
* The Redis cache of searches: `GET` and `SETEX` of one key, whose expiry and
  consistency are Redis'; an error is a miss.
* The embedding and video summary services, the MCP server, the web page, the
  tools' adapters and the agents' HTTP handlers: one call in, one call out, with
  no state between requests; what their failure does is in the modules of the
  callers.
* The capability report: computed once, at the start, from the health checks.
* Of the ASR service: local models and their loading, the single call of the
  Aliyun backend, and the upload to `/transcribe`.

`PROJECT.json` lists every component with its status and reason.
