------------------------------ MODULE TaskRepo ------------------------------
(***************************************************************************)
(* The task store that the gateway uses with MySQL: internal/task/repo.go, *)
(* and the import of the JSON file that it used without                    *)
(* (importTaskFallbackStore of internal/server/router.go).                 *)
(*                                                                         *)
(* A task is spread over three tables; SaveTask and DeleteTasks change     *)
(* them in one transaction, and Load puts a task together again.  At every *)
(* start the gateway finds MySQL, or goes on with the file.  The file      *)
(* store itself is module FileStore; here it is a map.                     *)
(***************************************************************************)
EXTENDS Maps

CONSTANTS
  TaskIds,
  StepsOf,        \* the names of a task's steps
  Transcripts, NoText,  \* transcripts, and the empty one
  Views,          \* what the tracker saves of a task
  NoRecord,         \* "no task with this id"
  MySQLMayFail    \* whether a call of the database may return an error

Marks == {"unset", "no", "yes"}

Output == [raw_text : Transcripts \cup {NoText}, text : Transcripts \cup {NoText},
           formatted_text : Transcripts \cup {NoText},
           text_formatted : Marks]    \* and can_index_knowledge: always the same

RowStatuses == {"pending", "running", "done", "failed", "skipped"}

View == [status : RowStatuses, steps : UNION {[S -> RowStatuses] : S \in SUBSET StepsOf},
         output : Output]

ASSUME RepoConstants ==
  /\ NoText \notin Transcripts
  /\ Views \subseteq View
  /\ NoRecord \notin View
  /\ MySQLMayFail \in BOOLEAN

VARIABLES
  records,      \* the rows of tasks: status and output
  stepRows,     \* the rows of task_steps: stepRows[id][name] is a status
  transcripts,  \* the rows of transcripts
  taskFile,     \* the tasks in the fallback file
  gateway,      \* what the gateway does: down, importing, or serving tasks
  toImport,     \* tasks of the file that the import has not come to
  expected      \* expected[id]: history: what Load may say of id, as a set of views

repoVars == <<records, stepRows, transcripts, taskFile, gateway, toImport, expected>>

-----------------------------------------------------------------------------
(* Between a task and its rows.                                            *)

\* transcriptTexts: text stands in for a missing raw_text.
RawText(o) == IF o.raw_text # NoText THEN o.raw_text ELSE o.text

HasText(o) == RawText(o) # NoText \/ o.formatted_text # NoText

NoTranscript == [raw |-> NoText, formatted |-> NoText]

TranscriptOf(id) == IF id \in DOMAIN transcripts THEN transcripts[id] ELSE NoTranscript

\* setOutputDefault
Default(value, unset, default) == IF value = unset THEN default ELSE value

\* patchOutputFromTranscript: what the output misses comes from the row, and
\* the formatted text takes the place of the raw one.
Patched(o, t) ==
  LET raw  == Default(o.raw_text, NoText, t.raw)
      text == Default(o.text, NoText, t.raw)
  IN  IF t.formatted = NoText THEN [o EXCEPT !.raw_text = raw, !.text = text]
      ELSE [raw_text |-> raw,
            text |-> IF text \in {NoText, t.raw} THEN t.formatted ELSE text,
            formatted_text |-> Default(o.formatted_text, NoText, t.formatted),
            text_formatted |-> Default(o.text_formatted, "unset", "yes")]

\* trackedTaskFromRecord, with the rows that Load finds for the task.
Loaded(id) ==
  IF id \notin DOMAIN records THEN NoRecord
  ELSE [status |-> records[id].status, steps |-> stepRows[id],
        output |-> Patched(records[id].output, TranscriptOf(id))]

-----------------------------------------------------------------------------
(* SaveTask and DeleteTasks.                                               *)

\* saveTrackedSteps: one row per step is updated or created, others deleted.
SavedSteps(id, v) == v.steps

\* Variant: an empty formatted text is not written.
SavedTranscriptKept(id, v) ==
  IF ~HasText(v.output) THEN transcripts
  ELSE Put(transcripts, id,
           [raw |-> RawText(v.output),
            formatted |-> Default(v.output.formatted_text, NoText, TranscriptOf(id).formatted)])

\* saveTrackedTranscript: a task without texts leaves the row alone.
SavedTranscript(id, v) ==
  IF ~HasText(v.output) THEN transcripts
  ELSE Put(transcripts, id, [raw |-> RawText(v.output), formatted |-> v.output.formatted_text])

Commit(id, v) ==
  /\ records' = Put(records, id, [status |-> v.status, output |-> v.output])
  /\ stepRows' = Put(stepRows, id, SavedSteps(id, v))
  /\ transcripts' = SavedTranscript(id, v)

Unchanged == UNCHANGED <<records, stepRows, transcripts>>

\* The transaction commits; or fails and is rolled back; or commits although
\* its answer is lost.  Load may then say what is in `views`.
SaveRows(id, v, views) ==
  \/ Commit(id, v) /\ expected' = [expected EXCEPT ![id] = views]
  \/ /\ MySQLMayFail
     /\ Commit(id, v) \/ Unchanged
     /\ expected' = [expected EXCEPT ![id] = @ \cup views]

RepoSaveTask(id, v) ==
  /\ gateway = "mysql"
  /\ SaveRows(id, v, {v})
  /\ UNCHANGED <<taskFile, gateway, toImport>>

\* The rows of every table go with the task.
DropTask(ids) ==
  /\ records' = Drop(records, ids)
  /\ stepRows' = Drop(stepRows, ids)
  /\ transcripts' = Drop(transcripts, ids)

RepoDeleteTasks(ids) ==
  /\ gateway = "mysql"
  /\ ids # {}
  /\ \/ /\ DropTask(ids)
        /\ expected' = [id \in TaskIds |-> IF id \in ids THEN {NoRecord} ELSE expected[id]]
     \/ /\ MySQLMayFail
        /\ DropTask(ids) \/ Unchanged
        /\ expected' = [id \in TaskIds |-> IF id \in ids THEN expected[id] \cup {NoRecord}
                                           ELSE expected[id]]
  /\ UNCHANGED <<taskFile, gateway, toImport>>

-----------------------------------------------------------------------------
(* Starts and stops of the gateway.                                        *)

\* What a start is to import: nothing if MySQL has tasks.
Importable == IF DOMAIN records = {} THEN DOMAIN taskFile ELSE {}

\* MySQL is there.  An error of Load, or of the file, skips the import.
StartWithMySQL ==
  /\ gateway = "down"
  /\ \/ toImport' = Importable
     \/ MySQLMayFail /\ toImport' = {}
  /\ gateway' = IF toImport' = {} THEN "mysql" ELSE "importing"
  /\ UNCHANGED <<records, stepRows, transcripts, taskFile, expected>>

\* A task that cannot be saved is skipped.  What MySQL holds is newer than the
\* file, and is what Load is expected to say.
ImportTask(id) ==
  /\ gateway = "importing"
  /\ id \in toImport
  /\ SaveRows(id, taskFile[id], IF id \in DOMAIN records THEN expected[id] ELSE {taskFile[id]})
  /\ toImport' = toImport \ {id}
  /\ gateway' = IF toImport' = {} THEN "mysql" ELSE "importing"
  /\ UNCHANGED taskFile

\* No dsn, or MySQL does not answer, or its migration fails.
StartWithFile ==
  /\ gateway = "down"
  /\ gateway' = "file"
  /\ UNCHANGED <<records, stepRows, transcripts, taskFile, toImport, expected>>

SaveToFile(id, v) ==
  /\ gateway = "file"
  /\ taskFile' = Put(taskFile, id, v)
  /\ UNCHANGED <<records, stepRows, transcripts, gateway, toImport, expected>>

DeleteFromFile(ids) ==
  /\ gateway = "file"
  /\ ids # {}
  /\ taskFile' = Drop(taskFile, ids)
  /\ UNCHANGED <<records, stepRows, transcripts, gateway, toImport, expected>>

\* The process ends, at any point.
Stop ==
  /\ gateway # "down"
  /\ gateway' = "down"
  /\ toImport' = {}
  /\ UNCHANGED <<records, stepRows, transcripts, taskFile, expected>>

-----------------------------------------------------------------------------
RepoInit ==
  /\ records = [id \in {} |-> NoRecord]
  /\ stepRows = [id \in {} |-> NoRecord]
  /\ transcripts = [id \in {} |-> NoRecord]
  /\ taskFile = [id \in {} |-> NoRecord]
  /\ gateway = "down"
  /\ toImport = {}
  /\ expected = [id \in TaskIds |-> {NoRecord}]

RepoNext ==
  \/ \E id \in TaskIds, v \in Views : RepoSaveTask(id, v) \/ SaveToFile(id, v)
  \/ \E ids \in SUBSET TaskIds : RepoDeleteTasks(ids) \/ DeleteFromFile(ids)
  \/ StartWithMySQL
  \/ \E id \in TaskIds : ImportTask(id)
  \/ StartWithFile
  \/ Stop

RepoSpec == RepoInit /\ [][RepoNext]_repoVars

-----------------------------------------------------------------------------
(* Properties.                                                             *)

RepoTypeOK ==
  /\ DOMAIN records \subseteq TaskIds
  /\ records \in [DOMAIN records -> [status : RowStatuses, output : Output]]
  /\ DOMAIN stepRows \subseteq TaskIds
  /\ DOMAIN transcripts \subseteq TaskIds
  /\ DOMAIN taskFile \subseteq TaskIds /\ taskFile \in [DOMAIN taskFile -> Views]
  /\ gateway \in {"down", "importing", "mysql", "file"}
  /\ toImport \subseteq DOMAIN taskFile
  /\ expected \in [TaskIds -> SUBSET (Views \cup {NoRecord})]

\* Every row of a step or of a transcript belongs to a task, after any series
\* of saves, deletions and failures.
RowsHaveTask ==
  /\ DOMAIN stepRows = DOMAIN records
  /\ DOMAIN transcripts \subseteq DOMAIN records

\* The output of `a` is that of `b` with gaps filled.
Completes(a, b) ==
  /\ b.raw_text # NoText => a.raw_text = b.raw_text
  /\ b.formatted_text # NoText => a.formatted_text = b.formatted_text
  /\ b.text_formatted # "unset" => a.text_formatted = b.text_formatted
  /\ b.text # NoText => a.text = IF b.formatted_text # NoText /\ b.text = RawText(b)
                                 THEN b.formatted_text ELSE b.text

\* Load tells of every task what was last saved of it: its status, exactly its
\* steps, and its texts, which an older transcript must not replace; nothing of
\* a deleted task; and nothing older that an import brings back over it
\* (TestTrackedTaskRecordRoundTripKeepsTranscriptOutput).
LoadTellsLastSave ==
  \A id \in TaskIds :
    LET told == Loaded(id)
    IN  IF told = NoRecord THEN NoRecord \in expected[id]
        ELSE \E v \in expected[id] \ {NoRecord} :
               /\ told.status = v.status
               /\ told.steps = v.steps
               /\ Completes(told.output, v.output)
               /\ HasText(v.output) =>
                    told.output = Patched(v.output, [raw |-> RawText(v.output),
                                                     formatted |-> v.output.formatted_text])

RepoInv == RepoTypeOK /\ RowsHaveTask /\ LoadTellsLastSave

=============================================================================
