------------------------------ MODULE FileStore ------------------------------
(***************************************************************************)
(* The task store that the gateway uses without MySQL: FileTrackerStore of *)
(* internal/task/store_file.go, a JSON file with every task.               *)
(*                                                                         *)
(* A mutex admits one call at a time.  A call reads the file if the        *)
(* process has not read it yet, changes the map in memory, writes the      *)
(* whole map to a temporary file and renames that over the file.  The      *)
(* process may end between any two of these.                               *)
(***************************************************************************)
EXTENDS Maps

CONSTANTS
  FileIds,      \* task ids
  Snapshots,    \* the values a task may be saved with
  Absent,       \* "no task with this id"
  Nobody,       \* no call is inside the mutex
  ReadMayFail,  \* whether the file may be unreadable, or no JSON, when it is read
  WriteMayFail  \* whether writing or renaming the temporary file may fail

ASSUME FileConstants ==
  /\ Absent \notin Snapshots
  /\ ReadMayFail \in BOOLEAN
  /\ WriteMayFail \in BOOLEAN

VARIABLES
  file,     \* the tasks in the file; a file that does not exist has none
  loaded,   \* FileTrackerStore.loaded
  tasks,    \* FileTrackerStore.tasks
  call,     \* the call inside the mutex
  allowed   \* allowed[id]: what a reader may be told of task id (history)

fileVars == <<file, loaded, tasks, call, allowed>>

-----------------------------------------------------------------------------
NoTasks == [id \in {} |-> Absent]

\* What map m says of task id.
Says(m, id) == IF id \in DOMAIN m THEN m[id] ELSE Absent

IsTaskMap(m) == DOMAIN m \subseteq FileIds /\ \A id \in DOMAIN m : m[id] \in Snapshots

\* A call is to write `value` for the tasks `ids`.
Call == [ids : SUBSET FileIds, value : Snapshots \cup {Absent}, at : {"writing", "replaced"}]

\* What s.tasks is to be after loadLocked, and whether loadLocked succeeds: an
\* unreadable file leaves an empty map, and counts as loaded.
Loads ==
  IF loaded THEN {[tasks |-> tasks, ok |-> TRUE]}
  ELSE {[tasks |-> file, ok |-> TRUE]}
         \cup (IF ReadMayFail THEN {[tasks |-> NoTasks, ok |-> FALSE]} ELSE {})

\* The tasks `ids` after they are given `value`.
Change(m, ids, value) ==
  IF value = Absent THEN Drop(m, ids)
  ELSE [id \in DOMAIN m \cup ids |-> IF id \in ids THEN value ELSE m[id]]

\* A caller that got an error, or none, must reckon with the old and the new.
Doubt(ids, value) ==
  [id \in FileIds |-> IF id \in ids THEN allowed[id] \cup {value} ELSE allowed[id]]

-----------------------------------------------------------------------------
\* Load; its caller learns what TaskTracker then restores.
Load ==
  /\ call = Nobody
  /\ \E l \in Loads : tasks' = l.tasks
  /\ loaded' = TRUE
  /\ UNCHANGED <<file, call, allowed>>

\* SaveTask and DeleteTasks up to the change of the map; with a loading error
\* they return and the map is left as loadLocked made it.
Begin(ids, value) ==
  /\ call = Nobody
  /\ loaded' = TRUE
  /\ \E l \in Loads :
       \/ /\ l.ok
          /\ tasks' = Change(l.tasks, ids, value)
          /\ call' = [ids |-> ids, value |-> value, at |-> "writing"]
          /\ allowed' = Doubt(ids, value)
       \/ /\ ~l.ok
          /\ tasks' = l.tasks
          /\ UNCHANGED <<call, allowed>>
  /\ UNCHANGED file

SaveTask(id, snapshot) == Begin({id}, snapshot)

DeleteTasks(ids) == ids # {} /\ Begin(ids, Absent)

\* saveLocked fails before the rename: the file is what it was, but the map
\* keeps the change, and the next call that succeeds writes it too.
WriteFails ==
  /\ WriteMayFail
  /\ call # Nobody /\ call.at = "writing"
  /\ call' = Nobody
  /\ UNCHANGED <<file, loaded, tasks, allowed>>

\* Variant: only the change of this call is written.
ReplaceOnlyChange ==
  /\ call # Nobody /\ call.at = "writing"
  /\ file' = Change(NoTasks, call.ids, call.value)
  /\ call' = [call EXCEPT !.at = "replaced"]
  /\ UNCHANGED <<loaded, tasks, allowed>>

\* The rename.
Replace ==
  /\ call # Nobody /\ call.at = "writing"
  /\ file' = tasks
  /\ call' = [call EXCEPT !.at = "replaced"]
  /\ UNCHANGED <<loaded, tasks, allowed>>

\* The caller gets nil: from now on only the new value may be read.
Return ==
  /\ call # Nobody /\ call.at = "replaced"
  /\ allowed' = [id \in FileIds |-> IF id \in call.ids THEN {call.value} ELSE allowed[id]]
  /\ call' = Nobody
  /\ UNCHANGED <<file, loaded, tasks>>

\* The process ends; a temporary file may stay behind, which nobody reads.
FileCrash ==
  /\ loaded' = FALSE
  /\ tasks' = NoTasks
  /\ call' = Nobody
  /\ UNCHANGED <<file, allowed>>

-----------------------------------------------------------------------------
FileInit ==
  /\ file = NoTasks
  /\ loaded = FALSE
  /\ tasks = NoTasks
  /\ call = Nobody
  /\ allowed = [id \in FileIds |-> {Absent}]

FileNext ==
  \/ Load
  \/ \E id \in FileIds, snapshot \in Snapshots : SaveTask(id, snapshot)
  \/ \E ids \in SUBSET FileIds : DeleteTasks(ids)
  \/ WriteFails
  \/ Replace
  \/ Return
  \/ FileCrash

FileSpec == FileInit /\ [][FileNext]_fileVars

-----------------------------------------------------------------------------
(* Properties.                                                             *)

FileTypeOK ==
  /\ IsTaskMap(file)
  /\ loaded \in BOOLEAN
  /\ IsTaskMap(tasks)
  /\ call \in Call \cup {Nobody}
  /\ allowed \in [FileIds -> SUBSET (Snapshots \cup {Absent})]

\* What a task was last saved with, once SaveTask returned, is what the next
\* process finds in the file, and a deleted task is in it no more; a call that
\* failed or was cut short leaves the old or the new value, and touches no
\* other task (TestTrackerPersistsTasksAcrossInstances).
PersistsAcrossInstances == \A id \in FileIds : Says(file, id) \in allowed[id]

\* The running process reads what the next one may read, also after calls that
\* failed and left their change in the map.
MemoryAgrees == loaded => \A id \in FileIds : Says(tasks, id) \in allowed[id]

\* A call that succeeds writes the whole map, so it also saves what earlier
\* calls failed to write.
SuccessCatchesUp == call # Nobody /\ call.at = "replaced" => file = tasks

\* A call has made its change to the map, and its callers reckon with it.
CallsAgree ==
  call # Nobody =>
    /\ loaded
    /\ \A id \in call.ids : Says(tasks, id) = call.value /\ call.value \in allowed[id]

\* The conjunction that every step preserves when the file can be read.
FileInv ==
  /\ FileTypeOK
  /\ PersistsAcrossInstances
  /\ MemoryAgrees
  /\ SuccessCatchesUp
  /\ CallsAgree

=============================================================================
