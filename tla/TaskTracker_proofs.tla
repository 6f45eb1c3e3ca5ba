------------------------ MODULE TaskTracker_proofs ------------------------
(***************************************************************************)
(* Proofs about the task tracker, for every set of ids, goroutines and     *)
(* steps, every limit, and stores that fail or not.                        *)
(***************************************************************************)
EXTENDS TaskTracker, TLAPS

-----------------------------------------------------------------------------
(* The maps.                                                               *)

\* Put adds one task to a task map and touches no other (t.tasks[id] = task).
LEMMA PutMap ==
  ASSUME NEW f, IsTaskMap(f), NEW k \in Ids, NEW v \in Task
  PROVE  /\ IsTaskMap(Put(f, k, v))
         /\ DOMAIN Put(f, k, v) = DOMAIN f \cup {k}
         /\ Put(f, k, v)[k] = v
         /\ \A x \in DOMAIN f \ {k} : Put(f, k, v)[x] = f[x]
BY DEF IsTaskMap, Put

\* Drop removes the ids of S from a task map and touches no other (delete).
LEMMA DropMap ==
  ASSUME NEW f, IsTaskMap(f), NEW S
  PROVE  /\ IsTaskMap(Drop(f, S))
         /\ DOMAIN Drop(f, S) = DOMAIN f \ S
         /\ \A x \in DOMAIN f \ S : Drop(f, S)[x] = f[x]
BY DEF IsTaskMap, Drop, Restrict

\* The empty map.
LEMMA NoTasksMap == IsTaskMap(NoTasks) /\ DOMAIN NoTasks = {}
BY DEF IsTaskMap, NoTasks

\* The one task that a call hands to SaveTask.
LEMMA OneTaskMap ==
  ASSUME NEW k \in Ids, NEW v \in Task
  PROVE  /\ IsTaskMap(Put(NoTasks, k, v))
         /\ DOMAIN Put(NoTasks, k, v) = {k}
         /\ Put(NoTasks, k, v)[k] = v
BY DEF IsTaskMap, Put, NoTasks

\* The task that Create makes is one.
LEMMA NewTaskIsTask == NewTask \in Task
BY TrackerConstants DEF NewTask, Task, TaskStatus, StepStatus

-----------------------------------------------------------------------------
(* Pruning.                                                                *)

\* pruneLocked removes tasks of the map, and only tasks that ended.
LEMMA PruningsTerminal ==
  ASSUME NEW ts, IsTaskMap(ts), NEW now, NEW gone \in Prunings(ts, now)
  PROVE  gone \subseteq TerminalIds(ts) /\ gone \subseteq DOMAIN ts
<1> DEFINE expired == Expired(ts, now)
<1>1. PICK E \in Evictions(Drop(ts, expired)) : gone = expired \cup E
  BY DEF Prunings
<1>2. E \subseteq TerminalIds(Drop(ts, expired))
  BY <1>1 DEF Evictions
<1>3. expired \subseteq TerminalIds(ts)
  BY DEF Expired
<1>4. TerminalIds(Drop(ts, expired)) \subseteq TerminalIds(ts)
  <2> HIDE DEF expired
  <2>1. /\ DOMAIN Drop(ts, expired) = DOMAIN ts \ expired
        /\ \A x \in DOMAIN ts \ expired : Drop(ts, expired)[x] = ts[x]
    BY DropMap
  <2> QED BY <2>1 DEF TerminalIds
<1>5. TerminalIds(ts) \subseteq DOMAIN ts
  BY DEF TerminalIds
<1> QED BY <1>1, <1>2, <1>3, <1>4, <1>5

\* What pruneLocked leaves fits maxTasks, unless no task in it ended.
LEMMA PruningsFit ==
  ASSUME NEW ts, IsTaskMap(ts), NEW now, NEW gone \in Prunings(ts, now)
  PROVE  \/ Cardinality(DOMAIN Drop(ts, gone)) <= MaxTasks
         \/ TerminalIds(Drop(ts, gone)) = {}
<1> DEFINE expired == Expired(ts, now)
           left == Drop(ts, expired)
<1>1. PICK E \in Evictions(left) : gone = expired \cup E
  BY DEF Prunings
<1>2. IsTaskMap(left) /\ DOMAIN left = DOMAIN ts \ expired
      /\ \A x \in DOMAIN left : left[x] = ts[x]
  BY DropMap
<1>3. DOMAIN Drop(ts, gone) = DOMAIN left \ E
      /\ \A x \in DOMAIN left \ E : Drop(ts, gone)[x] = left[x]
  <2> HIDE DEF left, expired
  <2>1. /\ DOMAIN Drop(ts, gone) = DOMAIN ts \ gone
        /\ \A x \in DOMAIN ts \ gone : Drop(ts, gone)[x] = ts[x]
    BY DropMap
  <2>2. DOMAIN ts \ gone = DOMAIN left \ E
    BY <1>1, <1>2
  <2> QED BY <1>2, <2>1, <2>2
<1>4. CASE Cardinality(DOMAIN left \ E) <= MaxTasks
  BY <1>3, <1>4
<1>5. CASE E = TerminalIds(left)
  <2>1. \A x \in DOMAIN Drop(ts, gone) : ~Terminal(Drop(ts, gone)[x].status)
    BY <1>3, <1>5 DEF TerminalIds
  <2> QED BY <2>1 DEF TerminalIds
<1>6. Cardinality(DOMAIN left \ E) <= MaxTasks \/ E = TerminalIds(left)
  BY <1>1 DEF Evictions
<1> QED BY <1>4, <1>5, <1>6

-----------------------------------------------------------------------------
(* The invariant is inductive.                                             *)

LEMMA InvInit == TrackerInit => TrackerInv
<1> SUFFICES ASSUME TrackerInit PROVE TrackerInv
  OBVIOUS
<1> USE DEF TrackerInit
<1>1. TrackerTypeOK
  BY NoTasksMap, TrackerConstants DEF TrackerTypeOK
<1>2. KnownIds /\ TrackedNotBeingDeleted
      /\ StatusReachesStore /\ SnapshotsAgree /\ EndsAgree
  BY NoTasksMap DEF KnownIds, TrackedNotBeingDeleted,
                    StatusReachesStore, SnapshotsAgree, EndsAgree
<1>3. DownIsEmpty
  BY DEF DownIsEmpty
<1> QED BY <1>1, <1>2, <1>3 DEF TrackerInv

\* A step that changes no variable of the tracker.
LEMMA InvStutter ==
  ASSUME TrackerInv, UNCHANGED trackerVars
  PROVE  TrackerInv'
<1> USE DEF trackerVars, TrackerInv
<1>1. TrackerTypeOK'
  BY DEF TrackerTypeOK
<1>2. (KnownIds /\ DownIsEmpty /\ TrackedNotBeingDeleted)'
  BY DEF KnownIds, DownIsEmpty, TrackedNotBeingDeleted, Unsaved
<1>3. (StatusReachesStore /\ SnapshotsAgree /\ EndsAgree)'
  BY DEF StatusReachesStore, SnapshotsAgree, EndsAgree, Unsaved
<1> QED BY <1>1, <1>2, <1>3

\* A call that replaces one task: by its owner, or leaving status and steps.
LEMMA InvUpdate ==
  ASSUME TrackerInv, NEW a \in Actors, NEW id \in Ids, NEW task,
         Update(a, id, task),
         id \in DOMAIN tasks =>
           /\ task \in Task
           /\ \/ OwnerMay(id)
              \/ task.status = tasks[id].status /\ task.steps = tasks[id].steps
  PROVE  TrackerInv'
<1>1. CASE id \notin DOMAIN tasks
  BY <1>1, InvStutter DEF Update, trackerVars
<1>2. CASE id \in DOMAIN tasks
  <2>1. /\ up /\ saving[a] = NoTasks /\ deleting[a] = {}
        /\ tasks' = [tasks EXCEPT ![id] = task]
        /\ saving' = [saving EXCEPT ![a] = Put(NoTasks, id, task)]
        /\ UNCHANGED <<up, clock, used, store, deleting, lost>>
    BY <1>2 DEF Update, Free, Idle
  <2>2. /\ task \in Task
        /\ OwnerMay(id) \/ (task.status = tasks[id].status /\ task.steps = tasks[id].steps)
    BY <1>2
  <2>3. /\ IsTaskMap(Put(NoTasks, id, task))
        /\ DOMAIN Put(NoTasks, id, task) = {id}
        /\ Put(NoTasks, id, task)[id] = task
    BY <2>2, OneTaskMap
  <2>4. /\ DOMAIN saving' = Actors
        /\ DOMAIN saving'[a] = {id} /\ saving'[a][id] = task
        /\ \A b \in Actors \ {a} : saving'[b] = saving[b]
    BY <2>1, <2>3 DEF TrackerInv, TrackerTypeOK
  <2>5. /\ DOMAIN tasks' = DOMAIN tasks /\ tasks'[id] = task
        /\ \A x \in DOMAIN tasks \ {id} : tasks'[x] = tasks[x]
    BY <1>2, <2>1
  <2>6. DOMAIN saving[a] = {}
    BY <2>1, NoTasksMap
  <2>7. TrackerTypeOK'
    <3>1. IsTaskMap(tasks')
      BY <2>1, <2>2, <2>5 DEF TrackerInv, TrackerTypeOK, IsTaskMap
    <3>2. \A b \in Actors : IsTaskMap(saving'[b])
      BY <2>1, <2>3, <2>4 DEF TrackerInv, TrackerTypeOK
    <3> QED BY <2>1, <2>4, <3>1, <3>2 DEF TrackerInv, TrackerTypeOK
  <2>8. KnownIds'
    BY <1>2, <2>1, <2>4, <2>5 DEF TrackerInv, KnownIds
  <2>9. DownIsEmpty'
    BY <2>1 DEF DownIsEmpty
  <2>10. TrackedNotBeingDeleted'
    BY <2>1, <2>5 DEF TrackerInv, TrackedNotBeingDeleted
  <2>11. \A x \in DOMAIN tasks \ {id} : Unsaved(x)' <=> Unsaved(x)
    BY <2>4, <2>6 DEF Unsaved
  <2>12. Unsaved(id)'
    BY <2>4 DEF Unsaved
  <2>14. StatusReachesStore'
    BY <2>1, <2>5, <2>11, <2>12 DEF TrackerInv, StatusReachesStore
  <2>15. EndsAgree'
    BY <1>2, <2>1, <2>2, <2>5 DEF TrackerInv, EndsAgree, OwnerMay
  <2>16. SnapshotsAgree'
    <3>1. \A b \in Actors : id \in DOMAIN saving[b] =>
            /\ saving[b][id].status = task.status
            /\ saving[b][id].steps = task.steps
      BY <1>2, <2>2 DEF TrackerInv, SnapshotsAgree, OwnerMay, Unsaved
    <3>2. id \in DOMAIN store /\ Terminal(store[id].status) =>
            task.status = store[id].status
      BY <2>1, <2>15, <2>5, <1>2 DEF EndsAgree
    <3> QED BY <2>1, <2>4, <2>5, <2>6, <3>1, <3>2 DEF TrackerInv, SnapshotsAgree
  <2> QED BY <2>7, <2>8, <2>9, <2>10, <2>14, <2>15, <2>16 DEF TrackerInv
<1> QED BY <1>1, <1>2

LEMMA InvCreate ==
  ASSUME TrackerInv, NEW a \in Actors, NEW id \in Ids, Create(a, id)
  PROVE  TrackerInv'
<1> DEFINE ts == Put(tasks, id, NewTask)
<1>1. PICK now \in ReadTimes : \E gone \in Prunings(ts, now) :
        /\ tasks' = Drop(ts, gone)
        /\ deleting' = [deleting EXCEPT ![a] = gone]
  BY DEF Create
<1>2. PICK gone \in Prunings(ts, now) :
        /\ tasks' = Drop(ts, gone)
        /\ deleting' = [deleting EXCEPT ![a] = gone]
  BY <1>1
<1>3. /\ up /\ saving[a] = NoTasks /\ deleting[a] = {} /\ id \notin used
      /\ used' = used \cup {id}
      /\ saving' = [saving EXCEPT ![a] = Put(NoTasks, id, NewTask)]
      /\ UNCHANGED <<up, clock, store, lost>>
  BY DEF Create, Free, Idle
<1>4. /\ IsTaskMap(ts) /\ DOMAIN ts = DOMAIN tasks \cup {id} /\ ts[id] = NewTask
      /\ \A x \in DOMAIN tasks \ {id} : ts[x] = tasks[x]
  <2>1. IsTaskMap(tasks)
    BY DEF TrackerInv, TrackerTypeOK
  <2>2. NewTask \in Task
    BY NewTaskIsTask
  <2> HIDE DEF ts
  <2>3. /\ IsTaskMap(Put(tasks, id, NewTask))
        /\ DOMAIN Put(tasks, id, NewTask) = DOMAIN tasks \cup {id}
        /\ Put(tasks, id, NewTask)[id] = NewTask
        /\ \A x \in DOMAIN tasks \ {id} : Put(tasks, id, NewTask)[x] = tasks[x]
    BY <2>1, <2>2, PutMap
  <2> QED BY <2>3 DEF ts
<1> HIDE DEF ts
<1>5. /\ IsTaskMap(tasks') /\ DOMAIN tasks' = DOMAIN ts \ gone
      /\ \A x \in DOMAIN tasks' : tasks'[x] = ts[x]
  <2>1. /\ IsTaskMap(Drop(ts, gone)) /\ DOMAIN Drop(ts, gone) = DOMAIN ts \ gone
        /\ \A x \in DOMAIN ts \ gone : Drop(ts, gone)[x] = ts[x]
    BY <1>4, DropMap
  <2> QED BY <1>2, <2>1
<1>6. gone \subseteq DOMAIN ts
  BY <1>4, PruningsTerminal
<1>7. id \notin DOMAIN tasks /\ id \notin DOMAIN store
      /\ \A b \in Actors : id \notin DOMAIN saving[b] /\ id \notin deleting[b]
  BY <1>3 DEF TrackerInv, KnownIds
<1>8. /\ DOMAIN saving' = Actors /\ DOMAIN saving[a] = {}
      /\ IsTaskMap(saving'[a]) /\ DOMAIN saving'[a] = {id} /\ saving'[a][id] = NewTask
      /\ \A b \in Actors \ {a} : saving'[b] = saving[b]
  <2>1. /\ IsTaskMap(Put(NoTasks, id, NewTask))
        /\ DOMAIN Put(NoTasks, id, NewTask) = {id}
        /\ Put(NoTasks, id, NewTask)[id] = NewTask
    BY OneTaskMap, NewTaskIsTask
  <2> QED BY <1>3, <2>1, NoTasksMap DEF TrackerInv, TrackerTypeOK
<1>9. deleting'[a] = gone /\ \A b \in Actors \ {a} : deleting'[b] = deleting[b]
  BY <1>2 DEF TrackerInv, TrackerTypeOK
<1>10. TrackerTypeOK'
  <2>1. \A b \in Actors : IsTaskMap(saving'[b])
    BY <1>8 DEF TrackerInv, TrackerTypeOK
  <2>2. gone \subseteq Ids
    BY <1>4, <1>6 DEF IsTaskMap
  <2> QED BY <1>2, <1>3, <1>5, <1>8, <2>1, <2>2 DEF TrackerInv, TrackerTypeOK
<1>11. KnownIds'
  BY <1>3, <1>4, <1>5, <1>6, <1>8, <1>9 DEF TrackerInv, KnownIds
<1>12. DownIsEmpty'
  BY <1>3 DEF DownIsEmpty
<1>13. TrackedNotBeingDeleted'
  BY <1>4, <1>5, <1>7, <1>9 DEF TrackerInv, TrackedNotBeingDeleted
<1>14. \A x \in DOMAIN tasks \ {id} : Unsaved(x)' <=> Unsaved(x)
  BY <1>8 DEF Unsaved
<1>15. Unsaved(id)'
  BY <1>8 DEF Unsaved
<1>17. StatusReachesStore'
  BY <1>3, <1>4, <1>5, <1>14, <1>15 DEF TrackerInv, StatusReachesStore
<1>18. EndsAgree'
  BY <1>3, <1>4, <1>5, <1>7 DEF TrackerInv, EndsAgree
<1>19. SnapshotsAgree'
  BY <1>3, <1>4, <1>5, <1>7, <1>8 DEF TrackerInv, SnapshotsAgree
<1> QED BY <1>10, <1>11, <1>12, <1>13, <1>17, <1>18, <1>19 DEF TrackerInv

LEMMA InvList ==
  ASSUME TrackerInv, NEW a \in Actors, List(a)
  PROVE  TrackerInv'
<1>1. PICK now \in ReadTimes : \E gone \in Prunings(tasks, now) :
        /\ tasks' = Drop(tasks, gone)
        /\ deleting' = [deleting EXCEPT ![a] = gone]
  BY DEF List
<1>2. PICK gone \in Prunings(tasks, now) :
        /\ tasks' = Drop(tasks, gone)
        /\ deleting' = [deleting EXCEPT ![a] = gone]
  BY <1>1
<1>3. up /\ UNCHANGED <<up, clock, used, store, saving, lost>>
  BY DEF List, Free
<1>4. IsTaskMap(tasks)
  BY DEF TrackerInv, TrackerTypeOK
<1>5. /\ IsTaskMap(tasks') /\ DOMAIN tasks' = DOMAIN tasks \ gone
      /\ \A x \in DOMAIN tasks' : tasks'[x] = tasks[x]
  <2>1. /\ IsTaskMap(Drop(tasks, gone)) /\ DOMAIN Drop(tasks, gone) = DOMAIN tasks \ gone
        /\ \A x \in DOMAIN tasks \ gone : Drop(tasks, gone)[x] = tasks[x]
    BY <1>4, DropMap
  <2> QED BY <1>2, <2>1
<1>6. gone \subseteq DOMAIN tasks
  BY <1>4, PruningsTerminal
<1>7. deleting'[a] = gone /\ \A b \in Actors \ {a} : deleting'[b] = deleting[b]
  BY <1>2 DEF TrackerInv, TrackerTypeOK
<1>8. TrackerTypeOK'
  BY <1>2, <1>3, <1>4, <1>5, <1>6 DEF TrackerInv, TrackerTypeOK, IsTaskMap
<1>9. (KnownIds /\ DownIsEmpty)'
  BY <1>3, <1>5, <1>6, <1>7 DEF TrackerInv, KnownIds, DownIsEmpty
<1>10. TrackedNotBeingDeleted'
  BY <1>5, <1>7 DEF TrackerInv, TrackedNotBeingDeleted
<1>11. \A x : Unsaved(x)' <=> Unsaved(x)
  BY <1>3 DEF Unsaved
<1>12. StatusReachesStore'
  BY <1>3, <1>5, <1>11 DEF TrackerInv, StatusReachesStore
<1>13. (EndsAgree /\ SnapshotsAgree)'
  BY <1>3, <1>5 DEF TrackerInv, EndsAgree, SnapshotsAgree
<1> QED BY <1>8, <1>9, <1>10, <1>12, <1>13 DEF TrackerInv

LEMMA InvSaveTask ==
  ASSUME TrackerInv, NEW a \in Actors, NEW id \in Ids, SaveTask(a, id)
  PROVE  TrackerInv'
<1>1. /\ id \in DOMAIN saving[a]
      /\ saving' = [saving EXCEPT ![a] = Drop(saving[a], {id})]
      /\ UNCHANGED <<up, clock, used, tasks, deleting>>
  BY DEF SaveTask
<1>2. \/ store' = Put(store, id, saving[a][id]) /\ lost' = lost \ {id}
      \/ store' = store /\ lost' = lost \cup {id}
  BY DEF SaveTask
<1>3. IsTaskMap(saving[a]) /\ IsTaskMap(store) /\ saving[a][id] \in Task
  BY <1>1 DEF TrackerInv, TrackerTypeOK, IsTaskMap
<1>4. /\ DOMAIN saving' = Actors /\ IsTaskMap(saving'[a])
      /\ DOMAIN saving'[a] = DOMAIN saving[a] \ {id}
      /\ \A x \in DOMAIN saving'[a] : saving'[a][x] = saving[a][x]
      /\ \A b \in Actors \ {a} : saving'[b] = saving[b]
  <2>1. /\ IsTaskMap(Drop(saving[a], {id}))
        /\ DOMAIN Drop(saving[a], {id}) = DOMAIN saving[a] \ {id}
        /\ \A x \in DOMAIN saving[a] \ {id} : Drop(saving[a], {id})[x] = saving[a][x]
    BY <1>3, DropMap
  <2> QED BY <1>1, <2>1 DEF TrackerInv, TrackerTypeOK
<1>5. /\ IsTaskMap(store') /\ DOMAIN store' \subseteq DOMAIN store \cup {id}
      /\ \A x \in DOMAIN store \ {id} : x \in DOMAIN store' /\ store'[x] = store[x]
      /\ \/ id \in DOMAIN store' /\ store'[id] = saving[a][id] /\ lost' = lost \ {id}
         \/ store' = store /\ lost' = lost \cup {id}
  <2>1. /\ IsTaskMap(Put(store, id, saving[a][id]))
        /\ DOMAIN Put(store, id, saving[a][id]) = DOMAIN store \cup {id}
        /\ Put(store, id, saving[a][id])[id] = saving[a][id]
        /\ \A x \in DOMAIN store \ {id} : Put(store, id, saving[a][id])[x] = store[x]
    BY <1>3, PutMap
  <2> QED BY <1>2, <1>3, <2>1
<1>6. TrackerTypeOK'
  <2>1. \A b \in Actors : IsTaskMap(saving'[b])
    BY <1>4 DEF TrackerInv, TrackerTypeOK
  <2> QED BY <1>1, <1>2, <1>4, <1>5, <2>1 DEF TrackerInv, TrackerTypeOK
<1>7. KnownIds'
  BY <1>1, <1>4, <1>5 DEF TrackerInv, KnownIds
<1>8. DownIsEmpty'
  <2>1. up
    BY <1>1, NoTasksMap DEF TrackerInv, DownIsEmpty
  <2> QED BY <1>1, <2>1 DEF DownIsEmpty
<1>9. TrackedNotBeingDeleted'
  BY <1>1 DEF TrackerInv, TrackedNotBeingDeleted
<1>10. \A x \in Ids \ {id} : Unsaved(x)' <=> Unsaved(x)
  BY <1>4 DEF Unsaved
<1>11. \A x \in Ids \ {id} : x \in lost' <=> x \in lost
  BY <1>2
<1>12. DOMAIN tasks \subseteq Ids
  BY DEF TrackerInv, TrackerTypeOK, IsTaskMap
<1>14. id \in DOMAIN tasks => /\ saving[a][id].status = tasks[id].status
                            /\ saving[a][id].steps = tasks[id].steps
  BY <1>1 DEF TrackerInv, SnapshotsAgree
<1>15. StatusReachesStore'
  <2>1. \A x \in DOMAIN tasks \ {id} : ~Unsaved(x)' /\ x \notin lost' =>
          x \in DOMAIN store' /\ store'[x].status = tasks[x].status
                             /\ store'[x].steps = tasks[x].steps
    BY <1>5, <1>10, <1>11, <1>12 DEF TrackerInv, StatusReachesStore
  <2>2. id \in DOMAIN tasks /\ id \notin lost' =>
          id \in DOMAIN store' /\ store'[id].status = tasks[id].status
                              /\ store'[id].steps = tasks[id].steps
    BY <1>5, <1>14
  <2> QED BY <1>1, <2>1, <2>2 DEF StatusReachesStore
<1>16. EndsAgree'
  BY <1>1, <1>5, <1>14 DEF TrackerInv, EndsAgree
<1>17. SnapshotsAgree'
  <2> SUFFICES ASSUME NEW b \in Actors, NEW x \in DOMAIN saving'[b]
               PROVE  /\ x \in DOMAIN tasks' =>
                           /\ saving'[b][x].status = tasks'[x].status
                           /\ saving'[b][x].steps = tasks'[x].steps
                      /\ x \in DOMAIN store' /\ Terminal(store'[x].status) =>
                           saving'[b][x].status = store'[x].status
                      /\ \A c \in Actors : x \in DOMAIN saving'[c] =>
                           saving'[c][x].status = saving'[b][x].status
    BY DEF SnapshotsAgree
  <2>1. \A c \in Actors : x \in DOMAIN saving'[c] =>
          x \in DOMAIN saving[c] /\ saving'[c][x] = saving[c][x]
    BY <1>4
  <2>2. x \in DOMAIN saving[b] /\ saving'[b][x] = saving[b][x]
    BY <2>1
  <2>3. x = id => saving[b][x].status = saving[a][id].status
    BY <1>1, <2>2 DEF TrackerInv, SnapshotsAgree
  <2>4. x \in DOMAIN store' /\ Terminal(store'[x].status) =>
          saving'[b][x].status = store'[x].status
    BY <1>5, <2>2, <2>3 DEF TrackerInv, SnapshotsAgree
  <2>5. /\ x \in DOMAIN tasks => /\ saving[b][x].status = tasks[x].status
                                /\ saving[b][x].steps = tasks[x].steps
        /\ \A c \in Actors : x \in DOMAIN saving[c] =>
             saving[c][x].status = saving[b][x].status
    BY <2>2 DEF TrackerInv, SnapshotsAgree
  <2>6. tasks' = tasks
    BY <1>1
  <2>7. x \in DOMAIN tasks' => /\ saving'[b][x].status = tasks'[x].status
                              /\ saving'[b][x].steps = tasks'[x].steps
    BY <2>2, <2>5, <2>6
  <2>8. \A c \in Actors : x \in DOMAIN saving'[c] =>
          saving'[c][x].status = saving'[b][x].status
    BY <2>1, <2>2, <2>5
  <2> QED BY <2>4, <2>7, <2>8
<1> QED BY <1>6, <1>7, <1>8, <1>9, <1>15, <1>16, <1>17 DEF TrackerInv

LEMMA InvDeleteTasks ==
  ASSUME TrackerInv, NEW a \in Actors, DeleteTasks(a)
  PROVE  TrackerInv'
<1>1. /\ deleting' = [deleting EXCEPT ![a] = {}]
      /\ deleting[a] # {}
      /\ UNCHANGED <<up, clock, used, tasks, saving>>
  BY DEF DeleteTasks
<1>2. \/ store' = Drop(store, deleting[a]) /\ lost' = lost \ deleting[a]
      \/ store' = store /\ lost' = lost \cup deleting[a]
  BY DEF DeleteTasks
<1>3. /\ IsTaskMap(store') /\ DOMAIN store' \subseteq DOMAIN store
      /\ \A x \in DOMAIN store \ deleting[a] : x \in DOMAIN store'
      /\ \A x \in DOMAIN store' : store'[x] = store[x]
  <2>1. IsTaskMap(store)
    BY DEF TrackerInv, TrackerTypeOK
  <2>2. /\ IsTaskMap(Drop(store, deleting[a]))
        /\ DOMAIN Drop(store, deleting[a]) = DOMAIN store \ deleting[a]
        /\ \A x \in DOMAIN store \ deleting[a] : Drop(store, deleting[a])[x] = store[x]
    BY <2>1, DropMap
  <2> QED BY <1>2, <2>1, <2>2
<1>4. deleting[a] \cap DOMAIN tasks = {}
  BY DEF TrackerInv, TrackedNotBeingDeleted
<1>5. deleting'[a] = {} /\ \A b \in Actors \ {a} : deleting'[b] = deleting[b]
  BY <1>1 DEF TrackerInv, TrackerTypeOK
<1>6. TrackerTypeOK'
  BY <1>1, <1>2, <1>3 DEF TrackerInv, TrackerTypeOK
<1>7. KnownIds'
  BY <1>1, <1>3, <1>5 DEF TrackerInv, KnownIds
<1>8. DownIsEmpty'
  BY <1>1 DEF TrackerInv, DownIsEmpty
<1>9. TrackedNotBeingDeleted'
  BY <1>1, <1>5 DEF TrackerInv, TrackedNotBeingDeleted
<1>10. \A x : Unsaved(x)' <=> Unsaved(x)
  BY <1>1 DEF Unsaved
<1>11. \A x \in DOMAIN tasks : x \in lost' <=> x \in lost
  BY <1>2, <1>4
<1>13. StatusReachesStore'
  BY <1>1, <1>3, <1>4, <1>10, <1>11 DEF TrackerInv, StatusReachesStore
<1>14. (EndsAgree /\ SnapshotsAgree)'
  BY <1>1, <1>3 DEF TrackerInv, EndsAgree, SnapshotsAgree
<1> QED BY <1>6, <1>7, <1>8, <1>9, <1>13, <1>14 DEF TrackerInv

LEMMA InvCrash ==
  ASSUME TrackerInv, Crash
  PROVE  TrackerInv'
<1>1. /\ up' = FALSE /\ tasks' = NoTasks
      /\ saving' = [a \in Actors |-> NoTasks] /\ deleting' = [a \in Actors |-> {}]
      /\ UNCHANGED <<clock, used, store, lost>>
  BY DEF Crash
<1>2. TrackerTypeOK'
  BY <1>1, NoTasksMap DEF TrackerInv, TrackerTypeOK
<1>3. (KnownIds /\ DownIsEmpty)'
  BY <1>1, NoTasksMap DEF TrackerInv, KnownIds, DownIsEmpty
<1>4. (TrackedNotBeingDeleted /\ StatusReachesStore)'
  BY <1>1, NoTasksMap DEF TrackedNotBeingDeleted, StatusReachesStore
<1>5. (SnapshotsAgree /\ EndsAgree)'
  BY <1>1, NoTasksMap DEF SnapshotsAgree, EndsAgree
<1> QED BY <1>2, <1>3, <1>4, <1>5 DEF TrackerInv

\* A task that a restart interrupts is a failed one.
LEMMA InterruptedIsTask ==
  ASSUME NEW task \in Task, clock \in 1..MaxClock
  PROVE  Interrupted(task) \in Task
<1> DEFINE steps == [s \in Steps |-> IF TerminalStep(task.steps[s]) THEN task.steps[s]
                                                                 ELSE "failed"]
<1>1. steps \in [Steps -> StepStatus]
  BY DEF Task, StepStatus
<1>2. clock \in 0..MaxClock
  BY TrackerConstants
<1>3. Interrupted(task) = [task EXCEPT !.status = "failed", !.steps = steps,
                                       !.finishedAt = clock]
  BY DEF Interrupted
<1> HIDE DEF steps
<1> QED BY <1>1, <1>2, <1>3 DEF Task, TaskStatus

\* What the restart puts in the map: ended tasks as they were stored.
LEMMA RestoredMap ==
  ASSUME TrackerInv
  PROVE  /\ IsTaskMap(RestoredTasks) /\ DOMAIN RestoredTasks = DOMAIN store
         /\ \A id \in TerminalIds(store) : RestoredTasks[id] = store[id]
<1>1. IsTaskMap(store) /\ clock \in 1..MaxClock
  BY DEF TrackerInv, TrackerTypeOK
<1>2. \A id \in DOMAIN store : Interrupted(store[id]) \in Task
  BY <1>1, InterruptedIsTask DEF IsTaskMap
<1> QED BY <1>1, <1>2 DEF IsTaskMap, RestoredTasks, TerminalIds

LEMMA InvRestore ==
  ASSUME TrackerInv, Restore
  PROVE  TrackerInv'
<1>1. /\ ~up /\ up' = TRUE /\ UNCHANGED <<clock, used, store, lost>>
      /\ tasks = NoTasks /\ \A a \in Actors : saving[a] = NoTasks /\ deleting[a] = {}
  BY DEF Restore, TrackerInv, DownIsEmpty
<1>2. CASE UNCHANGED <<tasks, saving, deleting>>
  <2>1. (TrackerTypeOK /\ KnownIds)'
    BY <1>1, <1>2 DEF TrackerInv, TrackerTypeOK, KnownIds
  <2>2. DownIsEmpty'
    BY <1>1 DEF DownIsEmpty
  <2>3. (TrackedNotBeingDeleted /\ StatusReachesStore)'
    BY <1>1, <1>2, NoTasksMap
    DEF TrackedNotBeingDeleted, StatusReachesStore
  <2>4. (SnapshotsAgree /\ EndsAgree)'
    BY <1>1, <1>2, NoTasksMap DEF SnapshotsAgree, EndsAgree
  <2> QED BY <2>1, <2>2, <2>3, <2>4 DEF TrackerInv
<1>3. CASE /\ \E gone \in Prunings(RestoredTasks, clock) :
                /\ tasks' = Drop(RestoredTasks, gone)
                /\ deleting' = [deleting EXCEPT ![Main] = gone]
           /\ saving' = [saving EXCEPT ![Main] = Drop(RestoredTasks, TerminalIds(store))]
  <2> DEFINE rt == RestoredTasks
  <2>1. PICK gone \in Prunings(rt, clock) :
          tasks' = Drop(rt, gone) /\ deleting' = [deleting EXCEPT ![Main] = gone]
    BY <1>3
  <2>2. /\ IsTaskMap(rt) /\ DOMAIN rt = DOMAIN store
        /\ \A id \in TerminalIds(store) : rt[id] = store[id]
    BY RestoredMap
  <2>3. saving' = [saving EXCEPT ![Main] = Drop(rt, TerminalIds(store))]
    BY <1>3
  <2> HIDE DEF rt
  <2>4. /\ IsTaskMap(tasks') /\ DOMAIN tasks' = DOMAIN store \ gone
        /\ \A x \in DOMAIN tasks' : tasks'[x] = rt[x]
    <3>1. /\ IsTaskMap(Drop(rt, gone)) /\ DOMAIN Drop(rt, gone) = DOMAIN rt \ gone
          /\ \A x \in DOMAIN rt \ gone : Drop(rt, gone)[x] = rt[x]
      BY <2>2, DropMap
    <3> QED BY <2>1, <2>2, <3>1
  <2>5. gone \subseteq DOMAIN store
    BY <2>2, PruningsTerminal
  <2>6. /\ DOMAIN saving' = Actors /\ IsTaskMap(saving'[Main])
        /\ DOMAIN saving'[Main] = DOMAIN store \ TerminalIds(store)
        /\ \A x \in DOMAIN saving'[Main] : saving'[Main][x] = rt[x]
        /\ \A b \in Actors \ {Main} : saving'[b] = NoTasks
    <3> DEFINE S == TerminalIds(store)
    <3> HIDE DEF S
    <3>1. /\ IsTaskMap(Drop(rt, S)) /\ DOMAIN Drop(rt, S) = DOMAIN rt \ S
          /\ \A x \in DOMAIN rt \ S : Drop(rt, S)[x] = rt[x]
      BY <2>2, DropMap
    <3>2. saving' = [saving EXCEPT ![Main] = Drop(rt, S)]
      BY <2>3 DEF S
    <3>3. /\ DOMAIN saving' = Actors /\ IsTaskMap(saving'[Main])
          /\ DOMAIN saving'[Main] = DOMAIN store \ S
          /\ \A x \in DOMAIN saving'[Main] : saving'[Main][x] = rt[x]
          /\ \A b \in Actors \ {Main} : saving'[b] = NoTasks
      BY <1>1, <2>2, <3>1, <3>2, TrackerConstants DEF TrackerInv, TrackerTypeOK
    <3> QED BY <3>3 DEF S
  <2>7. deleting'[Main] = gone /\ \A b \in Actors \ {Main} : deleting'[b] = {}
    BY <1>1, <2>1, TrackerConstants DEF TrackerInv, TrackerTypeOK
  <2>8. \A b \in Actors \ {Main} : IsTaskMap(saving'[b]) /\ DOMAIN saving'[b] = {}
    BY <2>6, NoTasksMap
  <2>9. TrackerTypeOK'
    <3>1. gone \subseteq Ids
      BY <2>5 DEF TrackerInv, TrackerTypeOK, IsTaskMap
    <3>2. deleting' \in [Actors -> SUBSET Ids]
      BY <2>1, <3>1 DEF TrackerInv, TrackerTypeOK
    <3>3. \A b \in Actors : IsTaskMap(saving'[b])
      BY <2>6, <2>8
    <3> QED BY <1>1, <2>4, <2>6, <3>2, <3>3 DEF TrackerInv, TrackerTypeOK
  <2>10. KnownIds'
    BY <1>1, <2>4, <2>5, <2>6, <2>7, <2>8 DEF TrackerInv, KnownIds
  <2>11. DownIsEmpty'
    BY <1>1 DEF DownIsEmpty
  <2>12. TrackedNotBeingDeleted'
    BY <2>4, <2>7 DEF TrackedNotBeingDeleted
  <2>14. StatusReachesStore'
    <3>1. \A id \in DOMAIN tasks' : ~Unsaved(id)' => id \in TerminalIds(store)
      BY <2>4, <2>6, TrackerConstants DEF Unsaved
    <3> QED BY <1>1, <2>2, <2>4, <3>1 DEF StatusReachesStore
  <2>15. EndsAgree'
    BY <1>1, <2>2, <2>4 DEF EndsAgree, TerminalIds
  <2>16. SnapshotsAgree'
    BY <1>1, <2>4, <2>6, <2>8 DEF SnapshotsAgree, TerminalIds
  <2> QED BY <2>9, <2>10, <2>11, <2>12, <2>14, <2>15, <2>16 DEF TrackerInv
<1> QED BY <1>2, <1>3 DEF Restore

LEMMA InvTick ==
  ASSUME TrackerInv, Tick
  PROVE  TrackerInv'
<1>1. clock' = clock + 1 /\ clock < MaxClock
      /\ UNCHANGED <<up, used, tasks, store, saving, deleting, lost>>
  BY DEF Tick
<1>2. TrackerTypeOK'
  BY <1>1, TrackerConstants DEF TrackerInv, TrackerTypeOK
<1>3. (KnownIds /\ DownIsEmpty /\ TrackedNotBeingDeleted)'
  BY <1>1 DEF TrackerInv, KnownIds, DownIsEmpty, TrackedNotBeingDeleted, Unsaved
<1>4. (StatusReachesStore /\ SnapshotsAgree /\ EndsAgree)'
  BY <1>1 DEF TrackerInv, StatusReachesStore, SnapshotsAgree, EndsAgree, Unsaved
<1> QED BY <1>2, <1>3, <1>4 DEF TrackerInv

\* The calls that replace one task keep it a task, and PatchOutput keeps its
\* status and steps.
LEMMA InvOneTaskCall ==
  ASSUME TrackerInv, NEW a \in Actors, NEW id \in Ids,
         \/ \E patch \in Outputs : PatchOutput(a, id, patch)
         \/ OwnerMay(id) /\ Start(a, id)
         \/ OwnerMay(id) /\ Fail(a, id)
         \/ OwnerMay(id) /\ \E output \in Outputs : Complete(a, id, output)
         \/ OwnerMay(id) /\ \E s \in Steps, status \in StepStatus \ {"pending"} : UpdateStep(a, id, s, status)
  PROVE  TrackerInv'
<1>1. id \in DOMAIN tasks => tasks[id] \in Task
  BY DEF TrackerInv, TrackerTypeOK, IsTaskMap
<1>2. clock \in 0..MaxClock
  BY TrackerConstants DEF TrackerInv, TrackerTypeOK
<1>3. ASSUME NEW patch \in Outputs, PatchOutput(a, id, patch) PROVE TrackerInv'
  <2> DEFINE task == [tasks[id] EXCEPT !.output = Merge(patch, @)]
  <2>1. Update(a, id, task)
    BY <1>3 DEF PatchOutput
  <2>2. ASSUME id \in DOMAIN tasks
        PROVE  /\ task \in Task
               /\ task.status = tasks[id].status /\ task.steps = tasks[id].steps
    <3>1. tasks[id] \in Task /\ tasks[id].output \in Outputs
      BY <1>1, <2>2 DEF Task
    <3>2. Merge(patch, tasks[id].output) \in Outputs
      BY <3>1, TrackerConstants
    <3> DEFINE output == Merge(patch, tasks[id].output)
    <3> HIDE DEF output
    <3>3. [tasks[id] EXCEPT !.output = output] \in Task
      BY <3>1, <3>2 DEF Task, output
    <3> QED BY <3>1, <3>3 DEF Task, output
  <2> HIDE DEF task
  <2> QED BY <2>1, <2>2, InvUpdate
<1>4. ASSUME OwnerMay(id), Start(a, id) PROVE TrackerInv'
  <2> DEFINE task == [tasks[id] EXCEPT !.status = "running"]
  <2>1. Update(a, id, task)
    BY <1>4 DEF Start
  <2>2. id \in DOMAIN tasks => task \in Task
    BY <1>1 DEF Task, TaskStatus
  <2> HIDE DEF task
  <2> QED BY <1>4, <2>1, <2>2, InvUpdate
<1>5. ASSUME OwnerMay(id), Fail(a, id) PROVE TrackerInv'
  <2> DEFINE task == [tasks[id] EXCEPT !.status = "failed", !.finishedAt = clock]
  <2>1. Update(a, id, task)
    BY <1>5 DEF Fail
  <2>2. id \in DOMAIN tasks => task \in Task
    BY <1>1, <1>2 DEF Task, TaskStatus
  <2> HIDE DEF task
  <2> QED BY <1>5, <2>1, <2>2, InvUpdate
<1>6. ASSUME OwnerMay(id), NEW output \in Outputs, Complete(a, id, output) PROVE TrackerInv'
  <2> DEFINE task == [tasks[id] EXCEPT !.status = "done", !.output = output,
                                       !.finishedAt = clock]
  <2>1. Update(a, id, task)
    BY <1>6 DEF Complete
  <2>2. id \in DOMAIN tasks => task \in Task
    BY <1>1, <1>2 DEF Task, TaskStatus
  <2> HIDE DEF task
  <2> QED BY <1>6, <2>1, <2>2, InvUpdate
<1>7. ASSUME OwnerMay(id), NEW s \in Steps, NEW status \in StepStatus,
             UpdateStep(a, id, s, status)
      PROVE  TrackerInv'
  <2> DEFINE task == [tasks[id] EXCEPT !.steps[s] = status]
  <2>1. Update(a, id, task)
    BY <1>7 DEF UpdateStep
  <2>2. id \in DOMAIN tasks => task \in Task
    BY <1>1 DEF Task
  <2> HIDE DEF task
  <2> QED BY <1>7, <2>1, <2>2, InvUpdate
<1> QED BY <1>3, <1>4, <1>5, <1>6, <1>7

LEMMA InvNext == TrackerInv /\ [TrackerNext]_trackerVars => TrackerInv'
<1> SUFFICES ASSUME TrackerInv, [TrackerNext]_trackerVars PROVE TrackerInv'
  OBVIOUS
<1>1. ASSUME NEW a \in Actors, TrackerCall(a) PROVE TrackerInv'
  BY <1>1, InvList, InvCreate, InvOneTaskCall DEF TrackerCall
<1>2. ASSUME NEW a \in Actors, TrackerStoreStep(a) PROVE TrackerInv'
  BY <1>2, InvSaveTask, InvDeleteTasks DEF TrackerStoreStep
<1>3. CASE Crash
  BY <1>3, InvCrash
<1>4. CASE Restore
  BY <1>4, InvRestore
<1>5. CASE Tick
  BY <1>5, InvTick
<1>6. CASE UNCHANGED trackerVars
  BY <1>6, InvStutter
<1> QED BY <1>1, <1>2, <1>3, <1>4, <1>5, <1>6 DEF TrackerNext

-----------------------------------------------------------------------------
(* What holds for every client that keeps the obligation of TrackerCall.   *)

\* The tracker's tasks, snapshots and records always are what their types
\* say, whatever the goroutines that call it and the store do (tracker.go).
THEOREM TrackerTypes == TrackerSpec => []TrackerTypeOK
<1>1. TrackerInv => TrackerTypeOK
  BY DEF TrackerInv
<1> QED BY InvInit, InvNext, <1>1, PTL DEF TrackerSpec

\* The strengthened invariant holds of every behaviour of the tracker.
THEOREM TrackerInvariant == TrackerSpec => []TrackerInv
BY InvInit, InvNext, PTL DEF TrackerSpec

\* No DeleteTasks in flight can destroy the record of a task that is still
\* tracked, though it runs after the lock is released (deleteTasks).
THEOREM DeletesSpareTracked == TrackerSpec => []TrackedNotBeingDeleted
<1>1. TrackerInv => TrackedNotBeingDeleted
  BY DEF TrackerInv
<1> QED BY InvInit, InvNext, <1>1, PTL DEF TrackerSpec

\* Once no save of a task is in flight and none failed, its record has the
\* status and the steps of the tracked task (persistTask).
THEOREM StatusIsStored == TrackerSpec => []StatusReachesStore
<1>1. TrackerInv => StatusReachesStore
  BY DEF TrackerInv
<1> QED BY InvInit, InvNext, <1>1, PTL DEF TrackerSpec

-----------------------------------------------------------------------------
(* What no step of the tracker does.                                       *)

\* A call of the tracker that neither creates nor lists keeps the same tasks.
LEMMA OneTaskCallDomain ==
  ASSUME NEW a \in Actors, NEW id \in Ids, NEW task, Update(a, id, task)
  PROVE  DOMAIN tasks' = DOMAIN tasks /\ store' = store
BY DEF Update

\* The kinds of steps, by what they do to the map and the store.
LEMMA StepKinds ==
  ASSUME [TrackerNext]_trackerVars
  PROVE  \/ \E a \in Actors, id \in Ids : Create(a, id)
         \/ \E a \in Actors : List(a)
         \/ DOMAIN tasks' = DOMAIN tasks /\ store' = store
         \/ \E a \in Actors, id \in Ids : SaveTask(a, id)
         \/ \E a \in Actors : DeleteTasks(a)
         \/ Crash
         \/ Restore
<1>1. ASSUME NEW a \in Actors, TrackerCall(a)
      PROVE  \/ List(a) \/ \E id \in Ids : Create(a, id)
             \/ DOMAIN tasks' = DOMAIN tasks /\ store' = store
  <2>1. ASSUME NEW id \in Ids, NEW patch, PatchOutput(a, id, patch)
        PROVE  DOMAIN tasks' = DOMAIN tasks /\ store' = store
    BY <2>1, OneTaskCallDomain DEF PatchOutput
  <2>2. ASSUME NEW id \in Ids, Start(a, id)
        PROVE  DOMAIN tasks' = DOMAIN tasks /\ store' = store
    BY <2>2, OneTaskCallDomain DEF Start
  <2>3. ASSUME NEW id \in Ids, Fail(a, id)
        PROVE  DOMAIN tasks' = DOMAIN tasks /\ store' = store
    BY <2>3, OneTaskCallDomain DEF Fail
  <2>4. ASSUME NEW id \in Ids, NEW output, Complete(a, id, output)
        PROVE  DOMAIN tasks' = DOMAIN tasks /\ store' = store
    BY <2>4, OneTaskCallDomain DEF Complete
  <2>5. ASSUME NEW id \in Ids, NEW s, NEW status, UpdateStep(a, id, s, status)
        PROVE  DOMAIN tasks' = DOMAIN tasks /\ store' = store
    BY <2>5, OneTaskCallDomain DEF UpdateStep
  <2> QED BY <1>1, <2>1, <2>2, <2>3, <2>4, <2>5 DEF TrackerCall
<1>2. CASE UNCHANGED trackerVars \/ Tick
  BY <1>2 DEF trackerVars, Tick
<1> QED BY <1>1, <1>2 DEF TrackerNext, TrackerStoreStep

\* What Create leaves of the map it adds to.
LEMMA CreateMap ==
  ASSUME TrackerInv, NEW a \in Actors, NEW id \in Ids, Create(a, id)
  PROVE  \E ts, now : \E gone \in Prunings(ts, now) :
           /\ IsTaskMap(ts) /\ DOMAIN ts = DOMAIN tasks \cup {id}
           /\ id \notin DOMAIN tasks
           /\ \A x \in DOMAIN tasks : ts[x] = tasks[x]
           /\ tasks' = Drop(ts, gone)
<1>1. PICK now \in ReadTimes : \E gone \in Prunings(Put(tasks, id, NewTask), now) :
        tasks' = Drop(Put(tasks, id, NewTask), gone)
  BY DEF Create
<1>2. id \notin DOMAIN tasks
  BY DEF Create, TrackerInv, KnownIds
<1>3. /\ IsTaskMap(Put(tasks, id, NewTask))
      /\ DOMAIN Put(tasks, id, NewTask) = DOMAIN tasks \cup {id}
      /\ \A x \in DOMAIN tasks \ {id} : Put(tasks, id, NewTask)[x] = tasks[x]
  <2>1. IsTaskMap(tasks) /\ NewTask \in Task
    BY NewTaskIsTask DEF TrackerInv, TrackerTypeOK
  <2> QED BY <2>1, PutMap
<1> QED BY <1>1, <1>2, <1>3

\* Pruning never removes a task from the map that has not ended.
THEOREM OnlyEndedForgotten == TrackerSpec => OnlyTerminalForgotten
<1>1. TrackerInv /\ [TrackerNext]_trackerVars => ForgetsOnlyEnded
  <2> SUFFICES ASSUME TrackerInv, [TrackerNext]_trackerVars PROVE ForgetsOnlyEnded
    OBVIOUS
  <2>1. ASSUME NEW a \in Actors, NEW id \in Ids, Create(a, id) PROVE ForgetsOnlyEnded
    <3>1. PICK ts, now : \E gone \in Prunings(ts, now) :
            /\ IsTaskMap(ts) /\ DOMAIN ts = DOMAIN tasks \cup {id}
            /\ id \notin DOMAIN tasks
            /\ \A x \in DOMAIN tasks : ts[x] = tasks[x]
            /\ tasks' = Drop(ts, gone)
      BY <2>1, CreateMap
    <3>2. PICK gone \in Prunings(ts, now) : tasks' = Drop(ts, gone)
      BY <3>1
    <3>3. gone \subseteq TerminalIds(ts) /\ DOMAIN tasks' = DOMAIN ts \ gone
      BY <3>1, <3>2, PruningsTerminal, DropMap
    <3> QED BY <3>1, <3>3 DEF TerminalIds, ForgetsOnlyEnded
  <2>2. ASSUME NEW a \in Actors, List(a) PROVE ForgetsOnlyEnded
    <3>1. PICK now \in ReadTimes : \E gone \in Prunings(tasks, now) : tasks' = Drop(tasks, gone)
      BY <2>2 DEF List
    <3>2. PICK gone \in Prunings(tasks, now) : tasks' = Drop(tasks, gone)
      BY <3>1
    <3>3. IsTaskMap(tasks)
      BY DEF TrackerInv, TrackerTypeOK
    <3>4. gone \subseteq TerminalIds(tasks) /\ DOMAIN tasks' = DOMAIN tasks \ gone
      BY <3>2, <3>3, PruningsTerminal, DropMap
    <3> QED BY <3>4 DEF TerminalIds, ForgetsOnlyEnded
  <2>3. CASE DOMAIN tasks' = DOMAIN tasks
    BY <2>3 DEF ForgetsOnlyEnded
  <2>4. CASE \/ \E a \in Actors, id \in Ids : SaveTask(a, id)
             \/ \E a \in Actors : DeleteTasks(a)
    BY <2>4 DEF SaveTask, DeleteTasks, ForgetsOnlyEnded
  <2>5. CASE Crash
    BY <2>5 DEF Crash, ForgetsOnlyEnded
  <2>6. CASE Restore
    BY <2>6, NoTasksMap DEF Restore, TrackerInv, DownIsEmpty, ForgetsOnlyEnded
  <2> QED BY <2>1, <2>2, <2>3, <2>4, <2>5, <2>6, StepKinds
<1> QED BY InvInit, InvNext, <1>1, PTL DEF TrackerSpec, OnlyTerminalForgotten

\* Whatever adds tasks to the map leaves at most maxTasks in it, unless none
\* of them has ended (pruneLocked, called by Create and restore).
THEOREM RoomIsMade == TrackerSpec => CreateMakesRoom
<1> DEFINE Fits == \/ DOMAIN tasks' \subseteq DOMAIN tasks
                   \/ Cardinality(DOMAIN tasks') <= MaxTasks
                   \/ TerminalIds(tasks') = {}
<1>1. TrackerInv /\ [TrackerNext]_trackerVars => [Fits]_trackerVars
  <2> SUFFICES ASSUME TrackerInv, [TrackerNext]_trackerVars PROVE Fits
    OBVIOUS
  <2>1. ASSUME NEW a \in Actors, NEW id \in Ids, Create(a, id) PROVE Fits
    <3>1. PICK ts, now : IsTaskMap(ts) /\ \E gone \in Prunings(ts, now) : tasks' = Drop(ts, gone)
      BY <2>1, CreateMap
    <3> QED BY <3>1, PruningsFit
  <2>2. ASSUME NEW a \in Actors, List(a) PROVE Fits
    <3>1. PICK now \in ReadTimes : \E gone \in Prunings(tasks, now) : tasks' = Drop(tasks, gone)
      BY <2>2 DEF List
    <3>2. PICK gone \in Prunings(tasks, now) : tasks' = Drop(tasks, gone)
      BY <3>1
    <3>3. IsTaskMap(tasks)
      BY DEF TrackerInv, TrackerTypeOK
    <3>4. DOMAIN Drop(tasks, gone) = DOMAIN tasks \ gone
      BY <3>3, DropMap
    <3> QED BY <3>2, <3>4
  <2>3. CASE DOMAIN tasks' = DOMAIN tasks
    BY <2>3
  <2>4. CASE \/ \E a \in Actors, id \in Ids : SaveTask(a, id)
             \/ \E a \in Actors : DeleteTasks(a)
    BY <2>4 DEF SaveTask, DeleteTasks
  <2>5. CASE Crash
    BY <2>5, NoTasksMap DEF Crash
  <2>6. CASE Restore
    <3>1. \/ tasks' = tasks
          \/ \E gone \in Prunings(RestoredTasks, clock) : tasks' = Drop(RestoredTasks, gone)
      BY <2>6 DEF Restore
    <3>2. IsTaskMap(RestoredTasks)
      BY RestoredMap
    <3> QED BY <3>1, <3>2, PruningsFit
  <2> HIDE DEF Fits
  <2> QED BY <2>1, <2>2, <2>3, <2>4, <2>5, <2>6, StepKinds
<1> QED BY InvInit, InvNext, <1>1, PTL DEF TrackerSpec, CreateMakesRoom

\* No late SaveTask and no restart rewrites the outcome of an ended task on
\* durable storage (persistTask, restore).
THEOREM OutcomeIsFinal == TrackerSpec => DurableEndIsFinal
<1>1. TrackerInv /\ [TrackerNext]_trackerVars => KeepsOutcomes
  <2> SUFFICES ASSUME TrackerInv, [TrackerNext]_trackerVars PROVE KeepsOutcomes
    OBVIOUS
  <2>1. IsTaskMap(store)
    BY DEF TrackerInv, TrackerTypeOK
  <2>2. ASSUME NEW a \in Actors, NEW k \in Ids, SaveTask(a, k) PROVE KeepsOutcomes
    <3>1. k \in DOMAIN saving[a] /\ IsTaskMap(saving[a])
      BY <2>2 DEF SaveTask, TrackerInv, TrackerTypeOK
    <3> DEFINE task == saving[a][k]
    <3>2. store' = store \/ store' = Put(store, k, task)
      BY <2>2 DEF SaveTask
    <3>3. task \in Task
      BY <3>1 DEF IsTaskMap
    <3>4. k \in DOMAIN store /\ Terminal(store[k].status) => task.status = store[k].status
      BY <3>1 DEF TrackerInv, SnapshotsAgree
    <3> HIDE DEF task
    <3>5. /\ IsTaskMap(Put(store, k, task))
          /\ DOMAIN Put(store, k, task) = DOMAIN store \cup {k}
          /\ Put(store, k, task)[k] = task
          /\ \A x \in DOMAIN store \ {k} : Put(store, k, task)[x] = store[x]
      BY <2>1, <3>3, PutMap
    <3> QED BY <3>2, <3>4, <3>5 DEF KeepsOutcomes
  <2>3. ASSUME NEW a \in Actors, DeleteTasks(a) PROVE KeepsOutcomes
    <3> DEFINE D == deleting[a]
    <3>1. store' = store \/ store' = Drop(store, D)
      BY <2>3 DEF DeleteTasks
    <3> HIDE DEF D
    <3>2. /\ DOMAIN Drop(store, D) = DOMAIN store \ D
          /\ \A x \in DOMAIN store \ D : Drop(store, D)[x] = store[x]
      BY <2>1, DropMap
    <3> QED BY <3>1, <3>2 DEF KeepsOutcomes
  <2>4. CASE store' = store
    BY <2>4 DEF KeepsOutcomes
  <2>5. CASE \/ \E a \in Actors, id \in Ids : Create(a, id)
             \/ \E a \in Actors : List(a)
             \/ Crash
             \/ Restore
    BY <2>5 DEF Create, List, Crash, Restore, KeepsOutcomes
  <2> QED BY <2>2, <2>3, <2>4, <2>5, StepKinds
<1> QED BY InvInit, InvNext, <1>1, PTL DEF TrackerSpec, DurableEndIsFinal

=============================================================================
