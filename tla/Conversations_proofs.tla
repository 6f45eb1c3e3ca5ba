------------------------ MODULE Conversations_proofs ------------------------
(***************************************************************************)
(* Proofs about the state that a conversation leaves: the messages and     *)
(* titles of its sessions keep ChatInv, the jobs of the long-term memory   *)
(* keep FactInv and write only the facts of their own user, and the        *)
(* breaker of the tools keeps ToolInv, for any number of sessions,         *)
(* requests, users, jobs and calls, however they meet, fail or end.        *)
(***************************************************************************)
EXTENDS ChatTurns, MemoryFacts, ToolCalls, FiniteSetTheorems, SequenceTheorems, TLAPS

-----------------------------------------------------------------------------
(* MemoryFacts: the jobs of a user, whatever targets the LLM names.        *)


\* What is true of a job r while the rows are f and the users in o have had
\* jobs that met: what it has found is its user's and under its key, and, if
\* the user's jobs did not meet, it is still as the lookup has read it.
JobSound(r, f, o) ==
  /\ r \in Job
  /\ r.at \in {"next", "lookup", "write", "link"} => r.user \in Owners
  /\ r.at \in {"lookup", "write", "link"} => r.key \in Keys
  /\ r.at = "next" => r.left > 0
  /\ r.at \in {"next", "lookup"} => r.found = NoFact
  /\ r.at = "write" /\ r.found # NoFact =>
       /\ r.found \in DOMAIN f /\ f[r.found].user = r.user /\ f[r.found].key = r.key
       /\ r.row \in Fact /\ r.row.user = r.user /\ r.row.key = r.key /\ r.row.by = NoFact
       /\ r.user \notin o => f[r.found] = r.row
  /\ r.at = "write" /\ r.found = NoFact /\ r.user \notin o =>
       \A i \in DOMAIN f : f[i].user = r.user /\ f[i].key = r.key => f[i].by # NoFact
  /\ r.at = "link" => r.found \in DOMAIN f /\ f[r.found].user = r.user

JobsSound == \A j \in Jobs : JobSound(job[j], facts, overlapped)

\* Two jobs of one user run at a time only if the user is in `overlapped`.
JobsAlone ==
  \A j, k \in Jobs :
    j # k /\ Running(j) /\ Running(k) /\ job[j].user = job[k].user =>
      job[j].user \in overlapped

FactIndInv == FactInv /\ JobsSound /\ JobsAlone

\* No row is lost, and none changes its user or key.
RowsStay(f, g) ==
  /\ DOMAIN f \subseteq DOMAIN g
  /\ \A i \in DOMAIN f : g[i].user = f[i].user /\ g[i].key = f[i].key

-----------------------------------------------------------------------------
(* Jobs.                                                                   *)

LEMMA StillSound ==
  ASSUME NEW r, NEW f, NEW g, NEW o, NEW p,
         JobSound(r, f, o), RowsStay(f, g), o \subseteq p,
         r.at = "write" /\ r.user \notin p =>
           \A i \in DOMAIN g : g[i].user = r.user => i \in DOMAIN f /\ g[i] = f[i]
  PROVE  JobSound(r, g, p)
<1>1. CASE r.at = "write" /\ r.found # NoFact
  BY <1>1 DEF JobSound, RowsStay
<1>2. CASE r.at = "write" /\ r.found = NoFact
  BY <1>2 DEF JobSound, RowsStay
<1>3. CASE r.at # "write"
  BY <1>3 DEF JobSound, RowsStay
<1> QED BY <1>1, <1>2, <1>3

LEMMA JobsTyped ==
  ASSUME FactIndInv
  PROVE  /\ job \in [Jobs -> Job] /\ facts \in [DOMAIN facts -> Fact]
         /\ DOMAIN facts \subseteq FactIds /\ overlapped \subseteq Owners
         /\ latest \in [Owners -> [Keys -> Jobs \cup {NoJob}]]
         /\ \A j \in Jobs : JobSound(job[j], facts, overlapped)
BY DEF FactIndInv, FactInv, FactTypeOK, JobsSound

LEMMA NextOpSound ==
  ASSUME FactIndInv, NEW j \in Jobs, Running(j), NEW f, NEW o
  PROVE  /\ JobSound(NextOp(j), f, o)
         /\ NextOp(j).user = job[j].user
         /\ NextOp(j).at \in {"next", "ended"}
         /\ JobSound([NextOp(j) EXCEPT !.at = "ended"], f, o)
         /\ [NextOp(j) EXCEPT !.at = "ended"].user = job[j].user
<1>1. JobSound(job[j], facts, overlapped) /\ job[j] \in Job /\ job[j].user \in Owners
  BY JobsTyped DEF JobSound, Running
<1>2. NextOp(j) \in Job /\ NextOp(j).user = job[j].user /\ NextOp(j).at \in {"next", "ended"}
      /\ (NextOp(j).at = "next" => NextOp(j).left > 0) /\ NextOp(j).found = NoFact
  BY <1>1 DEF NextOp, Job
<1>3. LET r == [NextOp(j) EXCEPT !.at = "ended"]
      IN  r \in Job /\ r.user = job[j].user /\ r.at = "ended"
  BY <1>2 DEF Job
<1> QED BY <1>1, <1>2, <1>3 DEF JobSound

\* Job j goes on, for its user, and changes nothing else.
LEMMA OneGoes ==
  ASSUME FactIndInv, NEW j \in Jobs, NEW r, Goes(j, r), Running(j),
         JobSound(r, facts, overlapped), r.user = job[j].user,
         UNCHANGED <<facts, overlapped, latest>>
  PROVE  FactIndInv'
<1>1. job' \in [Jobs -> Job] /\ \A k \in Jobs : job'[k] = IF k = j THEN r ELSE job[k]
  BY JobsTyped DEF Goes, JobSound
<1>2. FactInv'
  BY <1>1 DEF FactIndInv, FactInv, FactTypeOK, OneActivePerKey, SuccessorsAreOwn, LatestIsKnown,
              FactsByUser, Active
<1>3. JobsSound'
  BY <1>1 DEF FactIndInv, JobsSound
<1>4. JobsAlone'
  BY <1>1 DEF FactIndInv, JobsAlone, Running
<1> QED BY <1>2, <1>3, <1>4 DEF FactIndInv

LEMMA MemInvInit == FactInit => FactIndInv
<1> SUFFICES ASSUME FactInit PROVE FactIndInv
  OBVIOUS
<1>1. Idle \in Job /\ Idle.at = "idle"
  BY FactConstants DEF Idle, Job
<1>2. FactTypeOK
  BY <1>1 DEF FactInit, FactTypeOK
<1>3. OneActivePerKey /\ SuccessorsAreOwn
  BY DEF FactInit, OneActivePerKey, SuccessorsAreOwn
<1>4. LatestIsKnown
  BY DEF FactInit, LatestIsKnown
<1>5. JobsSound
  BY <1>1 DEF FactInit, JobsSound, JobSound
<1>6. JobsAlone
  BY <1>1 DEF FactInit, JobsAlone, Running
<1> QED BY <1>2, <1>3, <1>4, <1>5, <1>6 DEF FactIndInv, FactInv

LEMMA MemInvExtracts ==
  ASSUME FactIndInv, NEW j \in Jobs, NEW u \in Owners, NEW n \in 1..MaxOps, Extract(j, u, n)
  PROVE  FactIndInv'
<1> DEFINE r == [Idle EXCEPT !.at = "next", !.user = u, !.left = n]
<1>1. r \in Job /\ r.at = "next" /\ r.user = u /\ r.left > 0 /\ r.found = NoFact
  <2>1. n \in 0..MaxOps /\ 0 \in 0..MaxOps /\ n > 0
    BY FactConstants
  <2> QED BY <2>1 DEF Idle, Job
<1>2. job' \in [Jobs -> Job] /\ \A k \in Jobs : job'[k] = IF k = j THEN r ELSE job[k]
  BY <1>1, JobsTyped DEF Extract, Goes
<1>3. overlapped \subseteq overlapped' /\ overlapped' \subseteq Owners /\ facts' = facts
      /\ latest' = latest
  BY JobsTyped DEF Extract
<1>4. \A k \in Jobs : k # j /\ Running(k) /\ job[k].user = u => u \in overlapped'
  BY DEF Extract
<1> HIDE DEF r
<1>5. FactInv'
  BY <1>2, <1>3 DEF FactIndInv, FactInv, FactTypeOK, OneActivePerKey, SuccessorsAreOwn,
                    LatestIsKnown, FactsByUser, Active
<1>6. JobsSound'
  <2>1. JobSound(r, facts', overlapped')
    BY <1>1 DEF JobSound
  <2>2. \A k \in Jobs : JobSound(job[k], facts', overlapped')
    BY <1>3, StillSound, JobsTyped DEF RowsStay
  <2> QED BY <1>2, <2>1, <2>2 DEF JobsSound
<1>7. JobsAlone'
  BY <1>1, <1>2, <1>3, <1>4 DEF FactIndInv, JobsAlone, Running
<1> QED BY <1>5, <1>6, <1>7 DEF FactIndInv

LEMMA MemInvTakesWrite ==
  ASSUME FactIndInv, NEW j \in Jobs, NEW k \in Keys, NEW target \in FactIds \cup {NoFact},
         TakeWrite(j, k, target)
  PROVE  FactIndInv'
<1> DEFINE r == [job[j] EXCEPT !.at = "lookup", !.left = @ - 1, !.key = k, !.target = target]
<1>1. JobSound(job[j], facts, overlapped) /\ job[j].at = "next" /\ Running(j)
  BY JobsTyped DEF TakeWrite, Running
<1>2. job[j].left \in 1..MaxOps
  BY <1>1, FactConstants DEF JobSound, Job
<1>3. r \in Job /\ r.at = "lookup" /\ r.user = job[j].user /\ r.key = k /\ r.found = NoFact
  <2>1. job[j].left - 1 \in 0..MaxOps
    BY <1>2, FactConstants
  <2> QED BY <1>1, <2>1 DEF JobSound, Job
<1> HIDE DEF r
<1>4. JobSound(r, facts, overlapped)
  BY <1>1, <1>3 DEF JobSound
<1> QED BY <1>1, <1>3, <1>4, OneGoes DEF TakeWrite, r

LEMMA MemInvTakesOther ==
  ASSUME FactIndInv, NEW j \in Jobs, TakeOther(j)
  PROVE  FactIndInv'
<1> DEFINE r == [job[j] EXCEPT !.left = @ - 1]
           e == [r EXCEPT !.at = "ended"]
<1>1. JobSound(job[j], facts, overlapped) /\ job[j].at = "next" /\ Running(j)
  BY JobsTyped DEF TakeOther, Running
<1>2. job[j].left \in 1..MaxOps
  BY <1>1, FactConstants DEF JobSound, Job
<1>3. r \in Job /\ r.at = "next" /\ r.user = job[j].user /\ r.found = NoFact
  <2>1. job[j].left - 1 \in 0..MaxOps
    BY <1>2, FactConstants
  <2> QED BY <1>1, <2>1 DEF JobSound, Job
<1>4. e \in Job /\ e.at = "ended" /\ e.user = job[j].user
  BY <1>3 DEF Job
<1>5. Goes(j, IF r.left > 0 THEN r ELSE e) /\ UNCHANGED <<facts, overlapped, latest>>
  BY DEF TakeOther
<1> HIDE DEF r, e
<1>6. r.left > 0 => JobSound(r, facts, overlapped)
  BY <1>1, <1>3 DEF JobSound
<1>7. JobSound(e, facts, overlapped)
  BY <1>4 DEF JobSound
<1>8. CASE r.left > 0
  BY <1>1, <1>3, <1>5, <1>6, <1>8, OneGoes
<1>9. CASE ~(r.left > 0)
  BY <1>1, <1>4, <1>5, <1>7, <1>9, OneGoes
<1> QED BY <1>8, <1>9

LEMMA MemInvLooksUp ==
  ASSUME FactIndInv, NEW j \in Jobs, Lookup(j)
  PROVE  FactIndInv'
<1>1. JobSound(job[j], facts, overlapped) /\ job[j].at = "lookup" /\ Running(j)
  BY JobsTyped DEF Lookup, Running
<1> DEFINE rows == Rows(job[j].user, job[j].key)
<1>2. ASSUME NEW i \in rows,
             Goes(j, [job[j] EXCEPT !.at = "write", !.found = i, !.row = facts[i]])
      PROVE  FactIndInv'
  <2> DEFINE r == [job[j] EXCEPT !.at = "write", !.found = i, !.row = facts[i]]
  <2>1. i \in DOMAIN facts /\ facts[i] \in Fact /\ i \in FactIds /\ facts[i].by = NoFact
        /\ facts[i].user = job[j].user /\ facts[i].key = job[j].key
    BY JobsTyped DEF Rows, FactsByUser, Active
  <2>2. r \in Job /\ r.at = "write" /\ r.user = job[j].user /\ r.key = job[j].key
        /\ r.found = i /\ r.row = facts[i]
    BY <1>1, <2>1 DEF JobSound, Job
  <2> HIDE DEF r
  <2>3. JobSound(r, facts, overlapped)
    BY <1>1, <2>1, <2>2, FactConstants DEF JobSound
  <2> QED BY <1>1, <1>2, <2>2, <2>3, OneGoes DEF Lookup, r
<1>3. ASSUME rows = {}, Goes(j, [job[j] EXCEPT !.at = "write"])
      PROVE  FactIndInv'
  <2> DEFINE r == [job[j] EXCEPT !.at = "write"]
  <2>1. \A i \in DOMAIN facts :
          facts[i].user = job[j].user /\ facts[i].key = job[j].key => facts[i].by # NoFact
    BY <1>3 DEF Rows, FactsByUser, Active
  <2>2. r \in Job /\ r.at = "write" /\ r.user = job[j].user /\ r.key = job[j].key
        /\ r.found = NoFact
    BY <1>1 DEF JobSound, Job
  <2> HIDE DEF r
  <2>3. JobSound(r, facts, overlapped)
    BY <1>1, <2>1, <2>2 DEF JobSound
  <2> QED BY <1>1, <1>3, <2>2, <2>3, OneGoes DEF Lookup, r
<1> QED BY <1>2, <1>3 DEF Lookup

-----------------------------------------------------------------------------
(* Rows.                                                                   *)

\* Job j goes on with r, having written rows of its own user only: the other
\* jobs are as they were, since those of its user are known to have met it.
LEMMA OneWrites ==
  ASSUME FactIndInv, NEW j \in Jobs, NEW r, Goes(j, r), Running(j),
         overlapped' = overlapped, RowsStay(facts, facts'),
         JobSound(r, facts', overlapped), r.user = job[j].user,
         \A i \in DOMAIN facts' : facts'[i].user # job[j].user =>
           i \in DOMAIN facts /\ facts'[i] = facts[i]
  PROVE  job' \in [Jobs -> Job] /\ JobsSound' /\ JobsAlone'
<1>1. job' \in [Jobs -> Job] /\ \A m \in Jobs : job'[m] = IF m = j THEN r ELSE job[m]
  BY JobsTyped DEF Goes, JobSound
<1>2. ASSUME NEW m \in Jobs, m # j PROVE JobSound(job[m], facts', overlapped')
  <2>1. JobSound(job[m], facts, overlapped)
    BY JobsTyped
  <2>2. job[m].at = "write" /\ job[m].user \notin overlapped => job[m].user # job[j].user
    BY <1>2 DEF FactIndInv, JobsAlone, Running
  <2> QED BY <2>1, <2>2, StillSound
<1>3. JobsSound'
  BY <1>1, <1>2 DEF JobsSound
<1>4. JobsAlone'
  BY <1>1 DEF FactIndInv, JobsAlone, Running
<1> QED BY <1>1, <1>3, <1>4

LEMMA MemInvWrites ==
  ASSUME FactIndInv, NEW j \in Jobs, Write(j)
  PROVE  FactIndInv'
<1> DEFINE u == job[j].user
           k == job[j].key
           found == job[j].found
           row == IF found # NoFact THEN [job[j].row EXCEPT !.from = j]
                  ELSE [user |-> u, key |-> k, by |-> NoFact, from |-> j]
           linked(i) == [job[j] EXCEPT !.at = "link", !.found = i, !.row = NoFact]
<1>1. PICK i \in FactIds :
        /\ IF found # NoFact THEN i = found ELSE i \notin DOMAIN facts
        /\ facts' = Put(facts, i, row)
        /\ IF job[j].target = NoFact THEN Goes(j, NextOp(j)) ELSE Goes(j, linked(i))
  BY DEF Write
<1>2. JobSound(job[j], facts, overlapped) /\ job[j].at = "write" /\ Running(j)
  BY JobsTyped DEF Write, Running
<1>3. u \in Owners /\ k \in Keys /\ job[j] \in Job
  BY <1>2 DEF JobSound
<1>4. row \in Fact /\ row.user = u /\ row.key = k /\ row.by = NoFact /\ row.from = j
  <2>1. CASE found # NoFact
    BY <1>2, <2>1 DEF JobSound, Fact
  <2>2. CASE found = NoFact
    BY <1>3, <2>2 DEF Fact
  <2> QED BY <2>1, <2>2
<1>5. i \in DOMAIN facts => facts[i].user = u /\ facts[i].key = k
  BY <1>1, <1>2 DEF JobSound
<1>6. u \notin overlapped =>
        \A b \in DOMAIN facts :
          facts[b].user = u /\ facts[b].key = k /\ facts[b].by = NoFact => b = i
  <2>1. CASE found # NoFact
    <3>1. u \notin overlapped => facts[i] = job[j].row /\ facts[i].by = NoFact /\ i \in DOMAIN facts
      BY <1>1, <1>2, <2>1 DEF JobSound
    <3> QED BY <1>5, <3>1 DEF FactIndInv, FactInv, OneActivePerKey, Active
  <2>2. CASE found = NoFact
    BY <1>2, <2>2 DEF JobSound
  <2> QED BY <2>1, <2>2
<1>7. latest' = [latest EXCEPT ![u] = [@ EXCEPT ![k] = j]] /\ overlapped' = overlapped
  BY DEF Write
<1> HIDE DEF row
<1>8. /\ DOMAIN facts' = DOMAIN facts \cup {i}
      /\ facts'[i] = row
      /\ \A x \in DOMAIN facts \ {i} : facts'[x] = facts[x]
      /\ facts' \in [DOMAIN facts' -> Fact]
  BY <1>1, <1>4, JobsTyped DEF Put
<1>9. RowsStay(facts, facts')
  BY <1>4, <1>5, <1>8 DEF RowsStay
<1>10. job' \in [Jobs -> Job] /\ JobsSound' /\ JobsAlone'
  <2>1. \A x \in DOMAIN facts' : facts'[x].user # u => x \in DOMAIN facts /\ facts'[x] = facts[x]
    BY <1>4, <1>8
  <2>2. CASE job[j].target = NoFact
    BY <1>1, <1>2, <1>7, <1>9, <2>1, <2>2, NextOpSound, OneWrites
  <2>3. CASE job[j].target # NoFact
    <3>1. linked(i) \in Job /\ linked(i).at = "link" /\ linked(i).user = u
          /\ linked(i).key = k /\ linked(i).found = i
      BY <1>3 DEF Job
    <3>2. JobSound(linked(i), facts', overlapped)
      BY <1>3, <1>4, <1>8, <3>1 DEF JobSound
    <3> QED BY <1>1, <1>2, <1>7, <1>9, <2>1, <2>3, <3>1, <3>2, OneWrites
  <2> QED BY <2>2, <2>3
<1>11. FactTypeOK'
  <2>1. latest' \in [Owners -> [Keys -> Jobs \cup {NoJob}]]
    BY <1>3, <1>7, JobsTyped
  <2> QED BY <1>7, <1>8, <1>10, <2>1, JobsTyped DEF FactTypeOK
<1>12. OneActivePerKey'
  BY <1>4, <1>6, <1>7, <1>8 DEF FactIndInv, FactInv, OneActivePerKey, Active
<1>13. SuccessorsAreOwn'
  BY <1>4, <1>8, <1>9 DEF FactIndInv, FactInv, SuccessorsAreOwn, Active, RowsStay
<1>14. LatestIsKnown'
  <2> SUFFICES ASSUME NEW v \in Owners, v \notin overlapped, NEW q \in Keys, latest'[v][q] # NoJob
               PROVE  \E a \in DOMAIN facts' :
                        facts'[a].user = v /\ facts'[a].by = NoFact /\ facts'[a].key = q
                        /\ facts'[a].from = latest'[v][q]
    BY <1>7 DEF LatestIsKnown, FactsByUser, Active
  <2>1. CASE v = u /\ q = k
    BY <1>3, <1>4, <1>7, <1>8, <2>1, JobsTyped
  <2>2. CASE ~(v = u /\ q = k)
    <3>1. latest'[v][q] = latest[v][q]
      BY <1>3, <1>7, <2>2, JobsTyped
    <3>2. PICK a \in DOMAIN facts : facts[a].user = v /\ facts[a].by = NoFact /\ facts[a].key = q
                                    /\ facts[a].from = latest[v][q]
      BY <3>1 DEF FactIndInv, FactInv, LatestIsKnown, FactsByUser, Active
    <3> QED BY <1>5, <1>8, <2>2, <3>1, <3>2
  <2> QED BY <2>1, <2>2
<1> QED BY <1>10, <1>11, <1>12, <1>13, <1>14 DEF FactIndInv, FactInv

LEMMA MemInvLinks ==
  ASSUME FactIndInv, NEW j \in Jobs, Link(j)
  PROVE  FactIndInv'
<1> DEFINE u == job[j].user
           hit == Scope(u, job[j].target)
<1>1. JobSound(job[j], facts, overlapped) /\ job[j].at = "link" /\ Running(j)
  BY JobsTyped DEF Link, Running
<1>2. hit \subseteq DOMAIN facts /\ \A i \in hit : facts[i].user = u
  BY DEF Scope
<1>3. job[j].found \in DOMAIN facts /\ facts[job[j].found].user = u
  BY <1>1 DEF JobSound
<1>4. /\ facts' = [i \in DOMAIN facts |->
                     IF i \in hit THEN [facts[i] EXCEPT !.by = job[j].found] ELSE facts[i]]
      /\ latest' = [v \in Owners |-> [k \in Keys |->
                      IF \E i \in hit : facts[i].user = v /\ facts[i].key = k
                      THEN NoJob ELSE latest[v][k]]]
      /\ Goes(j, NextOp(j)) /\ overlapped' = overlapped
  BY DEF Link
<1> HIDE DEF hit
<1>5. /\ DOMAIN facts' = DOMAIN facts
      /\ \A i \in DOMAIN facts \ hit : facts'[i] = facts[i]
      /\ \A i \in DOMAIN facts :
           facts'[i] \in Fact /\ facts'[i].user = facts[i].user /\ facts'[i].key = facts[i].key
           /\ facts'[i].from = facts[i].from
      /\ \A i \in hit : facts'[i].by = job[j].found
  BY <1>2, <1>3, <1>4, JobsTyped DEF Fact
<1>6. job' \in [Jobs -> Job] /\ JobsSound' /\ JobsAlone'
  BY <1>1, <1>2, <1>4, <1>5, NextOpSound, OneWrites DEF RowsStay
<1>7. FactTypeOK'
  BY <1>4, <1>5, <1>6, JobsTyped DEF FactTypeOK
<1>8. job[j].found # NoFact
  BY <1>3, FactConstants, JobsTyped
<1>9. OneActivePerKey'
  BY <1>2, <1>4, <1>5, <1>8 DEF FactIndInv, FactInv, OneActivePerKey, Active
<1>10. SuccessorsAreOwn'
  BY <1>2, <1>3, <1>5 DEF FactIndInv, FactInv, SuccessorsAreOwn, Active
<1>11. LatestIsKnown'
  <2> SUFFICES ASSUME NEW v \in Owners, v \notin overlapped, NEW q \in Keys, latest'[v][q] # NoJob
               PROVE  \E a \in DOMAIN facts' :
                        facts'[a].user = v /\ facts'[a].by = NoFact /\ facts'[a].key = q
                        /\ facts'[a].from = latest'[v][q]
    BY <1>4 DEF LatestIsKnown, FactsByUser, Active
  <2>1. latest'[v][q] = latest[v][q] /\ ~ \E i \in hit : facts[i].user = v /\ facts[i].key = q
    BY <1>4
  <2>2. PICK a \in DOMAIN facts : facts[a].user = v /\ facts[a].by = NoFact /\ facts[a].key = q
                                  /\ facts[a].from = latest[v][q]
    BY <2>1 DEF FactIndInv, FactInv, LatestIsKnown, FactsByUser, Active
  <2> QED BY <1>5, <2>1, <2>2
<1> QED BY <1>6, <1>7, <1>9, <1>10, <1>11 DEF FactIndInv, FactInv

LEMMA MemInvFails ==
  ASSUME FactIndInv, NEW j \in Jobs, OpFails(j)
  PROVE  FactIndInv'
BY NextOpSound, OneGoes DEF OpFails, Fails

LEMMA MemInvRestarts ==
  ASSUME FactIndInv, MemoryRestart
  PROVE  FactIndInv'
<1>1. job' = [j \in Jobs |-> IF Running(j) THEN [NextOp(j) EXCEPT !.at = "ended"] ELSE job[j]]
      /\ UNCHANGED <<facts, overlapped, latest>>
  BY DEF MemoryRestart
<1>2. \A j \in Jobs : JobSound(job'[j], facts, overlapped) /\ ~Running(j)'
  <2> TAKE j \in Jobs
  <2>1. CASE Running(j)
    <3>1. [NextOp(j) EXCEPT !.at = "ended"].at = "ended"
      BY JobsTyped DEF NextOp, JobSound, Job
    <3> QED BY <1>1, <2>1, <3>1, NextOpSound DEF Running
  <2>2. CASE ~Running(j)
    BY <1>1, <2>2, JobsTyped DEF Running
  <2> QED BY <2>1, <2>2
<1>3. job' \in [Jobs -> Job]
  BY <1>1, <1>2 DEF JobSound
<1>4. FactInv'
  BY <1>1, <1>3 DEF FactIndInv, FactInv, FactTypeOK, OneActivePerKey, SuccessorsAreOwn,
                    LatestIsKnown, FactsByUser, Active
<1>5. JobsSound' /\ JobsAlone'
  BY <1>1, <1>2 DEF JobsSound, JobsAlone
<1> QED BY <1>4, <1>5 DEF FactIndInv

LEMMA MemInvNext == FactIndInv /\ [FactNext]_factVars => FactIndInv'
<1> SUFFICES ASSUME FactIndInv, [FactNext]_factVars PROVE FactIndInv'
  OBVIOUS
<1>1. CASE UNCHANGED factVars
  BY <1>1 DEF factVars, FactIndInv, FactInv, FactTypeOK, OneActivePerKey, SuccessorsAreOwn,
              LatestIsKnown, FactsByUser, Active, JobsSound, JobsAlone, Running
<1>2. ASSUME NEW j \in Jobs, JobStep(j) PROVE FactIndInv'
  <2>1. ASSUME NEW k \in Keys, NEW target \in DOMAIN facts \cup {NoFact}, TakeWrite(j, k, target)
        PROVE  FactIndInv'
    <3>1. target \in FactIds \cup {NoFact}
      BY DEF FactIndInv, FactInv, FactTypeOK
    <3> QED BY <2>1, <3>1, MemInvTakesWrite
  <2> QED BY <1>2, <2>1, MemInvExtracts, MemInvTakesOther, MemInvLooksUp, MemInvWrites,
             MemInvLinks, MemInvFails DEF JobStep
<1>3. CASE MemoryRestart
  BY <1>3, MemInvRestarts
<1> QED BY <1>1, <1>2, <1>3 DEF FactNext

\* For users whose jobs never met: a key has one active row, and what was last
\* written under it is what prompts show; for all: a replaced row names one of
\* the same user.
THEOREM MemoryKeeps == FactSpec => []FactInv
<1>1. FactIndInv => FactInv
  BY DEF FactIndInv
<1> QED BY <1>1, MemInvInit, MemInvNext, PTL DEF FactSpec

-----------------------------------------------------------------------------
(* What a step may do to the rows.                                         *)

KeepsOwners == DOMAIN facts \subseteq DOMAIN facts' /\ FactsOfOthersKept

\* A job that has ended an operation is somewhere else than before it.
LEMMA JobLeaves ==
  ASSUME FactIndInv, NEW j \in Jobs, job[j].at \in {"write", "link"},
         NEW r \in Job, r.at # job[j].at, Goes(j, r)
  PROVE  job'[j] # job[j]
BY JobsTyped DEF Goes

LEMMA WritesOwn ==
  ASSUME FactIndInv, NEW j \in Jobs, Write(j)
  PROVE  KeepsOwners
<1>1. JobSound(job[j], facts, overlapped) /\ job[j].at = "write" /\ Running(j)
  BY JobsTyped DEF Write, Running
<1>2. PICK i, row :
        /\ i \in FactIds
        /\ IF job[j].found # NoFact THEN i = job[j].found /\ row = [job[j].row EXCEPT !.from = j]
           ELSE /\ i \notin DOMAIN facts
                /\ row = [user |-> job[j].user, key |-> job[j].key, by |-> NoFact, from |-> j]
        /\ facts' = Put(facts, i, row)
        /\ IF job[j].target = NoFact THEN Goes(j, NextOp(j))
           ELSE Goes(j, [job[j] EXCEPT !.at = "link", !.found = i, !.row = NoFact])
  BY DEF Write
<1>3. row.user = job[j].user
      /\ (i \in DOMAIN facts => facts[i].user = row.user /\ facts[i].key = row.key)
  BY <1>1, <1>2 DEF JobSound, Fact
<1>4. job'[j] # job[j]
  <2>1. NextOp(j) \in Job /\ NextOp(j).at # "write"
    BY <1>1, NextOpSound DEF JobSound
  <2>0. i \in FactIds
    BY <1>2
  <2>2. [job[j] EXCEPT !.at = "link", !.found = i, !.row = NoFact] \in Job
    BY <1>1, <2>0 DEF JobSound, Job
  <2>3. [job[j] EXCEPT !.at = "link", !.found = i, !.row = NoFact].at = "link"
    BY <1>1 DEF JobSound, Job
  <2> QED BY <1>1, <1>2, <2>1, <2>2, <2>3, JobLeaves
<1>5. DOMAIN facts' = DOMAIN facts \cup {i} /\ facts'[i] = row
      /\ \A x \in DOMAIN facts \ {i} : facts'[x] = facts[x]
  BY <1>2 DEF Put
<1> QED BY <1>3, <1>4, <1>5 DEF KeepsOwners, FactsOfOthersKept

LEMMA LinksOwn ==
  ASSUME FactIndInv, NEW j \in Jobs, Link(j)
  PROVE  KeepsOwners
<1> DEFINE hit == Scope(job[j].user, job[j].target)
<1>1. job[j].at = "link" /\ Running(j)
  BY DEF Link, Running
<1>2. \A i \in hit : facts[i].user = job[j].user
  BY DEF Scope
<1>3. facts' = [i \in DOMAIN facts |->
                  IF i \in hit THEN [facts[i] EXCEPT !.by = job[j].found] ELSE facts[i]]
      /\ Goes(j, NextOp(j))
  BY DEF Link
<1>4. job'[j] # job[j]
  BY <1>1, <1>3, NextOpSound, JobLeaves DEF JobSound
<1> HIDE DEF hit
<1>5. DOMAIN facts' = DOMAIN facts
      /\ \A i \in DOMAIN facts : facts'[i].user = facts[i].user /\ facts'[i].key = facts[i].key
                                 /\ (i \notin hit => facts'[i] = facts[i])
  BY <1>3, JobsTyped DEF Fact
<1> QED BY <1>2, <1>4, <1>5 DEF KeepsOwners, FactsOfOthersKept

LEMMA StepKeepsOwners == FactIndInv /\ [FactNext]_factVars => KeepsOwners
<1> SUFFICES ASSUME FactIndInv, [FactNext]_factVars PROVE KeepsOwners
  OBVIOUS
<1>1. CASE facts' = facts
  BY <1>1 DEF KeepsOwners, FactsOfOthersKept
<1>2. CASE \E j \in Jobs : Write(j)
  BY <1>2, WritesOwn
<1>3. CASE \E j \in Jobs : Link(j)
  BY <1>3, LinksOwn
<1> QED
  BY <1>1, <1>2, <1>3 DEF FactNext, JobStep, Extract, TakeWrite, TakeOther, Lookup, OpFails,
                          Fails, MemoryRestart, factVars

\* A row is written only by a job of the user it belongs to, keeps its user and
\* its key, and is never deleted, whatever targets the LLM names.
THEOREM MemoryOnlyOwn == FactSpec => OnlyOwnFacts
<1>1. FactIndInv /\ [FactNext]_factVars =>
        [DOMAIN facts \subseteq DOMAIN facts' /\ FactsOfOthersKept]_factVars
  BY StepKeepsOwners DEF KeepsOwners
<1> QED BY <1>1, MemInvInit, MemInvNext, PTL DEF FactSpec, OnlyOwnFacts

-----------------------------------------------------------------------------
(* ChatTurns: the requests of a session, however they meet, fail or end.   *)

PlacesIn(ms, msg) == {i \in DOMAIN ms : ms[i] = msg}

\* The history of query q is a stretch of its session, before its question.
HistorySound(q, r, ms) ==
  \E i \in 0..Len(ms[r.chat]) :
    /\ i + Len(r.history) <= Len(ms[r.chat])
    /\ \A k \in DOMAIN r.history : r.history[k] = ms[r.chat][i + k]
    /\ \A p \in PlacesIn(ms[r.chat], Question(q)) : p > i + Len(r.history)

\* What is true of query q, with the local variables r, while the sessions hold
\* the messages ms and those in `un` miss a question.
QuerySound(q, r, ms, un) ==
  /\ r \in Query
  /\ r.at \in {"open", "ready", "asked", "answered", "offered"} => r.chat \in Chats
  /\ \A s \in Chats :
       /\ PlacesIn(ms[s], Question(q)) # {} =>
            s = r.chat /\ r.at \in {"asked", "answered", "offered", "done"}
       /\ PlacesIn(ms[s], Answer(q)) # {} => r.at \in {"offered", "done"}
       /\ PlacesIn(ms[s], Result(q)) # {} => r.at = "done"
       /\ \A msg \in {Answer(q), Result(q)} : \A i \in PlacesIn(ms[s], msg) :
            /\ s = r.chat
            /\ PlacesIn(ms[s], msg) = {i}
            /\ s \notin un => \E j \in PlacesIn(ms[s], Question(q)) : j < i
  /\ r.at \in {"asked", "answered", "offered"} /\ r.chat \notin un =>
       PlacesIn(ms[r.chat], Question(q)) # {}
  /\ r.at \in {"idle", "open"} => r.history = <<>>
  /\ r.history # <<>> => r.chat \in Chats /\ HistorySound(q, r, ms)

\* The first message of session s is the question q, unless one was not saved.
OpensWith(s, q, ms, un) ==
  s \notin un => ms[s] # <<>> /\ ms[s][1] = Question(q)

ChatIndInv ==
  /\ ChatTypeOK
  /\ \A q \in Queries : QuerySound(q, query[q], messages, unsaved)
  /\ \A q \in titling : /\ query[q].at \in {"answered", "offered", "done"} /\ query[q].chat \in Chats
                        /\ OpensWith(query[q].chat, q, messages, unsaved)
  /\ \A s \in DOMAIN titles :
       titles[s] # Untitled => OpensWith(s, titles[s], messages, unsaved)

LEMMA ChatIndInvImplies == ChatIndInv => ChatInv
<1> SUFFICES ASSUME ChatIndInv PROVE HistoryIsPast /\ AnswersFollowQuestions /\ TitleIsFirstQuestion
  BY DEF ChatIndInv, ChatInv
<1>1. \A s, msg : Place(s, msg) = PlacesIn(messages[s], msg)
  BY DEF Place, PlacesIn
<1>2. \A q \in Queries : QuerySound(q, query[q], messages, unsaved)
  BY DEF ChatIndInv
<1>3. HistoryIsPast
  BY <1>1, <1>2 DEF QuerySound, HistorySound, HistoryIsPast
<1>4. AnswersFollowQuestions
  BY <1>1, <1>2 DEF QuerySound, AnswersFollowQuestions
<1>5. TitleIsFirstQuestion
  BY DEF ChatIndInv, OpensWith, TitleIsFirstQuestion
<1> QED BY <1>3, <1>4, <1>5

-----------------------------------------------------------------------------
(* A message is saved, or is not.                                          *)

LEMMA Messages ==
  ASSUME NEW q \in Queries
  PROVE  /\ Question(q) \in ChatMessage /\ Answer(q) \in ChatMessage /\ Result(q) \in ChatMessage
         /\ \A p \in Queries : /\ Question(q) # Answer(p) /\ Question(q) # Result(p)
                               /\ Answer(q) # Result(p)
                               /\ Question(q) = Question(p) => q = p
                               /\ Answer(q) = Answer(p) => q = p
                               /\ Result(q) = Result(p) => q = p
BY DEF Question, Answer, Result, ChatMessage

\* An append adds one message behind the others.
LEMMA Appended ==
  ASSUME NEW ms \in Seq(ChatMessage), NEW msg \in ChatMessage
  PROVE  LET new == Append(ms, msg)
         IN  /\ new \in Seq(ChatMessage) /\ new # <<>>
             /\ Len(ms) \in Nat /\ Len(new) = Len(ms) + 1
             /\ \A i \in 1..Len(ms) : new[i] = ms[i]
             /\ new[Len(ms) + 1] = msg
             /\ ms # <<>> => new[1] = ms[1]
             /\ PlacesIn(new, msg) = PlacesIn(ms, msg) \cup {Len(ms) + 1}
             /\ \A m : m # msg => PlacesIn(new, m) = PlacesIn(ms, m)
             /\ \A m : \A i \in PlacesIn(ms, m) : i \in Nat /\ i <= Len(ms)
<1> DEFINE new == Append(ms, msg)
<1>1. /\ new \in Seq(ChatMessage) /\ new # <<>>
      /\ Len(ms) \in Nat /\ Len(new) = Len(ms) + 1
      /\ \A i \in 1..Len(ms) : new[i] = ms[i]
      /\ new[Len(ms) + 1] = msg
      /\ DOMAIN ms = 1..Len(ms) /\ DOMAIN new = 1..(Len(ms) + 1)
  BY AppendProperties, LenProperties
<1>2. ms # <<>> => Len(ms) >= 1
  BY EmptySeq, <1>1
<1> HIDE DEF new
<1>3. ms # <<>> => new[1] = ms[1]
  BY <1>1, <1>2
<1>4. PlacesIn(new, msg) = PlacesIn(ms, msg) \cup {Len(ms) + 1}
  BY <1>1 DEF PlacesIn
<1>5. \A m : m # msg => PlacesIn(new, m) = PlacesIn(ms, m)
  BY <1>1 DEF PlacesIn
<1>6. \A m : \A i \in PlacesIn(ms, m) : i \in Nat /\ i <= Len(ms)
  BY <1>1 DEF PlacesIn
<1> QED BY <1>1, <1>3, <1>4, <1>5, <1>6 DEF new

\* The sessions are `new` after message msg was saved in session s.
GainedOne(ms, new, s, msg) ==
  /\ new \in [Chats -> Seq(ChatMessage)]
  /\ \A c \in Chats \ {s} : new[c] = ms[c]
  /\ new[s] # <<>>
  /\ Len(ms[s]) \in Nat /\ Len(new[s]) = Len(ms[s]) + 1
  /\ \A i \in 1..Len(ms[s]) : new[s][i] = ms[s][i]
  /\ ms[s] # <<>> => new[s][1] = ms[s][1]
  /\ PlacesIn(new[s], msg) = PlacesIn(ms[s], msg) \cup {Len(ms[s]) + 1}
  /\ \A m : m # msg => PlacesIn(new[s], m) = PlacesIn(ms[s], m)
  /\ \A m : \A i \in PlacesIn(ms[s], m) : i \in Nat /\ i <= Len(ms[s])

LEMMA SavedSays ==
  ASSUME NEW ms \in [Chats -> Seq(ChatMessage)], NEW s \in Chats, NEW msg \in ChatMessage,
         NEW new, new = [ms EXCEPT ![s] = Append(@, msg)]
  PROVE  GainedOne(ms, new, s, msg)
<1>1. new[s] = Append(ms[s], msg) /\ \A c \in Chats \ {s} : new[c] = ms[c]
  OBVIOUS
<1>2. ms[s] \in Seq(ChatMessage)
  OBVIOUS
<1>3. new \in [Chats -> Seq(ChatMessage)]
  BY <1>2, AppendProperties
<1>4. /\ new[s] # <<>>
      /\ Len(ms[s]) \in Nat /\ Len(new[s]) = Len(ms[s]) + 1
      /\ \A i \in 1..Len(ms[s]) : new[s][i] = ms[s][i]
      /\ ms[s] # <<>> => new[s][1] = ms[s][1]
      /\ PlacesIn(new[s], msg) = PlacesIn(ms[s], msg) \cup {Len(ms[s]) + 1}
      /\ \A m : m # msg => PlacesIn(new[s], m) = PlacesIn(ms[s], m)
      /\ \A m : \A i \in PlacesIn(ms[s], m) : i \in Nat /\ i <= Len(ms[s])
  BY <1>1, <1>2, Appended
<1> QED BY <1>1, <1>3, <1>4 DEF GainedOne

LEMMA HistoryStays ==
  ASSUME NEW ms \in [Chats -> Seq(ChatMessage)], NEW s \in Chats, NEW msg \in ChatMessage,
         NEW q \in Queries, NEW r \in Query, r.chat \in Chats,
         HistorySound(q, r, ms), NEW new, GainedOne(ms, new, s, msg)
  PROVE  HistorySound(q, r, new)
<1>1. PICK i \in 0..Len(ms[r.chat]) :
        /\ i + Len(r.history) <= Len(ms[r.chat])
        /\ \A k \in DOMAIN r.history : r.history[k] = ms[r.chat][i + k]
        /\ \A p \in PlacesIn(ms[r.chat], Question(q)) : p > i + Len(r.history)
  BY DEF HistorySound
<1>2. r.history \in Seq(ChatMessage) /\ Len(r.history) \in Nat /\ DOMAIN r.history = 1..Len(r.history)
  BY LenProperties DEF Query
<1>3. CASE r.chat # s
  <2>1. new[r.chat] = ms[r.chat]
    BY <1>3 DEF GainedOne
  <2> QED BY <2>1 DEF HistorySound
<1>4. CASE r.chat = s
  <2>1. /\ Len(ms[s]) \in Nat /\ Len(new[s]) = Len(ms[s]) + 1
        /\ \A k \in 1..Len(ms[s]) : new[s][k] = ms[s][k]
        /\ PlacesIn(new[s], msg) = PlacesIn(ms[s], msg) \cup {Len(ms[s]) + 1}
        /\ \A m : m # msg => PlacesIn(new[s], m) = PlacesIn(ms[s], m)
    BY DEF GainedOne
  <2>5. i \in 0..Len(ms[s]) /\ i + Len(r.history) <= Len(ms[s])
    BY <1>1, <1>4
  <2>2. i \in 0..Len(new[s]) /\ i + Len(r.history) <= Len(new[s])
    <3>1. Len(ms[s]) \in Nat /\ Len(new[s]) = Len(ms[s]) + 1
      BY <2>1
    <3>2. Len(r.history) \in Nat
      BY <1>2
    <3> QED BY <3>1, <3>2, <2>5
  <2>3. ASSUME NEW k \in DOMAIN r.history PROVE r.history[k] = new[s][i + k]
    <3>1. k \in Nat /\ k >= 1 /\ k <= Len(r.history) /\ Len(r.history) \in Nat
      BY <1>2, <2>3
    <3>2. Len(ms[s]) \in Nat
      BY <2>1
    <3>3. i + k \in 1..Len(ms[s])
      BY <2>5, <3>1, <3>2
    <3>4. r.history[k] = ms[s][i + k]
      BY <1>1, <1>4, <2>3
    <3> QED BY <2>1, <3>3, <3>4
  <2>4. ASSUME NEW p \in PlacesIn(new[s], Question(q)) PROVE p > i + Len(r.history)
    <3>1. CASE p \in PlacesIn(ms[s], Question(q))
      BY <1>1, <1>4, <3>1
    <3>2. CASE p = Len(ms[s]) + 1
      BY <1>1, <1>2, <1>4, <2>1, <3>2
    <3>3. p \in PlacesIn(ms[s], Question(q)) \/ p = Len(ms[s]) + 1
      BY <2>1
    <3> QED BY <3>1, <3>2, <3>3
  <2> QED BY <1>4, <2>2, <2>3, <2>4 DEF HistorySound
<1> QED BY <1>3, <1>4

\* Where the messages of query q are when another message was saved.
LEMMA OtherSaved ==
  ASSUME NEW ms \in [Chats -> Seq(ChatMessage)], NEW s \in Chats, NEW msg \in ChatMessage,
         NEW q \in Queries, NEW r, NEW un, QuerySound(q, r, ms, un),
         msg # Question(q), msg # Answer(q), msg # Result(q), NEW new, GainedOne(ms, new, s, msg)
  PROVE  QuerySound(q, r, new, un)
<1>1. \A c \in Chats, m \in {Question(q), Answer(q), Result(q)} :
        PlacesIn(new[c], m) = PlacesIn(ms[c], m)
  <2> SUFFICES ASSUME NEW c \in Chats, NEW m \in {Question(q), Answer(q), Result(q)}
               PROVE  PlacesIn(new[c], m) = PlacesIn(ms[c], m)
    OBVIOUS
  <2>1. CASE c = s
    BY <2>1 DEF GainedOne
  <2>2. CASE c # s
    BY <2>2 DEF GainedOne
  <2> QED BY <2>1, <2>2
<1>2. r.history # <<>> => r.chat \in Chats /\ HistorySound(q, r, new)
  BY HistoryStays DEF QuerySound
<1>3. \A c \in Chats : /\ PlacesIn(new[c], Question(q)) = PlacesIn(ms[c], Question(q))
                       /\ PlacesIn(new[c], Answer(q)) = PlacesIn(ms[c], Answer(q))
                       /\ PlacesIn(new[c], Result(q)) = PlacesIn(ms[c], Result(q))
  BY <1>1
<1>4. \A c \in Chats, m \in {Answer(q), Result(q)} : \A i \in PlacesIn(new[c], m) :
        /\ c = r.chat
        /\ PlacesIn(new[c], m) = {i}
        /\ c \notin un => \E j \in PlacesIn(new[c], Question(q)) : j < i
  <2> SUFFICES ASSUME NEW c \in Chats, NEW m \in {Answer(q), Result(q)}
               PROVE  \A i \in PlacesIn(new[c], m) :
                        /\ c = r.chat
                        /\ PlacesIn(new[c], m) = {i}
                        /\ c \notin un => \E j \in PlacesIn(new[c], Question(q)) : j < i
    OBVIOUS
  <2>1. \A i \in PlacesIn(ms[c], m) :
          /\ c = r.chat
          /\ PlacesIn(ms[c], m) = {i}
          /\ c \notin un => \E j \in PlacesIn(ms[c], Question(q)) : j < i
    BY DEF QuerySound
  <2>2. PlacesIn(new[c], m) = PlacesIn(ms[c], m)
    BY <1>1
  <2> QED BY <1>3, <2>1, <2>2
<1>5. \A c \in Chats : /\ PlacesIn(new[c], Question(q)) # {} =>
                            c = r.chat /\ r.at \in {"asked", "answered", "offered", "done"}
                       /\ PlacesIn(new[c], Answer(q)) # {} => r.at \in {"offered", "done"}
                       /\ PlacesIn(new[c], Result(q)) # {} => r.at = "done"
  BY <1>3 DEF QuerySound
<1>6. r.at \in {"asked", "answered", "offered"} /\ r.chat \notin un =>
        PlacesIn(new[r.chat], Question(q)) # {}
  BY <1>3 DEF QuerySound
<1> QED BY <1>2, <1>4, <1>5, <1>6 DEF QuerySound

\* The question of a query is saved once it has read the history.
LEMMA QuestionSaved ==
  ASSUME NEW ms \in [Chats -> Seq(ChatMessage)], NEW un,
         NEW q \in Queries, NEW r, QuerySound(q, r, ms, un), r.at = "ready",
         NEW s, s = r.chat, NEW new, GainedOne(ms, new, s, Question(q)),
         NEW t, t = [r EXCEPT !.at = "asked"]
  PROVE  QuerySound(q, t, new, un)
<1>1. /\ r \in Query /\ s \in Chats /\ Question(q) \in ChatMessage
      /\ Question(q) # Answer(q) /\ Question(q) # Result(q)
      /\ \A c \in Chats : /\ PlacesIn(ms[c], Question(q)) = {}
                          /\ PlacesIn(ms[c], Answer(q)) = {}
                          /\ PlacesIn(ms[c], Result(q)) = {}
  BY Messages DEF QuerySound
<1>2. t \in Query /\ t.at = "asked" /\ t.chat = s /\ t.history = r.history
  BY <1>1 DEF Query
<1>3. r.history # <<>> => HistorySound(q, r, new)
  BY <1>1, HistoryStays DEF QuerySound
<1>4. PlacesIn(new[s], Question(q)) = {Len(ms[s]) + 1}
  BY <1>1 DEF GainedOne
<1>5. \A c \in Chats : /\ PlacesIn(new[c], Answer(q)) = {}
                       /\ PlacesIn(new[c], Result(q)) = {}
                       /\ c # s => PlacesIn(new[c], Question(q)) = {}
  BY <1>1 DEF GainedOne
<1>6. t.history # <<>> => t.chat \in Chats /\ HistorySound(q, t, new)
  BY <1>1, <1>2, <1>3 DEF HistorySound
<1>7. \A c \in Chats : PlacesIn(new[c], Question(q)) # {} => c = t.chat
  BY <1>2, <1>5
<1> QED BY <1>1, <1>2, <1>4, <1>5, <1>6, <1>7 DEF QuerySound

\* The answer of a request, or the result of the action it offered, is saved
\* behind its question.
LEMMA ReplySaved ==
  ASSUME NEW ms \in [Chats -> Seq(ChatMessage)], NEW un,
         NEW q \in Queries, NEW r, QuerySound(q, r, ms, un), NEW at,
         NEW msg, \/ msg = Answer(q) /\ r.at = "answered" /\ at \in {"offered", "done"}
                  \/ msg = Result(q) /\ r.at = "offered" /\ at = "done",
         NEW s, s = r.chat, NEW new, GainedOne(ms, new, s, msg),
         NEW t, t = [r EXCEPT !.at = at]
  PROVE  QuerySound(q, t, new, un)
<1> DEFINE other == IF msg = Answer(q) THEN Result(q) ELSE Answer(q)
<1>1. /\ r \in Query /\ s \in Chats /\ msg \in ChatMessage
      /\ Question(q) # msg /\ other # msg /\ {msg, other} = {Answer(q), Result(q)}
      /\ \A c \in Chats : /\ PlacesIn(ms[c], msg) = {}
                          /\ PlacesIn(ms[c], Question(q)) # {} => c = s
      /\ s \notin un => PlacesIn(ms[s], Question(q)) # {}
  BY Messages DEF QuerySound
<1>2. t \in Query /\ t.at = at /\ t.chat = s /\ t.history = r.history
  BY <1>1 DEF Query
<1>3. r.history # <<>> => HistorySound(q, r, new)
  BY <1>1, HistoryStays DEF QuerySound
<1> HIDE DEF other
<1>4. /\ PlacesIn(new[s], msg) = {Len(ms[s]) + 1}
      /\ PlacesIn(new[s], Question(q)) = PlacesIn(ms[s], Question(q))
      /\ \A i \in PlacesIn(ms[s], Question(q)) : i \in Nat /\ i <= Len(ms[s])
      /\ Len(ms[s]) \in Nat
  BY <1>1 DEF GainedOne
<1>5. \A c \in Chats \ {s} : new[c] = ms[c]
  BY <1>1 DEF GainedOne
<1>6. \A c \in Chats : /\ c # s => PlacesIn(new[c], msg) = {}
                       /\ PlacesIn(new[c], Question(q)) # {} => c = s
  BY <1>1, <1>4, <1>5
<1>10. \A c \in Chats : /\ PlacesIn(new[c], other) = PlacesIn(ms[c], other)
                        /\ PlacesIn(new[c], Question(q)) = PlacesIn(ms[c], Question(q))
  <2> SUFFICES ASSUME NEW c \in Chats
               PROVE  /\ PlacesIn(new[c], other) = PlacesIn(ms[c], other)
                      /\ PlacesIn(new[c], Question(q)) = PlacesIn(ms[c], Question(q))
    OBVIOUS
  <2>1. CASE c = s
    BY <1>1, <2>1 DEF GainedOne
  <2>2. CASE c # s
    BY <1>5, <2>2
  <2> QED BY <2>1, <2>2
<1>7. s \notin un => \E j \in PlacesIn(new[s], Question(q)) : j < Len(ms[s]) + 1
  BY <1>1, <1>4
<1>8. t.history # <<>> => t.chat \in Chats /\ HistorySound(q, t, new)
  BY <1>1, <1>2, <1>3 DEF HistorySound
<1>9. \A c \in Chats : \A i \in PlacesIn(new[c], msg) :
        /\ c = t.chat
        /\ PlacesIn(new[c], msg) = {i}
        /\ c \notin un => \E j \in PlacesIn(new[c], Question(q)) : j < i
  BY <1>2, <1>4, <1>6, <1>7
<1>11. \A c \in Chats : \A i \in PlacesIn(new[c], other) :
         /\ c = t.chat
         /\ PlacesIn(new[c], other) = {i}
         /\ c \notin un => \E j \in PlacesIn(new[c], Question(q)) : j < i
  <2>1. other \in {Answer(q), Result(q)}
    BY <1>1
  <2>2. \A c \in Chats : \A i \in PlacesIn(ms[c], other) :
          /\ c = r.chat
          /\ PlacesIn(ms[c], other) = {i}
          /\ c \notin un => \E j \in PlacesIn(ms[c], Question(q)) : j < i
    BY <2>1 DEF QuerySound
  <2>3. r.chat = t.chat
    BY <1>2
  <2> QED BY <1>10, <2>2, <2>3
<1>12. \A c \in Chats, m \in {Answer(q), Result(q)} : \A i \in PlacesIn(new[c], m) :
         /\ c = t.chat
         /\ PlacesIn(new[c], m) = {i}
         /\ c \notin un => \E j \in PlacesIn(new[c], Question(q)) : j < i
  BY <1>1, <1>9, <1>11
<1>14. t.at \in {"offered", "done"}
  BY <1>2
<1>13. \A c \in Chats : /\ PlacesIn(new[c], Answer(q)) # {} => t.at \in {"offered", "done"}
                        /\ PlacesIn(new[c], Result(q)) # {} => t.at = "done"
  <2>1. CASE msg = Result(q)
    BY <1>2, <1>14, <2>1, Messages
  <2>2. CASE msg = Answer(q)
    <3>1. r.at = "answered"
      BY <2>2, Messages
    <3>2. other = Result(q)
      BY <1>1, <2>2
    <3>3. \A c \in Chats : PlacesIn(new[c], Result(q)) = {}
      BY <1>10, <3>1, <3>2 DEF QuerySound
    <3> QED BY <1>14, <3>3
  <2> QED BY <2>1, <2>2
<1>15. t.at \in {"asked", "answered", "offered"} /\ t.chat \notin un =>
         PlacesIn(new[t.chat], Question(q)) # {}
  BY <1>1, <1>2, <1>4
<1> QED BY <1>1, <1>2, <1>6, <1>8, <1>12, <1>13, <1>14, <1>15 DEF QuerySound

LEMMA OpeningStays ==
  ASSUME NEW ms \in [Chats -> Seq(ChatMessage)], NEW s \in Chats, NEW msg \in ChatMessage,
         NEW c \in Chats, NEW q, NEW un, OpensWith(c, q, ms, un),
         NEW new, GainedOne(ms, new, s, msg)
  PROVE  OpensWith(c, q, new, un)
<1>1. CASE c = s
  BY <1>1 DEF GainedOne, OpensWith
<1>2. CASE c # s
  BY <1>2 DEF GainedOne, OpensWith
<1> QED BY <1>1, <1>2

\* A failed save of a question only excuses more.
LEMMA UnsavedGrows ==
  ASSUME NEW ms, NEW q, NEW r, NEW c, NEW un, NEW more, un \subseteq more
  PROVE  /\ QuerySound(q, r, ms, un) => QuerySound(q, r, ms, more)
         /\ OpensWith(c, q, ms, un) => OpensWith(c, q, ms, more)
BY DEF QuerySound, OpensWith

-----------------------------------------------------------------------------
(* What a step does.                                                       *)

TitlesSound ==
  /\ DOMAIN titles \subseteq Chats
  /\ titles \in [DOMAIN titles -> Queries \cup {Untitled}]
  /\ \A s \in DOMAIN titles : titles[s] # Untitled => OpensWith(s, titles[s], messages, unsaved)

\* A query whose job is to write a title.
TitleJobSound(q, r, ms, un) ==
  /\ r.at \in {"answered", "offered", "done"}
  /\ r.chat \in Chats
  /\ OpensWith(r.chat, q, ms, un)

LEMMA ChatParts ==
  ChatIndInv <=>
    /\ TitlesSound
    /\ messages \in [Chats -> Seq(ChatMessage)]
    /\ query \in [Queries -> Query]
    /\ titling \subseteq Queries
    /\ unsaved \subseteq disturbed /\ disturbed \subseteq Chats
    /\ \A q \in Queries : QuerySound(q, query[q], messages, unsaved)
    /\ \A q \in titling : TitleJobSound(q, query[q], messages, unsaved)
BY DEF ChatIndInv, ChatTypeOK, TitlesSound, TitleJobSound

\* One query moves and nothing is saved.
LEMMA QueryMoves ==
  ASSUME ChatIndInv, NEW q \in Queries, NEW r, query' = [query EXCEPT ![q] = r],
         messages' = messages, TitlesSound',
         unsaved \subseteq unsaved', unsaved' \subseteq disturbed', disturbed' \subseteq Chats,
         QuerySound(q, r, messages, unsaved'),
         titling' \subseteq titling \cup {q},
         q \in titling' => TitleJobSound(q, r, messages, unsaved')
  PROVE  ChatIndInv'
<1>1. r \in Query /\ query' \in [Queries -> Query]
  BY ChatParts DEF QuerySound
<1>2. \A p \in Queries : query'[p] = IF p = q THEN r ELSE query[p]
  BY ChatParts
<1>3. \A p \in Queries \ {q} : QuerySound(p, query[p], messages, unsaved')
  BY UnsavedGrows, ChatParts
<1>4. \A p \in titling : TitleJobSound(p, query[p], messages, unsaved')
  BY UnsavedGrows, ChatParts DEF TitleJobSound
<1>5. \A p \in Queries : QuerySound(p, query'[p], messages', unsaved')
  BY <1>2, <1>3
<1>6. titling' \subseteq Queries
  BY ChatParts
<1>7. \A p \in titling' : TitleJobSound(p, query'[p], messages', unsaved')
  BY <1>2, <1>4, <1>6
<1>8. messages' \in [Chats -> Seq(ChatMessage)]
  BY ChatParts
<1> QED BY <1>1, <1>5, <1>6, <1>7, <1>8 DEF ChatIndInv, ChatTypeOK, TitlesSound, TitleJobSound

LEMMA TitlesStay ==
  ASSUME ChatIndInv, titles' = titles, messages' = messages, unsaved \subseteq unsaved'
  PROVE  TitlesSound'
<1>1. TitlesSound
  BY ChatParts
<1>2. \A s \in DOMAIN titles : titles[s] # Untitled =>
        OpensWith(s, titles[s], messages, unsaved')
  BY <1>1, UnsavedGrows DEF TitlesSound
<1> QED BY <1>1, <1>2 DEF TitlesSound

\* A new session has no title of its own.
LEMMA TitlesGrow ==
  ASSUME ChatIndInv, NEW s \in Chats, s \notin DOMAIN titles, titles' = Put(titles, s, Untitled),
         messages' = messages, unsaved' = unsaved
  PROVE  TitlesSound'
<1>1. TitlesSound
  BY ChatParts
<1>2. /\ DOMAIN titles' = DOMAIN titles \cup {s}
      /\ \A c \in DOMAIN titles : titles'[c] = titles[c]
      /\ titles'[s] = Untitled
      /\ titles' = [c \in DOMAIN titles \cup {s} |-> IF c = s THEN Untitled ELSE titles[c]]
  BY DEF Put
<1>3. titles' \in [DOMAIN titles' -> Queries \cup {Untitled}]
  BY <1>1, <1>2 DEF TitlesSound
<1>4. \A c \in DOMAIN titles' : titles'[c] # Untitled => OpensWith(c, titles'[c], messages', unsaved')
  BY <1>1, <1>2 DEF TitlesSound
<1> QED BY <1>1, <1>2, <1>3, <1>4 DEF TitlesSound

\* A message of one query is saved, and the query moves.
LEMMA QuerySaves ==
  ASSUME ChatIndInv, NEW q \in Queries, NEW r, query' = [query EXCEPT ![q] = r],
         NEW s \in Chats, NEW msg \in {Question(q), Answer(q), Result(q)}, Save(s, msg),
         UNCHANGED <<titles, unsaved, disturbed, titling>>,
         \A new : GainedOne(messages, new, s, msg) => QuerySound(q, r, new, unsaved),
         q \in titling => r.at \in {"answered", "offered", "done"} /\ r.chat = query[q].chat
  PROVE  ChatIndInv'
<1>1. /\ messages \in [Chats -> Seq(ChatMessage)]
      /\ TitlesSound /\ titling \subseteq Queries
      /\ query \in [Queries -> Query]
  BY ChatParts
<1>2. msg \in ChatMessage
  BY Messages
<1>3. GainedOne(messages, messages', s, msg)
  <2>1. messages' = [messages EXCEPT ![s] = Append(@, msg)]
    BY DEF Save
  <2> QED BY <1>1, <1>2, <2>1, SavedSays
<1>4. messages' \in [Chats -> Seq(ChatMessage)]
  BY <1>3 DEF GainedOne
<1>5. \A p \in Queries : query'[p] = IF p = q THEN r ELSE query[p]
  BY <1>1
<1>6. QuerySound(q, r, messages', unsaved)
  BY <1>3
<1>7. ASSUME NEW p \in Queries \ {q} PROVE QuerySound(p, query'[p], messages', unsaved')
  <2>1. QuerySound(p, query[p], messages, unsaved)
    BY ChatParts
  <2>2. msg # Question(p) /\ msg # Answer(p) /\ msg # Result(p)
    BY Messages
  <2>3. QuerySound(p, query[p], messages', unsaved)
    BY <1>1, <1>2, <1>3, <2>1, <2>2, OtherSaved
  <2> QED BY <1>5, <2>3
<1>8. \A c \in Chats : \A p : OpensWith(c, p, messages, unsaved) => OpensWith(c, p, messages', unsaved')
  BY <1>1, <1>2, <1>3, OpeningStays
<1>9. TitlesSound'
  BY <1>1, <1>8 DEF TitlesSound
<1>10. \A p \in titling : TitleJobSound(p, query[p], messages, unsaved)
  BY ChatParts
<1>11. \A p \in titling' : TitleJobSound(p, query'[p], messages', unsaved')
  BY <1>1, <1>5, <1>8, <1>10 DEF TitleJobSound
<1>12. r \in Query /\ query' \in [Queries -> Query]
  BY <1>1, <1>6 DEF QuerySound
<1>13. \A p \in Queries : QuerySound(p, query'[p], messages', unsaved')
  BY <1>5, <1>6, <1>7
<1>14. titling' \subseteq Queries /\ unsaved' \subseteq disturbed' /\ disturbed' \subseteq Chats
  BY ChatParts
<1> QED BY <1>4, <1>9, <1>11, <1>12, <1>13, <1>14 DEF ChatIndInv, ChatTypeOK, TitlesSound, TitleJobSound

\* If the first messages of a session hold one question and the session misses
\* none, that question opens it: an answer and a result have a question of their
\* own before them, so among the first four messages are two questions.
LEMMA OneQuestion ==
  ASSUME ChatIndInv, NEW q \in Queries, NEW s \in Chats, query[q].chat = s, query[q].at = "asked",
         s \notin unsaved, QuestionCount(s) = 1
  PROVE  messages[s] # <<>> /\ messages[s][1] = Question(q)
<1> DEFINE m == messages[s]
           asked == {i \in DOMAIN m : i <= CountLimit /\ m[i].role = "user"}
<1>1. m \in Seq(ChatMessage) /\ Len(m) \in Nat /\ DOMAIN m = 1..Len(m)
      /\ \A i \in 1..Len(m) : m[i] \in ChatMessage
  BY ChatParts, LenProperties, ElementOfSeq
<1>2. Cardinality(asked) = 1
  BY DEF QuestionCount
<1>3. IsFiniteSet(asked)
  <2>1. IsFiniteSet(1..Len(m))
    BY <1>1, FS_Interval
  <2>2. asked \subseteq 1..Len(m)
    BY <1>1
  <2> QED BY <2>1, <2>2, FS_Subset
<1>4. PICK e : asked = {e}
  BY <1>2, <1>3, FS_Singleton
<1>5. PICK at \in 1..Len(m) : m[at] = Question(q)
  <2>1. QuerySound(q, query[q], messages, unsaved)
    BY ChatParts
  <2>2. PlacesIn(m, Question(q)) # {}
    BY <2>1 DEF QuerySound
  <2> QED BY <1>1, <2>2 DEF PlacesIn
<1> DEFINE replies(p) == {Answer(p), Result(p)}
<1>6. \A i \in 1..Len(m) : m[i].role = "user" \/ \E p \in Queries : m[i] \in replies(p)
  BY <1>1 DEF ChatMessage, Answer, Result
<1>7. \A p \in Queries, i \in 1..Len(m) : m[i] \in replies(p) =>
        /\ \A k \in 1..Len(m) : m[k] = m[i] => k = i
        /\ \E j \in 1..Len(m) : j < i /\ m[j] = Question(p)
  <2> SUFFICES ASSUME NEW p \in Queries, NEW i \in 1..Len(m), m[i] \in replies(p)
               PROVE  /\ \A k \in 1..Len(m) : m[k] = m[i] => k = i
                      /\ \E j \in 1..Len(m) : j < i /\ m[j] = Question(p)
    OBVIOUS
  <2>1. QuerySound(p, query[p], messages, unsaved)
    BY ChatParts
  <2>2. i \in PlacesIn(m, m[i])
    BY <1>1 DEF PlacesIn
  <2>3. PlacesIn(m, m[i]) = {i} /\ \E j \in PlacesIn(m, Question(p)) : j < i
    BY <2>1, <2>2 DEF QuerySound
  <2> QED BY <1>1, <2>3 DEF PlacesIn
<1>8. \A p \in Queries : /\ Question(p).role = "user"
                         /\ \A o \in Queries : Question(p) \notin replies(o)
  BY Messages DEF Question
<1>16. \A p, o \in Queries : Question(p) = Question(o) => p = o
  BY Messages
<1> HIDE DEF replies
<1> HIDE DEF m
<1>9. \A i \in 1..Len(m) : i <= 4 /\ m[i].role = "user" => i = e
  BY <1>1, <1>4, ChatConstants
<1>10. Len(m) >= 1 /\ 1 \in 1..Len(m)
  BY <1>1, <1>5
<1>11. m[1].role = "user" /\ e = 1
  BY <1>1, <1>6, <1>7, <1>9, <1>10
<1>12. \A i \in 1..Len(m) : i <= 4 /\ i # 1 =>
         \E p \in Queries : m[i] \in replies(p) /\ m[1] = Question(p)
  <2> SUFFICES ASSUME NEW i \in 1..Len(m), i <= 4, i # 1
               PROVE  \E p \in Queries : m[i] \in replies(p) /\ m[1] = Question(p)
    OBVIOUS
  <2>1. PICK p \in Queries : m[i] \in replies(p)
    BY <1>6, <1>9, <1>11
  <2>2. PICK j \in 1..Len(m) : j < i /\ m[j] = Question(p)
    BY <1>7, <2>1
  <2>3. j <= 4 /\ m[j].role = "user"
    BY <1>1, <1>8, <2>2
  <2>4. j = 1
    BY <1>9, <1>11, <2>3
  <2> QED BY <2>1, <2>2, <2>4
<1>13. Len(m) <= 3
  <2> SUFFICES ASSUME Len(m) >= 4 PROVE FALSE
    BY <1>1
  <2>1. {1, 2, 3, 4} \subseteq 1..Len(m)
    BY <1>1
  <2>2. PICK p \in Queries : m[2] \in replies(p) /\ m[1] = Question(p)
    BY <1>12, <2>1
  <2>3. m[3] \in replies(p) /\ m[4] \in replies(p)
    <3>1. \A i \in {3, 4} : \E o \in Queries : m[i] \in replies(o) /\ m[1] = Question(o)
      BY <1>12, <2>1
    <3> QED BY <1>16, <2>2, <3>1
  <2>4. m[2] # m[3] /\ m[2] # m[4] /\ m[3] # m[4]
    <3>1. \A i, k \in {2, 3, 4} : m[i] = m[k] => i = k
      BY <1>7, <2>1, <2>2, <2>3
    <3> QED BY <3>1
  <2> QED BY <2>2, <2>3, <2>4 DEF replies
<1>14. at = 1
  <2>1. at <= 4
    BY <1>1, <1>5, <1>13
  <2>2. at \in 1..Len(m) /\ at <= 4 /\ m[at].role = "user"
    BY <1>5, <1>8, <2>1
  <2> QED BY <1>9, <1>11, <2>2
<1>15. m # <<>>
  BY <1>1, <1>10, EmptySeq
<1> QED BY <1>5, <1>14, <1>15 DEF m

-----------------------------------------------------------------------------
(* Every step keeps the invariant.                                         *)

\* A query that has not saved its question has no message anywhere.
NoMessageOf(q) ==
  \A s \in Chats : /\ PlacesIn(messages[s], Question(q)) = {}
                   /\ PlacesIn(messages[s], Answer(q)) = {}
                   /\ PlacesIn(messages[s], Result(q)) = {}

LEMMA IdleHasNoMessage ==
  ASSUME ChatIndInv, NEW q \in Queries, query[q].at \in {"idle", "open", "ready"}
  PROVE  NoMessageOf(q)
<1>1. QuerySound(q, query[q], messages, unsaved)
  BY ChatParts
<1> QED BY <1>1 DEF QuerySound, NoMessageOf

\* A job was started for a query that has its answer.
LEMMA EarlyHasNoJob ==
  ASSUME ChatIndInv, NEW q \in Queries, query[q].at \notin {"answered", "offered", "done"}
  PROVE  q \notin titling
BY ChatParts DEF TitleJobSound

LEMMA OpensKeeps ==
  ASSUME ChatIndInv, NEW q \in Queries, NEW s \in Chats, query[q].at = "idle", Opens(q, s),
         TitlesSound', UNCHANGED <<messages, titling, unsaved>>
  PROVE  ChatIndInv'
<1> DEFINE r == [query[q] EXCEPT !.at = "open", !.chat = s]
<1>1. query' = [query EXCEPT ![q] = r]
  BY DEF Opens
<1>2. QuerySound(q, query[q], messages, unsaved) /\ query[q] \in Query
  BY ChatParts
<1>3. r \in Query /\ r.at = "open" /\ r.chat = s /\ r.history = query[q].history
  BY <1>2 DEF Query
<1>4. NoMessageOf(q)
  BY IdleHasNoMessage
<1>5. q \notin titling
  BY EarlyHasNoJob
<1>6. unsaved \subseteq disturbed' /\ disturbed' \subseteq Chats
  BY ChatParts DEF Opens
<1>7. query[q].history = <<>>
  BY <1>2 DEF QuerySound
<1> HIDE DEF r
<1>8. QuerySound(q, r, messages, unsaved)
  BY <1>3, <1>4, <1>7 DEF QuerySound, NoMessageOf
<1> QED BY <1>1, <1>5, <1>6, <1>8, QueryMoves

LEMMA AskInKeeps ==
  ASSUME ChatIndInv, NEW q \in Queries, NEW s \in Chats, AskIn(q, s)
  PROVE  ChatIndInv'
<1>1. TitlesSound'
  BY TitlesStay DEF AskIn
<1> QED BY <1>1, OpensKeeps DEF AskIn

LEMMA AskNewKeeps ==
  ASSUME ChatIndInv, NEW q \in Queries, NEW s \in Chats, AskNew(q, s)
  PROVE  ChatIndInv'
<1>1. TitlesSound'
  BY TitlesGrow DEF AskNew
<1> QED BY <1>1, OpensKeeps DEF AskNew

LEMMA AskRefusedKeeps ==
  ASSUME ChatIndInv, NEW q \in Queries, AskRefused(q)
  PROVE  ChatIndInv'
<1> DEFINE r == [query[q] EXCEPT !.at = "done"]
<1>1. query' = [query EXCEPT ![q] = r] /\ query[q].at = "idle"
  BY DEF AskRefused
<1>2. QuerySound(q, query[q], messages, unsaved) /\ query[q] \in Query
  BY ChatParts
<1>3. r \in Query /\ r.at = "done" /\ r.chat = query[q].chat /\ r.history = query[q].history
  BY <1>2 DEF Query
<1>4. NoMessageOf(q)
  BY <1>1, IdleHasNoMessage
<1>5. q \notin titling
  BY <1>1, EarlyHasNoJob
<1>6. query[q].history = <<>>
  BY <1>1, <1>2 DEF QuerySound
<1> HIDE DEF r
<1>7. QuerySound(q, r, messages, unsaved)
  BY <1>3, <1>4, <1>6 DEF QuerySound, NoMessageOf
<1>8. UNCHANGED <<titles, messages, titling, unsaved, disturbed>>
  BY DEF AskRefused
<1>9. TitlesSound' /\ unsaved' \subseteq disturbed' /\ disturbed' \subseteq Chats
  BY <1>8, TitlesStay, ChatParts
<1> QED BY <1>1, <1>5, <1>7, <1>8, <1>9, QueryMoves

\* The recent messages are the last ones, in the order in which they were saved.
LEMMA RecentAreLast ==
  ASSUME NEW s \in Chats, messages[s] \in Seq(ChatMessage)
  PROVE  /\ RecentMessages(s) \in Seq(ChatMessage)
         /\ \E i \in 0..Len(messages[s]) :
              /\ i + Len(RecentMessages(s)) = Len(messages[s])
              /\ \A k \in DOMAIN RecentMessages(s) : RecentMessages(s)[k] = messages[s][i + k]
<1> DEFINE m == messages[s]
           n == IF Len(m) > HistoryLimit THEN HistoryLimit ELSE Len(m)
           back == Reverse(m)
           cut == SubSeq(back, 1, n)
           recent == Reverse(cut)
<1>1. m \in Seq(ChatMessage) /\ Len(m) \in Nat /\ DOMAIN m = 1..Len(m)
      /\ \A i \in 1..Len(m) : m[i] \in ChatMessage
  BY LenProperties, ElementOfSeq
<1>2. n \in 0..Len(m)
  BY <1>1, ChatConstants
<1> HIDE DEF n
<1>3. back = [i \in 1..Len(m) |-> m[(Len(m) - i) + 1]]
  BY DEF Reverse
<1>4. \A i \in 1..Len(m) : (Len(m) - i) + 1 \in 1..Len(m)
  BY <1>1
<1>5. /\ back \in Seq(ChatMessage) /\ Len(back) = Len(m)
      /\ \A i \in 1..Len(m) : back[i] = m[(Len(m) - i) + 1]
  <2> HIDE DEF m, back
  <2>1. back \in [1..Len(m) -> ChatMessage]
    BY <1>1, <1>3, <1>4
  <2>2. back \in Seq(ChatMessage)
    BY <1>1, <2>1
  <2>3. Len(back) \in Nat /\ DOMAIN back = 1..Len(back)
    BY <2>2, LenProperties
  <2>4. Len(back) = Len(m)
    BY <1>1, <2>1, <2>3
  <2> QED BY <1>3, <2>2, <2>4
<1> HIDE DEF back
<1>6. /\ cut \in Seq(ChatMessage) /\ Len(cut) = n
      /\ \A i \in 1..n : cut[i] = back[i]
  <2> HIDE DEF m
  <2>1. \A i \in 1..n : back[i] \in ChatMessage
    BY <1>1, <1>2, <1>5, ElementOfSeq
  <2>2. cut = [i \in 1..n |-> back[i]]
    BY <1>1, <1>2, <1>5, SubSeqProperties
  <2>3. n \in Nat
    BY <1>1, <1>2
  <2> HIDE DEF cut
  <2>4. cut \in [1..n -> ChatMessage]
    BY <2>1, <2>2
  <2>5. cut \in Seq(ChatMessage)
    BY <2>3, <2>4
  <2>6. Len(cut) \in Nat /\ DOMAIN cut = 1..Len(cut)
    BY <2>5, LenProperties
  <2>7. Len(cut) = n
    BY <2>3, <2>4, <2>6
  <2> QED BY <2>2, <2>5, <2>7
<1>7. recent = [i \in 1..n |-> cut[(n - i) + 1]]
  BY <1>6 DEF Reverse
<1> HIDE DEF cut, m
<1>8. \A i \in 1..n : /\ (n - i) + 1 \in 1..n
                      /\ (n - i) + 1 \in 1..Len(m)
                      /\ (Len(m) - ((n - i) + 1)) + 1 = (Len(m) - n) + i
  BY <1>1, <1>2
<1>9. \A i \in 1..n : recent[i] = m[(Len(m) - n) + i]
  <2> SUFFICES ASSUME NEW i \in 1..n PROVE recent[i] = m[(Len(m) - n) + i]
    OBVIOUS
  <2>1. recent[i] = cut[(n - i) + 1]
    BY <1>7
  <2>2. cut[(n - i) + 1] = back[(n - i) + 1]
    BY <1>6, <1>8
  <2>3. back[(n - i) + 1] = m[(Len(m) - ((n - i) + 1)) + 1]
    BY <1>5, <1>8
  <2>4. m[(Len(m) - ((n - i) + 1)) + 1] = m[(Len(m) - n) + i]
    BY <1>8
  <2> QED BY <2>1, <2>2, <2>3, <2>4
<1>10. \A i \in 1..n : recent[i] \in ChatMessage
  BY <1>6, <1>7, <1>8, ElementOfSeq
<1>11. recent \in Seq(ChatMessage) /\ Len(recent) = n /\ DOMAIN recent = 1..n
  <2>3. n \in Nat
    BY <1>1, <1>2
  <2>4. recent \in [1..n -> ChatMessage]
    BY <1>7, <1>10
  <2> HIDE DEF recent
  <2>5. recent \in Seq(ChatMessage)
    BY <2>3, <2>4
  <2>6. Len(recent) \in Nat /\ DOMAIN recent = 1..Len(recent)
    BY <2>5, LenProperties
  <2> QED BY <2>3, <2>4, <2>5, <2>6
<1>12. recent = RecentMessages(s)
  BY DEF RecentMessages, m, n, back, cut
<1>13. (Len(m) - n) \in 0..Len(m) /\ (Len(m) - n) + n = Len(m)
  BY <1>1, <1>2
<1> HIDE DEF recent
<1>14. \E i \in 0..Len(m) : /\ i + Len(recent) = Len(m)
                            /\ \A k \in DOMAIN recent : recent[k] = m[i + k]
  BY <1>9, <1>11, <1>13
<1> QED BY <1>11, <1>12, <1>14 DEF m

LEMMA ReadHistoryKeeps ==
  ASSUME ChatIndInv, NEW q \in Queries, ReadHistory(q)
  PROVE  ChatIndInv'
<1>1. PICK h \in {RecentMessages(query[q].chat), <<>>} :
        query' = [query EXCEPT ![q] = [query[q] EXCEPT !.at = "ready", !.history = h]]
  BY DEF ReadHistory
<1> DEFINE s == query[q].chat
           r == [query[q] EXCEPT !.at = "ready", !.history = h]
<1>2. /\ QuerySound(q, query[q], messages, unsaved) /\ query[q] \in Query
      /\ messages \in [Chats -> Seq(ChatMessage)] /\ query[q].at = "open"
  BY ChatParts DEF ReadHistory
<1>3. s \in Chats
  BY <1>2 DEF QuerySound
<1>4. h \in Seq(ChatMessage)
  <2>1. messages[s] \in Seq(ChatMessage)
    BY <1>2, <1>3
  <2> HIDE DEF s
  <2>2. RecentMessages(s) \in Seq(ChatMessage)
    BY <1>3, <2>1, RecentAreLast
  <2>3. <<>> \in Seq(ChatMessage)
    BY EmptySeq
  <2> QED BY <1>1, <2>2, <2>3 DEF s
<1>5. r \in Query /\ r.at = "ready" /\ r.chat = s /\ r.history = h
  BY <1>2, <1>4 DEF Query
<1>6. NoMessageOf(q)
  BY <1>2, IdleHasNoMessage
<1>7. q \notin titling
  BY <1>2, EarlyHasNoJob
<1>8. UNCHANGED <<titles, messages, titling, unsaved, disturbed>>
  BY DEF ReadHistory
<1>9. TitlesSound' /\ unsaved' \subseteq disturbed' /\ disturbed' \subseteq Chats
  BY <1>8, TitlesStay, ChatParts
<1> HIDE DEF r, s
<1>10. ASSUME h # <<>> PROVE HistorySound(q, r, messages)
  <2>1. h = RecentMessages(s)
    BY <1>1, <1>10 DEF s
  <2>2. PICK i \in 0..Len(messages[s]) :
          /\ i + Len(h) = Len(messages[s])
          /\ \A k \in DOMAIN h : h[k] = messages[s][i + k]
    BY <1>2, <1>3, <2>1, RecentAreLast
  <2>3. PlacesIn(messages[s], Question(q)) = {}
    BY <1>3, <1>6 DEF NoMessageOf
  <2>4. i + Len(h) <= Len(messages[s])
    BY <1>2, <1>3, <2>2, LenProperties
  <2> QED BY <1>5, <2>2, <2>3, <2>4 DEF HistorySound
<1>11. QuerySound(q, r, messages, unsaved)
  BY <1>3, <1>5, <1>6, <1>10 DEF QuerySound, NoMessageOf
<1>12. query' = [query EXCEPT ![q] = r]
  BY <1>1 DEF r
<1> QED BY <1>7, <1>8, <1>9, <1>11, <1>12, QueryMoves

LEMMA SaveQuestionKeeps ==
  ASSUME ChatIndInv, NEW q \in Queries, SaveQuestion(q)
  PROVE  ChatIndInv'
<1> DEFINE s == query[q].chat
           r == [query[q] EXCEPT !.at = "asked"]
<1>1. /\ query' = [query EXCEPT ![q] = r] /\ query[q].at = "ready"
      /\ UNCHANGED <<titles, titling>>
  BY DEF SaveQuestion
<1>2. /\ QuerySound(q, query[q], messages, unsaved) /\ query[q] \in Query
      /\ messages \in [Chats -> Seq(ChatMessage)]
  BY ChatParts
<1>3. s \in Chats
  BY <1>1, <1>2 DEF QuerySound
<1>4. r \in Query /\ r.at = "asked" /\ r.chat = s /\ r.history = query[q].history
  BY <1>2 DEF Query
<1>5. NoMessageOf(q)
  BY <1>1, IdleHasNoMessage
<1>6. q \notin titling
  BY <1>1, EarlyHasNoJob
<1>7. CASE Save(s, Question(q)) /\ UNCHANGED <<unsaved, disturbed>>
  <2>1. \A new : GainedOne(messages, new, s, Question(q)) => QuerySound(q, r, new, unsaved)
    BY <1>1, <1>2, QuestionSaved
  <2> HIDE DEF s, r
  <2> QED BY <1>1, <1>3, <1>6, <1>7, <2>1, QuerySaves
<1>8. CASE unsaved' = unsaved \cup {s} /\ disturbed' = disturbed \cup {s} /\ UNCHANGED messages
  <2> HIDE DEF s, r
  <2>1. unsaved \subseteq unsaved' /\ unsaved' \subseteq disturbed' /\ disturbed' \subseteq Chats
    BY <1>3, <1>8, ChatParts
  <2>2. TitlesSound'
    BY <1>1, <1>8, <2>1, TitlesStay
  <2>3. HistorySound(q, query[q], messages) => HistorySound(q, r, messages)
    BY <1>4 DEF HistorySound, s
  <2>4. QuerySound(q, r, messages, unsaved')
    BY <1>2, <1>3, <1>4, <1>5, <1>8, <2>3 DEF QuerySound, NoMessageOf
  <2> QED BY <1>1, <1>6, <1>8, <2>1, <2>2, <2>4, QueryMoves
<1> QED BY <1>7, <1>8 DEF SaveQuestion

LEMMA ReplyKeeps ==
  ASSUME ChatIndInv, NEW q \in Queries, Reply(q)
  PROVE  ChatIndInv'
<1> DEFINE s == query[q].chat
           r == [query[q] EXCEPT !.at = "answered", !.history = <<>>]
<1>1. /\ query' = [query EXCEPT ![q] = r] /\ query[q].at = "asked"
      /\ UNCHANGED <<titles, messages, unsaved>>
  BY DEF Reply
<1>2. PICK count \in {QuestionCount(s), 0} :
        /\ titling' = IF Titled(count) THEN titling \cup {q} ELSE titling
        /\ disturbed' = IF count = 0 THEN disturbed \cup {s} ELSE disturbed
  BY DEF Reply
<1>3. /\ QuerySound(q, query[q], messages, unsaved) /\ query[q] \in Query
      /\ messages \in [Chats -> Seq(ChatMessage)]
  BY ChatParts
<1>4. s \in Chats
  BY <1>1, <1>3 DEF QuerySound
<1>5. r \in Query /\ r.at = "answered" /\ r.chat = s /\ r.history = <<>>
  <2>1. <<>> \in Seq(ChatMessage)
    BY EmptySeq
  <2> QED BY <1>3, <2>1 DEF Query
<1>6. q \notin titling
  BY <1>1, EarlyHasNoJob
<1>7. TitlesSound'
  BY <1>1, TitlesStay
<1>8. unsaved' \subseteq disturbed' /\ disturbed' \subseteq Chats /\ unsaved \subseteq unsaved'
  BY <1>1, <1>2, <1>4, ChatParts
<1>9. titling' \subseteq titling \cup {q}
  BY <1>2
<1>10. q \in titling' => OpensWith(s, q, messages, unsaved)
  <2>1. q \in titling' => QuestionCount(s) = 1
    BY <1>2, <1>6 DEF Titled
  <2>2. ASSUME QuestionCount(s) = 1, s \notin unsaved
        PROVE  messages[s] # <<>> /\ messages[s][1] = Question(q)
    <3> HIDE DEF r
    <3>1. query[q].chat = s
      OBVIOUS
    <3> HIDE DEF s
    <3> QED BY <1>1, <1>4, <2>2, <3>1, OneQuestion
  <2> QED BY <2>1, <2>2 DEF OpensWith
<1> HIDE DEF r
<1>11. QuerySound(q, r, messages, unsaved)
  <2>1. query[q].chat = s
    OBVIOUS
  <2> HIDE DEF s
  <2> QED BY <1>1, <1>3, <1>4, <1>5, <2>1 DEF QuerySound
<1>12. q \in titling' => TitleJobSound(q, r, messages, unsaved')
  BY <1>1, <1>4, <1>5, <1>10 DEF TitleJobSound
<1>13. QuerySound(q, r, messages, unsaved')
  BY <1>1, <1>11
<1>14. query' = [query EXCEPT ![q] = r] /\ messages' = messages
  BY <1>1
<1> HIDE DEF s
<1> QED BY <1>7, <1>8, <1>9, <1>12, <1>13, <1>14, QueryMoves

\* An answer, or an error, of a turn: only the request moves.
LEMMA ReplyToTurnKeeps ==
  ASSUME ChatIndInv, NEW q \in Queries, ReplyToTurn(q)
  PROVE  ChatIndInv'
<1>1. PICK at \in {"answered", "done"} :
        query' = [query EXCEPT ![q] = [query[q] EXCEPT !.at = at, !.history = <<>>]]
  BY DEF ReplyToTurn
<1> DEFINE s == query[q].chat
           r == [query[q] EXCEPT !.at = at, !.history = <<>>]
<1>2. /\ query[q].at = "asked"
      /\ UNCHANGED <<titles, messages, titling, unsaved, disturbed>>
  BY DEF ReplyToTurn
<1>3. QuerySound(q, query[q], messages, unsaved) /\ query[q] \in Query
  BY ChatParts
<1>4. s \in Chats
  BY <1>2, <1>3 DEF QuerySound
<1>5. r \in Query /\ r.at = at /\ r.chat = s /\ r.history = <<>>
  <2>1. <<>> \in Seq(ChatMessage)
    BY EmptySeq
  <2> QED BY <1>3, <2>1 DEF Query
<1>6. q \notin titling
  BY <1>2, EarlyHasNoJob
<1>7. TitlesSound' /\ unsaved' \subseteq disturbed' /\ disturbed' \subseteq Chats
  BY <1>2, TitlesStay, ChatParts
<1>8. query[q].chat = s /\ query' = [query EXCEPT ![q] = r]
  BY <1>1
<1> HIDE DEF s, r
<1>9. QuerySound(q, r, messages, unsaved)
  BY <1>2, <1>3, <1>4, <1>5, <1>8 DEF QuerySound
<1> QED BY <1>2, <1>6, <1>7, <1>8, <1>9, QueryMoves

LEMMA TurnPanicsKeeps ==
  ASSUME ChatIndInv, NEW q \in Queries, TurnPanics(q)
  PROVE  ChatIndInv'
<1> DEFINE s == query[q].chat
           r == [query[q] EXCEPT !.at = "done", !.history = <<>>]
<1>1. /\ query' = [query EXCEPT ![q] = r] /\ query[q].at = "asked"
      /\ UNCHANGED <<titles, messages, titling, unsaved>>
      /\ disturbed' = disturbed \cup {s}
  BY DEF TurnPanics
<1>2. QuerySound(q, query[q], messages, unsaved) /\ query[q] \in Query
  BY ChatParts
<1>3. s \in Chats
  BY <1>1, <1>2 DEF QuerySound
<1>4. r \in Query /\ r.at = "done" /\ r.chat = s /\ r.history = <<>>
  <2>1. <<>> \in Seq(ChatMessage)
    BY EmptySeq
  <2> QED BY <1>2, <2>1 DEF Query
<1>5. q \notin titling
  BY <1>1, EarlyHasNoJob
<1>6. TitlesSound' /\ unsaved' \subseteq disturbed' /\ disturbed' \subseteq Chats
  BY <1>1, <1>3, TitlesStay, ChatParts
<1>7. query[q].chat = s
  OBVIOUS
<1>8. query' = [query EXCEPT ![q] = r]
  BY <1>1
<1> HIDE DEF s, r
<1>9. QuerySound(q, r, messages, unsaved)
  BY <1>1, <1>2, <1>3, <1>4, <1>7 DEF QuerySound
<1> QED BY <1>1, <1>5, <1>6, <1>8, <1>9, QueryMoves

\* What a request says last is saved, or is not.
LEMMA LastSaveKeeps ==
  ASSUME ChatIndInv, NEW q \in Queries, NEW at, NEW msg,
         \/ msg = Answer(q) /\ query[q].at = "answered" /\ at \in {"offered", "done"}
         \/ msg = Result(q) /\ query[q].at = "offered" /\ at = "done",
         query' = [query EXCEPT ![q].at = at],
         Save(query[q].chat, msg) \/ UNCHANGED messages,
         UNCHANGED <<titles, titling, unsaved, disturbed>>
  PROVE  ChatIndInv'
<1> DEFINE s == query[q].chat
           r == [query[q] EXCEPT !.at = at]
<1>1. /\ query' = [query EXCEPT ![q] = r] /\ query[q].at \in {"answered", "offered"}
      /\ at \in {"offered", "done"}
      /\ Save(s, msg) \/ UNCHANGED messages
  OBVIOUS
<1>2. /\ QuerySound(q, query[q], messages, unsaved) /\ query[q] \in Query
      /\ messages \in [Chats -> Seq(ChatMessage)]
  BY ChatParts
<1>3. s \in Chats
  BY <1>1, <1>2 DEF QuerySound
<1>4. r \in Query /\ r.at = at /\ r.chat = s /\ r.history = query[q].history
  BY <1>1, <1>2 DEF Query
<1>5. CASE Save(s, msg)
  <2>1. \A new : GainedOne(messages, new, s, msg) => QuerySound(q, r, new, unsaved)
    BY <1>2, ReplySaved
  <2>2. q \in titling => r.at \in {"answered", "offered", "done"} /\ r.chat = query[q].chat
    BY <1>1, <1>4
  <2>3. query' = [query EXCEPT ![q] = r] /\ msg \in {Question(q), Answer(q), Result(q)}
    BY <1>1
  <2> HIDE DEF s, r
  <2> QED BY <1>1, <1>3, <1>5, <2>1, <2>2, <2>3, QuerySaves
<1>6. CASE UNCHANGED messages
  <2>1. TitlesSound' /\ unsaved' \subseteq disturbed' /\ disturbed' \subseteq Chats
    BY <1>1, <1>6, TitlesStay, ChatParts
  <2>2. query[q].chat = s /\ query' = [query EXCEPT ![q] = r]
    BY <1>1
  <2> HIDE DEF s, r
  <2>3. HistorySound(q, query[q], messages) => HistorySound(q, r, messages)
    BY <1>4, <2>2 DEF HistorySound
  <2>4. QuerySound(q, r, messages, unsaved)
    BY <1>1, <1>2, <1>3, <1>4, <2>2, <2>3 DEF QuerySound
  <2>5. q \in titling => TitleJobSound(q, r, messages, unsaved)
    BY <1>1, <1>4, <2>2, ChatParts DEF TitleJobSound
  <2> QED BY <1>1, <1>6, <2>1, <2>2, <2>4, <2>5, QueryMoves
<1> QED BY <1>1, <1>5, <1>6

LEMMA SaveAnswerKeeps ==
  ASSUME ChatIndInv, NEW q \in Queries, SaveAnswer(q)
  PROVE  ChatIndInv'
<1>1. PICK at \in {"offered", "done"} : query' = [query EXCEPT ![q].at = at]
  BY DEF SaveAnswer
<1>2. /\ query[q].at = "answered"
      /\ Save(query[q].chat, Answer(q)) \/ UNCHANGED messages
      /\ UNCHANGED <<titles, titling, unsaved, disturbed>>
  BY DEF SaveAnswer
<1> QED BY <1>1, <1>2, LastSaveKeeps

LEMMA SaveResultKeeps ==
  ASSUME ChatIndInv, NEW q \in Queries, SaveResult(q)
  PROVE  ChatIndInv'
BY LastSaveKeeps DEF SaveResult

LEMMA SetTitleKeeps ==
  ASSUME ChatIndInv, NEW q \in Queries, SetTitle(q)
  PROVE  ChatIndInv'
<1> DEFINE s == query[q].chat
<1>1. /\ q \in titling /\ titling' = titling \ {q}
      /\ UNCHANGED <<messages, query, unsaved>>
  BY DEF SetTitle
<1>2. s \in Chats /\ OpensWith(s, q, messages, unsaved)
  BY <1>1, ChatParts DEF TitleJobSound
<1>3. \/ titles' = titles
      \/ s \in DOMAIN titles /\ titles' = Put(titles, s, q)
  BY DEF SetTitle
<1>4. disturbed \subseteq disturbed' /\ disturbed' \subseteq Chats
  BY <1>2, ChatParts DEF SetTitle
<1> HIDE DEF s
<1>5. CASE titles' = titles
  <2>1. TitlesSound'
    BY <1>1, <1>5, TitlesStay
  <2> QED BY <1>1, <1>4, <2>1 DEF ChatIndInv, ChatTypeOK, TitlesSound
<1>6. CASE s \in DOMAIN titles /\ titles' = Put(titles, s, q)
  <2>1. TitlesSound
    BY ChatParts
  <2>2. /\ DOMAIN titles' = DOMAIN titles
        /\ titles' = [c \in DOMAIN titles |-> IF c = s THEN q ELSE titles[c]]
    BY <1>6 DEF Put
  <2>3. titles' \in [DOMAIN titles' -> Queries \cup {Untitled}]
    BY <2>1, <2>2 DEF TitlesSound
  <2>4. \A c \in DOMAIN titles' : titles'[c] # Untitled => OpensWith(c, titles'[c], messages', unsaved')
    BY <1>1, <1>2, <2>1, <2>2 DEF TitlesSound
  <2>5. TitlesSound'
    BY <2>1, <2>2, <2>3, <2>4 DEF TitlesSound
  <2> QED BY <1>1, <1>4, <2>5 DEF ChatIndInv, ChatTypeOK, TitlesSound
<1> QED BY <1>3, <1>5, <1>6

LEMMA NewChatKeeps ==
  ASSUME ChatIndInv, NEW s \in Chats, NewChat(s)
  PROVE  ChatIndInv'
<1>1. TitlesSound'
  BY TitlesGrow DEF NewChat
<1> QED BY <1>1 DEF NewChat, ChatIndInv, ChatTypeOK, TitlesSound

\* A restart ends the queries where they are.
LEMMA ChatRestartKeeps ==
  ASSUME ChatIndInv, ChatRestart
  PROVE  ChatIndInv'
<1> DEFINE Ends(q) == Busy(q) \/ query[q].at = "offered"
<1>1. /\ query' = [q \in Queries |-> IF Ends(q) THEN [query[q] EXCEPT !.at = "done"] ELSE query[q]]
      /\ titling' = {}
      /\ disturbed' = disturbed \cup {query[q].chat : q \in {p \in Queries : Busy(p) \/ p \in titling}}
      /\ UNCHANGED <<titles, messages, unsaved>>
  BY DEF ChatRestart
<1>2. ASSUME NEW q \in Queries PROVE QuerySound(q, query'[q], messages', unsaved')
  <2>1. QuerySound(q, query[q], messages, unsaved) /\ query[q] \in Query
    BY ChatParts
  <2>2. CASE ~Ends(q)
    BY <1>1, <2>1, <2>2
  <2>3. CASE Ends(q)
    <3> DEFINE r == [query[q] EXCEPT !.at = "done"]
    <3>1. query'[q] = r
      BY <1>1, <2>3
    <3>2. r \in Query /\ r.at = "done" /\ r.chat = query[q].chat /\ r.history = query[q].history
      BY <2>1 DEF Query
    <3>3. /\ query[q].at \in {"open", "ready", "asked", "answered", "offered"}
          /\ query[q].chat \in Chats
      BY <2>1, <2>3 DEF Busy, QuerySound
    <3> HIDE DEF r
    <3>4. HistorySound(q, query[q], messages) => HistorySound(q, r, messages)
      BY <3>2 DEF HistorySound
    <3>5. QuerySound(q, r, messages, unsaved)
      BY <2>1, <3>2, <3>3, <3>4 DEF QuerySound
    <3> QED BY <1>1, <3>1, <3>5
  <2> QED BY <2>2, <2>3
<1>3. \A q \in Queries : Busy(q) \/ q \in titling => query[q].chat \in Chats
  BY ChatParts DEF Busy, QuerySound, TitleJobSound
<1>4. unsaved' \subseteq disturbed' /\ disturbed' \subseteq Chats /\ messages' \in [Chats -> Seq(ChatMessage)]
  BY <1>1, <1>3, ChatParts
<1>5. TitlesSound'
  BY <1>1, TitlesStay
<1>6. query' \in [Queries -> Query] /\ titling' \subseteq Queries
  <2>1. \A q \in Queries : query'[q] \in Query
    BY <1>2 DEF QuerySound
  <2>2. query' = [q \in Queries |-> query'[q]]
    BY <1>1
  <2> QED BY <1>1, <2>1, <2>2
<1> QED BY <1>1, <1>2, <1>4, <1>5, <1>6 DEF ChatIndInv, ChatTypeOK, TitlesSound

LEMMA ChatNextKeeps ==
  ASSUME ChatIndInv, [ChatNext]_chatVars
  PROVE  ChatIndInv'
<1>1. CASE UNCHANGED chatVars
  BY <1>1 DEF chatVars, ChatIndInv, ChatTypeOK
<1>2. CASE ChatNext
  <2>1. ASSUME NEW q \in Queries, NEW s \in Chats, AskIn(q, s) \/ AskNew(q, s) PROVE ChatIndInv'
    BY <2>1, AskInKeeps, AskNewKeeps
  <2>2. ASSUME NEW q \in Queries, AskRefused(q) PROVE ChatIndInv'
    BY <2>2, AskRefusedKeeps
  <2>3. ASSUME NEW q \in Queries, QueryStep(q) PROVE ChatIndInv'
    BY <2>3, ReadHistoryKeeps, SaveQuestionKeeps, ReplyKeeps, ReplyToTurnKeeps, TurnPanicsKeeps,
       SaveAnswerKeeps, SetTitleKeeps DEF QueryStep
  <2>6. ASSUME NEW q \in Queries, SaveResult(q) PROVE ChatIndInv'
    BY <2>6, SaveResultKeeps
  <2>4. ASSUME NEW s \in Chats, NewChat(s) PROVE ChatIndInv'
    BY <2>4, NewChatKeeps
  <2>5. ASSUME ChatRestart PROVE ChatIndInv'
    BY <2>5, ChatRestartKeeps
  <2> QED BY <1>2, <2>1, <2>2, <2>3, <2>4, <2>5, <2>6 DEF ChatNext
<1> QED BY <1>1, <1>2

LEMMA ChatInitSound == ChatInit => ChatIndInv
<1> SUFFICES ASSUME ChatInit PROVE ChatIndInv
  OBVIOUS
<1>1. /\ messages = [s \in Chats |-> <<>>]
      /\ query = [q \in Queries |-> [at |-> "idle", chat |-> NoChat, history |-> <<>>]]
      /\ titling = {} /\ unsaved = {} /\ disturbed = {}
      /\ DOMAIN titles = {} /\ titles = [s \in {} |-> Untitled]
  BY DEF ChatInit
<1>2. <<>> \in Seq(ChatMessage) /\ Len(<<>>) = 0
  BY EmptySeq
<1>3. \A q \in Queries : query[q] \in Query /\ query[q].at = "idle" /\ query[q].history = <<>>
  BY <1>1, <1>2 DEF Query
<1>4. \A s \in Chats : \A m : PlacesIn(messages[s], m) = {}
  BY <1>1, <1>2 DEF PlacesIn
<1>5. messages \in [Chats -> Seq(ChatMessage)] /\ query \in [Queries -> Query]
  BY <1>1, <1>2, <1>3
<1>6. titles \in [DOMAIN titles -> Queries \cup {Untitled}] /\ DOMAIN titles \subseteq Chats
  BY <1>1
<1>7. \A q \in Queries : QuerySound(q, query[q], messages, unsaved)
  BY <1>3, <1>4 DEF QuerySound
<1> QED BY <1>1, <1>5, <1>6, <1>7 DEF ChatIndInv, ChatTypeOK

\* However the requests of a session meet, fail or end, the history that an
\* answer is written from ends before its question, an answer and the result of
\* an action are stored once and behind their question, and a title is the first
\* question (ChatQuery, Turn, Confirm).
THEOREM ChatKeeps == ChatSpec => []ChatInv
<1>1. ChatInit => ChatIndInv
  BY ChatInitSound
<1>2. ChatIndInv /\ [ChatNext]_chatVars => ChatIndInv'
  BY ChatNextKeeps
<1>3. ChatIndInv => ChatInv
  BY ChatIndInvImplies
<1> QED BY <1>1, <1>2, <1>3, PTL DEF ChatSpec

-----------------------------------------------------------------------------
(* ToolCalls: the breaker counts the calls of its own generation, and      *)
(* opens for a failure of one of them.                                     *)

ToolCall == [at : {"idle", "refused", "trying", "passed", "failed", "panicked"},
             attempts : 0..MaxRetry + 1, generation : Nat]

Entered == {"trying", "passed"} \cup Failures

\* The calls k that were admitted in generation g; and those that ended.
InGeneration(k, g) == {c \in ToolCallers : k[c].at \in Entered /\ k[c].generation = g}

EndedIn(k, g, ends) == {c \in ToolCallers : k[c].at \in ends /\ k[c].generation = g}

\* The calls k are typed, finitely many of them have begun, and each has made
\* the attempts that bring it where it is.
CallsSound(k) ==
  /\ k \in [ToolCallers -> ToolCall]
  /\ IsFiniteSet({c \in ToolCallers : k[c].at \in Entered})
  /\ \A c \in ToolCallers :
       /\ k[c].at \in {"idle", "refused"} => k[c].attempts = 0
       /\ k[c].at = "trying" => k[c].attempts <= MaxRetry
       /\ k[c].at = "failed" => k[c].attempts = MaxRetry + 1

\* The counts of b are those of the calls k of its generation, and there is no
\* later one.
BreakerSound(b, k) ==
  /\ b \in Breaker
  /\ \A c \in ToolCallers : k[c].generation <= b.generation
  /\ b.requests = Cardinality(InGeneration(k, b.generation))
  /\ b.failed <= Cardinality(EndedIn(k, b.generation, Failures))
  /\ b.passed <= Cardinality(EndedIn(k, b.generation, {"passed"}))
  /\ b.state = "open" => b.requests = 0
  /\ b.state = "half-open" => b.requests <= CBMaxRequests
  /\ b.state = "closed" => b.failed <= TripAfter
  /\ b.state = "open" => EndedIn(k, b.generation - 1, Failures) # {}

ToolIndInv == ticks \in Nat /\ CallsSound(caller) /\ BreakerSound(breaker, caller)

LEMMA ToolIndInvImplies == ToolIndInv => ToolInv
<1> SUFFICES ASSUME ToolIndInv PROVE ToolInv
  OBVIOUS
<1>1. \A g : /\ Admitted(g, {"trying", "passed"} \cup Failures) = InGeneration(caller, g)
            /\ Admitted(g, Failures) = EndedIn(caller, g, Failures)
            /\ Admitted(g, {"passed"}) = EndedIn(caller, g, {"passed"})
  BY DEF Admitted, InGeneration, EndedIn, Entered
<1>2. ToolTypeOK /\ AttemptsBounded
  BY DEF ToolIndInv, CallsSound, BreakerSound, ToolTypeOK, AttemptsBounded, ToolCall
<1>3. CountsAreTrue
  BY <1>1 DEF ToolIndInv, BreakerSound, CountsAreTrue
<1>4. OpensForCause
  BY <1>1 DEF ToolIndInv, BreakerSound, OpensForCause
<1> QED BY <1>2, <1>3, <1>4 DEF ToolInv

\* The calls of a generation are finitely many.
LEMMA GenerationFinite ==
  ASSUME NEW k, CallsSound(k), NEW g
  PROVE  /\ IsFiniteSet(InGeneration(k, g))
         /\ \A ends \in SUBSET Entered : IsFiniteSet(EndedIn(k, g, ends))
<1> DEFINE all == {c \in ToolCallers : k[c].at \in Entered}
<1>1. IsFiniteSet(all)
  BY DEF CallsSound
<1>2. InGeneration(k, g) \subseteq all
  BY DEF InGeneration
<1>3. \A ends \in SUBSET Entered : EndedIn(k, g, ends) \subseteq all
  BY DEF EndedIn
<1> HIDE DEF all
<1> QED BY <1>1, <1>2, <1>3, FS_Subset

\* A new generation counts nothing: no call is of it yet.
LEMMA NewGenerationSound ==
  ASSUME ticks \in Nat, breaker \in Breaker, NEW k,
         \A c \in ToolCallers : k[c].generation \in Nat /\ k[c].generation <= breaker.generation,
         NEW state \in {"closed", "open", "half-open"},
         state = "open" => EndedIn(k, breaker.generation, Failures) # {}
  PROVE  BreakerSound(NewGeneration(state), k)
<1> DEFINE b == NewGeneration(state)
<1>1. /\ b.state = state /\ b.generation = breaker.generation + 1
      /\ b.requests = 0 /\ b.failed = 0 /\ b.passed = 0
  BY DEF NewGeneration
<1>2. b \in Breaker
  BY ToolConstants DEF NewGeneration, Breaker
<1>3. breaker.generation \in Nat /\ b.generation - 1 = breaker.generation
  BY <1>1 DEF Breaker
<1>4. /\ InGeneration(k, b.generation) = {}
      /\ EndedIn(k, b.generation, Failures) = {}
      /\ EndedIn(k, b.generation, {"passed"}) = {}
  BY <1>1, <1>3 DEF InGeneration, EndedIn
<1>5. \A c \in ToolCallers : k[c].generation <= b.generation
  BY <1>1, <1>3
<1>6. Cardinality({}) = 0
  BY FS_EmptySet
<1> HIDE DEF b
<1>7. /\ b.requests = Cardinality(InGeneration(k, b.generation))
      /\ b.failed <= Cardinality(EndedIn(k, b.generation, Failures))
      /\ b.passed <= Cardinality(EndedIn(k, b.generation, {"passed"}))
  BY <1>1, <1>4, <1>6, ToolConstants
<1>8. b.state = "open" => EndedIn(k, b.generation - 1, Failures) # {}
  BY <1>1, <1>3
<1>9. b.requests <= CBMaxRequests /\ b.failed <= TripAfter
  BY <1>1, ToolConstants
<1>10. BreakerSound(b, k)
  BY <1>1, <1>2, <1>5, <1>7, <1>8, <1>9 DEF BreakerSound
<1> QED BY <1>10 DEF b

\* The breaker as of now is sound, and is a new one if it is not the old one.
LEMMA CurrentSound ==
  ASSUME ToolIndInv
  PROVE  /\ BreakerSound(Current, caller)
         /\ Current # breaker => Current.generation = breaker.generation + 1
<1>1. \A c \in ToolCallers : caller[c].generation \in Nat
                             /\ caller[c].generation <= breaker.generation
  BY DEF ToolIndInv, CallsSound, BreakerSound, ToolCall
<1>2. ticks \in Nat /\ breaker \in Breaker
  BY DEF ToolIndInv, BreakerSound
<1>3. BreakerSound(NewGeneration("closed"), caller)
      /\ BreakerSound(NewGeneration("half-open"), caller)
  BY <1>1, <1>2, NewGenerationSound
<1>4. \A state : NewGeneration(state).generation = breaker.generation + 1
  BY DEF NewGeneration
<1>5. Current \in {breaker, NewGeneration("closed"), NewGeneration("half-open")}
  BY DEF Current
<1> QED BY <1>3, <1>4, <1>5 DEF ToolIndInv

\* What a step makes of a call keeps the calls sound.
LEMMA CallsStaySound ==
  ASSUME NEW k, CallsSound(k), NEW c \in ToolCallers, NEW r \in ToolCall,
         r.at \in {"idle", "refused"} => r.attempts = 0,
         r.at = "trying" => r.attempts <= MaxRetry,
         r.at = "failed" => r.attempts = MaxRetry + 1
  PROVE  CallsSound([k EXCEPT ![c] = r])
<1> DEFINE j == [k EXCEPT ![c] = r]
           old == {x \in ToolCallers : k[x].at \in Entered}
           new == {x \in ToolCallers : j[x].at \in Entered}
<1>1. \A x \in ToolCallers : j[x] = IF x = c THEN r ELSE k[x]
  BY DEF CallsSound
<1>2. j \in [ToolCallers -> ToolCall]
  BY DEF CallsSound
<1>3. IsFiniteSet(old)
  BY DEF CallsSound
<1>4. IsFiniteSet(old \cup {c})
  BY <1>3, FS_AddElement
<1>5. new \subseteq old \cup {c}
  BY <1>1
<1>6. IsFiniteSet(new)
  BY <1>4, <1>5, FS_Subset
<1> HIDE DEF j
<1>7. CallsSound(j)
  BY <1>1, <1>2, <1>6 DEF CallsSound
<1> QED BY <1>7 DEF j

LEMMA ToolInvEnter ==
  ASSUME ToolIndInv, NEW c \in ToolCallers, Enter(c)
  PROVE  ToolIndInv'
<1> DEFINE b == Current
<1>1. ticks' = ticks /\ caller[c].at = "idle" /\ caller[c] \in ToolCall /\ caller[c].attempts = 0
  BY DEF Enter, ToolIndInv, CallsSound
<1>2. BreakerSound(b, caller) /\ CallsSound(caller) /\ b.generation \in Nat
  BY CurrentSound DEF ToolIndInv, BreakerSound, Breaker
<1>4. CASE Refuses(b)
  <2> DEFINE r == [caller[c] EXCEPT !.at = "refused"]
  <2>1. r \in ToolCall /\ r.at = "refused" /\ r.attempts = 0 /\ r.generation = caller[c].generation
    BY <1>1 DEF ToolCall
  <2>2. breaker' = b /\ caller' = [caller EXCEPT ![c] = r]
    BY <1>1, <1>4 DEF Enter, CallsSound, ToolIndInv, ToolCall
  <2> HIDE DEF r, b
  <2>3. CallsSound(caller')
    BY <1>2, <2>1, <2>2, CallsStaySound
  <2>4. \A x \in ToolCallers : caller'[x] = IF x = c THEN r ELSE caller[x]
    BY <1>2, <2>2 DEF CallsSound
  <2>5. \A g : /\ InGeneration(caller', g) = InGeneration(caller, g)
                /\ \A ends \in SUBSET Entered : EndedIn(caller', g, ends) = EndedIn(caller, g, ends)
    BY <1>1, <2>1, <2>4 DEF InGeneration, EndedIn, Entered, Failures
  <2>6. /\ InGeneration(caller', b.generation) = InGeneration(caller, b.generation)
        /\ EndedIn(caller', b.generation, Failures)
             = EndedIn(caller, b.generation, Failures)
        /\ EndedIn(caller', b.generation, {"passed"})
             = EndedIn(caller, b.generation, {"passed"})
        /\ EndedIn(caller', b.generation - 1, Failures)
             = EndedIn(caller, b.generation - 1, Failures)
    <3>1. Failures \in SUBSET Entered /\ {"passed"} \in SUBSET Entered
      BY DEF Entered
    <3> QED BY <2>5, <3>1
  <2>7. \A x \in ToolCallers : caller'[x].generation <= b.generation
    BY <1>2, <2>1, <2>4 DEF BreakerSound
  <2>8. BreakerSound(b, caller')
    BY <1>2, <2>6, <2>7 DEF BreakerSound
  <2> QED BY <1>1, <2>2, <2>3, <2>8 DEF ToolIndInv
<1>5. CASE ~Refuses(b)
  <2> DEFINE r == [caller[c] EXCEPT !.at = "trying", !.generation = b.generation]
             n == [b EXCEPT !.requests = @ + 1]
  <2>1. /\ r \in ToolCall /\ r.at = "trying" /\ r.attempts = 0 /\ r.generation = b.generation
    BY <1>1, <1>2 DEF ToolCall
  <2>2. breaker' = n /\ caller' = [caller EXCEPT ![c] = r]
    BY <1>5 DEF Enter
  <2>3. /\ n \in Breaker /\ n.state = b.state /\ n.generation = b.generation
        /\ n.requests = b.requests + 1 /\ n.failed = b.failed /\ n.passed = b.passed
    BY <1>2 DEF BreakerSound, Breaker
  <2>4. /\ b.state # "open"
        /\ b.state = "half-open" => n.requests <= CBMaxRequests
    BY <1>2, <1>5, <2>3, ToolConstants DEF Refuses, BreakerSound, Breaker
  <2> HIDE DEF r, b, n
  <2>5. CallsSound(caller')
    <3>1. r.attempts <= MaxRetry
      BY <2>1, ToolConstants
    <3> QED BY <1>2, <2>1, <2>2, <3>1, CallsStaySound
  <2>6. \A x \in ToolCallers : caller'[x] = IF x = c THEN r ELSE caller[x]
    BY <1>2, <2>2 DEF CallsSound
  <2>7. /\ EndedIn(caller', b.generation, Failures)
             = EndedIn(caller, b.generation, Failures)
        /\ EndedIn(caller', b.generation, {"passed"})
             = EndedIn(caller, b.generation, {"passed"})
    BY <1>1, <2>1, <2>6 DEF InGeneration, EndedIn, Failures
  <2>8. Cardinality(InGeneration(caller', b.generation))
          = Cardinality(InGeneration(caller, b.generation)) + 1
    <3>1. c \notin InGeneration(caller, b.generation)
      BY <1>1 DEF InGeneration, Entered, Failures
    <3>2. InGeneration(caller', b.generation) = InGeneration(caller, b.generation) \cup {c}
      BY <2>1, <2>6 DEF InGeneration, Entered
    <3>3. IsFiniteSet(InGeneration(caller, b.generation))
      BY <1>2, GenerationFinite
    <3> QED BY <3>1, <3>2, <3>3, FS_AddElement
  <2>9. \A x \in ToolCallers : caller'[x].generation <= n.generation
    BY <1>2, <2>1, <2>3, <2>6 DEF BreakerSound
  <2>10. BreakerSound(n, caller')
    BY <1>2, <2>3, <2>4, <2>7, <2>8, <2>9 DEF BreakerSound
  <2> QED BY <1>1, <2>2, <2>5, <2>10 DEF ToolIndInv
<1> QED BY <1>4, <1>5

\* A success and a failure that leave the state of the breaker as it is.
LEMMA CountsSuccess ==
  ASSUME NEW b \in Breaker, NEW ok \in BOOLEAN, ok,
         \/ b.state = "closed"
         \/ b.state = "half-open" /\ b.passed + 1 < CBMaxRequests
  PROVE  LET n == Counted(b, ok)
         IN  /\ n \in Breaker /\ n.state = b.state /\ n.generation = b.generation
             /\ n.requests = b.requests /\ n.failed = 0 /\ n.passed = b.passed + 1
<1> DEFINE n == Counted(b, ok)
<1>1. PICK p \in Nat : p = b.passed + 1
  BY DEF Breaker
<1>2. n = [b EXCEPT !.passed = b.passed + 1, !.failed = 0]
  <2>1. CASE b.state = "closed"
    BY <2>1 DEF Counted
  <2>2. CASE b.state = "half-open" /\ b.passed + 1 < CBMaxRequests
    <3>1. b.passed \in Nat /\ CBMaxRequests \in Nat
      BY ToolConstants DEF Breaker
    <3>2. ~(b.passed + 1 >= CBMaxRequests) /\ b.state # "closed"
      BY <2>2, <3>1
    <3> QED BY <2>2, <3>1, <3>2 DEF Counted
  <2> QED BY <2>1, <2>2
<1>3. n = [b EXCEPT !.passed = p, !.failed = 0]
  BY <1>1, <1>2
<1> HIDE DEF n
<1>4. /\ n \in Breaker /\ n.state = b.state /\ n.generation = b.generation
      /\ n.requests = b.requests /\ n.failed = 0 /\ n.passed = p
  BY <1>3 DEF Breaker
<1>5. n.passed = b.passed + 1
  BY <1>1, <1>4
<1> QED BY <1>4, <1>5 DEF n

LEMMA CountsFailure ==
  ASSUME NEW b \in Breaker, NEW ok \in BOOLEAN, ~ok, b.state = "closed", b.failed < TripAfter
  PROVE  LET n == Counted(b, ok)
         IN  /\ n \in Breaker /\ n.state = b.state /\ n.generation = b.generation
             /\ n.requests = b.requests /\ n.failed = b.failed + 1 /\ n.passed = 0
<1> DEFINE n == Counted(b, ok)
<1>1. PICK p \in Nat : p = b.failed + 1
  BY DEF Breaker
<1>2. n = [b EXCEPT !.failed = b.failed + 1, !.passed = 0]
  BY DEF Counted
<1>3. n = [b EXCEPT !.failed = p, !.passed = 0]
  BY <1>1, <1>2
<1> HIDE DEF n
<1>4. /\ n \in Breaker /\ n.state = b.state /\ n.generation = b.generation
      /\ n.requests = b.requests /\ n.failed = p /\ n.passed = 0
  BY <1>3 DEF Breaker
<1>5. n.failed = b.failed + 1
  BY <1>1, <1>4
<1> QED BY <1>4, <1>5 DEF n

\* A call that ends is counted, if it is of the generation of the breaker.
LEMMA EndIsCounted ==
  ASSUME ToolIndInv, NEW c \in ToolCallers, caller[c].at = "trying", NEW ok \in BOOLEAN,
         NEW r \in ToolCall, (ok /\ r.at = "passed") \/ (~ok /\ r.at \in Failures),
         r.generation = caller[c].generation
  PROVE  BreakerSound(AfterRequest(c, ok), [caller EXCEPT ![c] = r])
<1> DEFINE k == [caller EXCEPT ![c] = r]
           g == caller[c].generation
<1>1. CallsSound(caller) /\ BreakerSound(breaker, caller) /\ ticks \in Nat /\ g \in Nat
      /\ g <= breaker.generation /\ breaker \in Breaker /\ breaker.generation \in Nat
  BY DEF ToolIndInv, CallsSound, BreakerSound, ToolCall, Breaker
<1>2. \A x \in ToolCallers : k[x] = IF x = c THEN r ELSE caller[x]
  BY <1>1 DEF CallsSound
<1>3. \A x \in ToolCallers : k[x].generation = caller[x].generation
  BY <1>2
<1>4. \A x \in ToolCallers : k[x].generation \in Nat /\ k[x].generation <= breaker.generation
  BY <1>1, <1>3 DEF CallsSound, BreakerSound, ToolCall
<1>5. \A h : InGeneration(k, h) = InGeneration(caller, h)
  BY <1>2 DEF InGeneration, EndedIn, Entered, Failures
<1>6. \A h : EndedIn(caller, h, Failures) \subseteq EndedIn(k, h, Failures)
  BY <1>2 DEF InGeneration, EndedIn, Failures
<1>7. \A h \in Nat, end \in {{"passed"}, Failures} :
        LET old == EndedIn(caller, h, end)
            new == EndedIn(k, h, end)
        IN  /\ Cardinality(old) \in Nat /\ Cardinality(new) \in Nat
            /\ Cardinality(new) = IF r.at \in end /\ h = g THEN Cardinality(old) + 1
                                  ELSE Cardinality(old)
  <2> SUFFICES ASSUME NEW h \in Nat, NEW end \in {{"passed"}, Failures}
               PROVE  LET old == EndedIn(caller, h, end)
                          new == EndedIn(k, h, end)
                      IN  /\ Cardinality(old) \in Nat /\ Cardinality(new) \in Nat
                          /\ Cardinality(new) = IF r.at \in end /\ h = g THEN Cardinality(old) + 1
                                                ELSE Cardinality(old)
    OBVIOUS
  <2>1. c \notin EndedIn(caller, h, end)
    BY DEF EndedIn, Failures
  <2>2. IsFiniteSet(EndedIn(caller, h, end))
    <3>1. end \in SUBSET Entered
      BY DEF Entered
    <3> QED BY <1>1, <3>1, GenerationFinite
  <2>3. EndedIn(k, h, end) = IF r.at \in end /\ h = g THEN EndedIn(caller, h, end) \cup {c}
                             ELSE EndedIn(caller, h, end)
    BY <1>2, <2>1 DEF EndedIn
  <2>4. /\ Cardinality(EndedIn(caller, h, end)) \in Nat
        /\ Cardinality(EndedIn(caller, h, end) \cup {c}) = Cardinality(EndedIn(caller, h, end)) + 1
    BY <2>1, <2>2, FS_AddElement, FS_CardinalityType
  <2> QED BY <2>3, <2>4
<1> SUFFICES BreakerSound(AfterRequest(c, ok), k)
  OBVIOUS
<1> HIDE DEF k, g
<1>10. /\ Cardinality(EndedIn(caller, g, {"passed"})) \in Nat
       /\ Cardinality(EndedIn(caller, g, Failures)) \in Nat
       /\ Cardinality(EndedIn(k, g, {"passed"})) = IF ok THEN Cardinality(EndedIn(caller, g, {"passed"})) + 1
                                                ELSE Cardinality(EndedIn(caller, g, {"passed"}))
       /\ Cardinality(EndedIn(k, g, Failures)) = IF ok THEN Cardinality(EndedIn(caller, g, Failures))
                                                ELSE Cardinality(EndedIn(caller, g, Failures)) + 1
  <2>1. /\ ok => r.at \in {"passed"} /\ r.at \notin Failures
        /\ ~ok => r.at \in Failures /\ r.at \notin {"passed"}
    BY DEF Failures
  <2> QED BY <1>1, <1>7, <2>1
<1>8. CASE Current.generation # g
  <2>1. AfterRequest(c, ok) = Current
    BY <1>8 DEF AfterRequest, g
  <2>2. BreakerSound(Current, caller)
    BY CurrentSound
  <2>3. Current.generation \in Nat
    BY <2>2 DEF BreakerSound, Breaker
  <2>4. \A x \in ToolCallers : k[x].generation <= Current.generation
    BY <1>3, <2>2 DEF BreakerSound
  <2>5. /\ Cardinality(EndedIn(k, Current.generation, Failures))
             = Cardinality(EndedIn(caller, Current.generation, Failures))
        /\ Cardinality(EndedIn(k, Current.generation, {"passed"}))
             = Cardinality(EndedIn(caller, Current.generation, {"passed"}))
    BY <1>7, <1>8, <2>3
  <2>6. BreakerSound(Current, k)
    BY <1>5, <1>6, <2>2, <2>4, <2>5 DEF BreakerSound
  <2> QED BY <2>1, <2>6
<1>9. CASE Current.generation = g
  <2>1. Current = breaker
    BY <1>1, <1>9, CurrentSound
  <2>2. AfterRequest(c, ok) = Counted(breaker, ok) /\ breaker.generation = g
    BY <1>9, <2>1 DEF AfterRequest, g
  <2>3. c \in InGeneration(caller, g)
    BY DEF InGeneration, EndedIn, Entered, g
  <2>4. IsFiniteSet(InGeneration(caller, g))
    BY <1>1, GenerationFinite
  <2>5. breaker.state # "open"
    BY <1>1, <2>2, <2>3, <2>4, FS_EmptySet DEF BreakerSound
  <2>6. ~ok => c \in EndedIn(k, g, Failures)
    BY <1>2 DEF EndedIn, g
  <2>7. ~ok => BreakerSound(NewGeneration("open"), k)
    BY <1>1, <1>4, <2>2, <2>6, NewGenerationSound
  <2>8. BreakerSound(NewGeneration("closed"), k)
    BY <1>1, <1>4, NewGenerationSound
  <2>9. CASE /\ ok
             /\ breaker.state = "closed" \/ breaker.passed + 1 < CBMaxRequests
    <3>1. PICK n : n = Counted(breaker, ok)
      OBVIOUS
    <3>2. /\ n \in Breaker /\ n.state = breaker.state /\ n.generation = breaker.generation
          /\ n.requests = breaker.requests /\ n.failed = 0 /\ n.passed = breaker.passed + 1
      <4>1. \/ breaker.state = "closed"
            \/ breaker.state = "half-open" /\ breaker.passed + 1 < CBMaxRequests
        BY <1>1, <2>5, <2>9 DEF Breaker
      <4> QED BY <1>1, <2>9, <3>1, <4>1, CountsSuccess
    <3>3. n.passed <= Cardinality(EndedIn(k, g, {"passed"}))
      BY <1>1, <1>10, <2>2, <2>9, <3>2 DEF BreakerSound, Breaker
    <3>4. n.failed <= Cardinality(EndedIn(k, g, Failures))
      BY <1>10, <3>2
    <3>5. BreakerSound(n, k)
      BY <1>1, <1>4, <1>5, <2>2, <2>5, <3>2, <3>3, <3>4, ToolConstants DEF BreakerSound
    <3> QED BY <2>2, <3>1, <3>5
  <2>10. CASE ok /\ breaker.state = "half-open" /\ breaker.passed + 1 >= CBMaxRequests
    <3>1. Counted(breaker, ok) = NewGeneration("closed")
      BY <1>1, <2>10, ToolConstants DEF Counted, Breaker
    <3> QED BY <2>2, <2>8, <3>1
  <2>11. CASE ~ok /\ breaker.state = "closed" /\ breaker.failed < TripAfter
    <3>1. PICK n : n = Counted(breaker, ok)
      OBVIOUS
    <3>2. /\ n \in Breaker /\ n.state = "closed" /\ n.generation = breaker.generation
          /\ n.requests = breaker.requests /\ n.failed = breaker.failed + 1 /\ n.passed = 0
      BY <1>1, <2>11, <3>1, CountsFailure
    <3>3. n.failed <= Cardinality(EndedIn(k, g, Failures))
      BY <1>1, <1>10, <2>2, <2>11, <3>2 DEF BreakerSound, Breaker
    <3>4. n.passed <= Cardinality(EndedIn(k, g, {"passed"}))
      BY <1>10, <3>2
    <3>5. n.failed <= TripAfter
      BY <1>1, <2>11, <3>2, ToolConstants DEF Breaker
    <3>6. BreakerSound(n, k)
      BY <1>1, <1>4, <1>5, <2>2, <3>2, <3>3, <3>4, <3>5 DEF BreakerSound
    <3> QED BY <2>2, <3>1, <3>6
  <2>12. CASE ~ok /\ ~(breaker.state = "closed" /\ breaker.failed < TripAfter)
    <3>1. Counted(breaker, ok) = NewGeneration("open")
      BY <2>12 DEF Counted
    <3> QED BY <2>2, <2>7, <2>12, <3>1
  <2> QED BY <1>1, <2>5, <2>9, <2>10, <2>11, <2>12, ToolConstants DEF Breaker
<1> QED BY <1>8, <1>9

\* A call after one more attempt, which ends it or not.
LEMMA Attempted ==
  ASSUME NEW r \in ToolCall, r.attempts <= MaxRetry,
         NEW at \in {"trying", "passed", "failed", "panicked"}
  PROVE  LET n == [r EXCEPT !.at = at, !.attempts = r.attempts + 1]
         IN  /\ n \in ToolCall /\ n.at = at /\ n.attempts = r.attempts + 1
             /\ n.generation = r.generation
<1> DEFINE n == [r EXCEPT !.at = at, !.attempts = r.attempts + 1]
<1>1. PICK p \in 0..MaxRetry + 1 : p = r.attempts + 1
  BY ToolConstants DEF ToolCall
<1>2. n = [r EXCEPT !.at = at, !.attempts = p]
  BY <1>1
<1> HIDE DEF n
<1>3. n \in ToolCall /\ n.at = at /\ n.attempts = p /\ n.generation = r.generation
  BY <1>2 DEF ToolCall
<1> QED BY <1>1, <1>3 DEF n

\* What the end of a call, or of an attempt, makes of the calls.
LEMMA CallEnds ==
  ASSUME ToolIndInv, NEW c \in ToolCallers, caller[c].at = "trying",
         NEW at \in {"trying", "passed", "failed", "panicked"},
         at = "trying" => caller[c].attempts < MaxRetry,
         at = "failed" => caller[c].attempts = MaxRetry
  PROVE  \E r \in ToolCall :
           /\ r = [caller[c] EXCEPT !.at = at, !.attempts = caller[c].attempts + 1]
           /\ r.at = at /\ r.generation = caller[c].generation
           /\ CallsSound([caller EXCEPT ![c] = r])
<1>1. /\ caller[c] \in ToolCall /\ caller[c].attempts <= MaxRetry
      /\ CallsSound(caller)
  BY DEF ToolIndInv, CallsSound
<1>2. PICK old : old = caller[c]
  OBVIOUS
<1> DEFINE r == [old EXCEPT !.at = at, !.attempts = old.attempts + 1]
<1>3. r \in ToolCall /\ r.at = at /\ r.attempts = old.attempts + 1 /\ r.generation = old.generation
  <2>1. old \in ToolCall /\ old.attempts <= MaxRetry
    BY <1>1, <1>2
  <2> QED BY <2>1, Attempted, Zenon
<1>4. r = [caller[c] EXCEPT !.at = at, !.attempts = caller[c].attempts + 1]
  BY <1>2
<1> HIDE DEF r
<1>5. /\ r.at = "trying" => r.attempts <= MaxRetry
      /\ r.at = "failed" => r.attempts = MaxRetry + 1
      /\ r.at \notin {"idle", "refused"}
  BY <1>1, <1>2, <1>3, ToolConstants DEF ToolCall
<1>6. CallsSound([caller EXCEPT ![c] = r])
  BY <1>1, <1>3, <1>5, CallsStaySound
<1> QED BY <1>2, <1>3, <1>4, <1>6

LEMMA ToolInvPasses ==
  ASSUME ToolIndInv, NEW c \in ToolCallers, AttemptPasses(c)
  PROVE  ToolIndInv'
<1>1. /\ caller[c].at = "trying" /\ breaker' = AfterRequest(c, TRUE)
      /\ ticks' = ticks /\ ticks \in Nat
  BY DEF AttemptPasses, ToolIndInv
<1>2. PICK r \in ToolCall :
        /\ r = [caller[c] EXCEPT !.at = "passed", !.attempts = caller[c].attempts + 1]
        /\ r.at = "passed" /\ r.generation = caller[c].generation
        /\ CallsSound([caller EXCEPT ![c] = r])
  BY <1>1, CallEnds
<1>3. caller' = [caller EXCEPT ![c] = r]
  BY <1>2, Zenon DEF AttemptPasses, Attempt
<1>4. BreakerSound(breaker', caller')
  <2>1. BreakerSound(AfterRequest(c, TRUE), [caller EXCEPT ![c] = r])
    BY <1>1, <1>2, EndIsCounted
  <2> QED BY <1>1, <1>3, <2>1
<1> QED BY <1>1, <1>2, <1>3, <1>4 DEF ToolIndInv

LEMMA ToolInvFails ==
  ASSUME ToolIndInv, NEW c \in ToolCallers, AttemptFails(c)
  PROVE  ToolIndInv'
<1>1. /\ caller[c].at = "trying" /\ CallsSound(caller) /\ caller[c] \in ToolCall
      /\ caller[c].attempts <= MaxRetry
      /\ ticks' = ticks /\ ticks \in Nat
  BY DEF AttemptFails, ToolIndInv, CallsSound
<1>2. CASE Retries(c)
  <2>1. caller[c].attempts < MaxRetry
    BY <1>2 DEF Retries
  <2>2. PICK r \in ToolCall :
          /\ r = [caller[c] EXCEPT !.at = "trying", !.attempts = caller[c].attempts + 1]
          /\ r.at = "trying" /\ r.generation = caller[c].generation
          /\ CallsSound([caller EXCEPT ![c] = r])
    BY <1>1, <2>1, CallEnds
  <2>4. caller' = [caller EXCEPT ![c] = r] /\ breaker' = breaker
    <3>1. Attempt(c, "trying") /\ breaker' = breaker
      BY <1>2 DEF AttemptFails
    <3> QED BY <2>2, <3>1, Zenon DEF Attempt
  <2>5. \A x \in ToolCallers : caller'[x] = IF x = c THEN r ELSE caller[x]
    BY <1>1, <2>4 DEF CallsSound
  <2>6. \A x \in ToolCallers : /\ caller'[x].at = caller[x].at
                               /\ caller'[x].generation = caller[x].generation
    BY <1>1, <2>2, <2>5
  <2>7. \A g : /\ InGeneration(caller', g) = InGeneration(caller, g)
                /\ \A ends : EndedIn(caller', g, ends) = EndedIn(caller, g, ends)
    BY <2>6 DEF InGeneration, EndedIn
  <2>8. BreakerSound(breaker, caller')
    BY <2>6, <2>7 DEF ToolIndInv, BreakerSound
  <2> QED BY <1>1, <2>2, <2>4, <2>8 DEF ToolIndInv
<1>3. CASE ~Retries(c)
  <2>1. caller[c].attempts = MaxRetry
    BY <1>1, <1>3, ToolConstants DEF ToolCall, Retries
  <2>2. PICK r \in ToolCall :
          /\ r = [caller[c] EXCEPT !.at = "failed", !.attempts = caller[c].attempts + 1]
          /\ r.at = "failed" /\ r.generation = caller[c].generation
          /\ CallsSound([caller EXCEPT ![c] = r])
    BY <1>1, <2>1, CallEnds
  <2>3. caller' = [caller EXCEPT ![c] = r] /\ breaker' = AfterRequest(c, FALSE)
    <3>1. Attempt(c, "failed") /\ breaker' = AfterRequest(c, FALSE)
      BY <1>3 DEF AttemptFails
    <3> QED BY <2>2, <3>1, Zenon DEF Attempt
  <2>4. BreakerSound(breaker', caller')
    <3>1. BreakerSound(AfterRequest(c, FALSE), [caller EXCEPT ![c] = r])
      BY <1>1, <2>2, EndIsCounted DEF Failures
    <3> QED BY <2>3, <3>1
  <2> QED BY <1>1, <2>2, <2>3, <2>4 DEF ToolIndInv
<1> QED BY <1>2, <1>3

LEMMA ToolInvPanics ==
  ASSUME ToolIndInv, NEW c \in ToolCallers, AttemptPanics(c)
  PROVE  ToolIndInv'
<1>1. /\ caller[c].at = "trying" /\ breaker' = AfterRequest(c, FALSE)
      /\ ticks' = ticks /\ ticks \in Nat
  BY DEF AttemptPanics, ToolIndInv
<1>2. PICK r \in ToolCall :
        /\ r = [caller[c] EXCEPT !.at = "panicked", !.attempts = caller[c].attempts + 1]
        /\ r.at = "panicked" /\ r.generation = caller[c].generation
        /\ CallsSound([caller EXCEPT ![c] = r])
  BY <1>1, CallEnds
<1>3. caller' = [caller EXCEPT ![c] = r]
  BY <1>2, Zenon DEF AttemptPanics, Attempt
<1>4. BreakerSound(breaker', caller')
  <2>1. BreakerSound(AfterRequest(c, FALSE), [caller EXCEPT ![c] = r])
    BY <1>1, <1>2, EndIsCounted DEF Failures
  <2> QED BY <1>1, <1>3, <2>1
<1> QED BY <1>1, <1>2, <1>3, <1>4 DEF ToolIndInv

LEMMA ToolInvInit == ToolInit => ToolIndInv
<1> SUFFICES ASSUME ToolInit PROVE ToolIndInv
  OBVIOUS
<1>2. /\ InGeneration(caller, 0) = {} /\ EndedIn(caller, 0, Failures) = {}
      /\ EndedIn(caller, 0, {"passed"}) = {}
      /\ {c \in ToolCallers : caller[c].at \in Entered} = {}
  BY DEF Entered, Failures, ToolInit, InGeneration, EndedIn
<1>1. caller \in [ToolCallers -> ToolCall]
  BY ToolConstants DEF ToolInit, ToolCall
<1>3. CallsSound(caller)
  BY <1>1, <1>2, FS_EmptySet DEF ToolInit, CallsSound
<1>4. breaker \in Breaker /\ breaker.generation = 0
  BY ToolConstants DEF ToolInit, Breaker
<1>5. BreakerSound(breaker, caller)
  BY <1>2, <1>4, FS_EmptySet, ToolConstants DEF ToolInit, BreakerSound
<1> QED BY <1>3, <1>5 DEF ToolIndInv, ToolInit

LEMMA ToolInvNext == ToolIndInv /\ [ToolNext]_toolVars => ToolIndInv'
<1> SUFFICES ASSUME ToolIndInv, [ToolNext]_toolVars PROVE ToolIndInv'
  OBVIOUS
<1>1. CASE UNCHANGED toolVars
  BY <1>1 DEF toolVars, ToolIndInv
<1>2. CASE TicksPass
  BY <1>2 DEF TicksPass, ToolIndInv
<1> QED BY <1>1, <1>2, ToolInvEnter, ToolInvPasses, ToolInvFails, ToolInvPanics DEF ToolNext, CallStep

\* However many calls of a tool run at a time and however long their retries
\* take: the breaker counts the calls of its own generation and no other, opens
\* only for a failure of one of them, admits no more calls on probation than it
\* may, and no call tries more often than it may.
THEOREM ToolsKeep == ToolSpec => []ToolInv
<1>1. ToolInit => ToolIndInv
  BY ToolInvInit
<1>2. ToolIndInv /\ [ToolNext]_toolVars => ToolIndInv'
  BY ToolInvNext
<1>3. ToolIndInv => ToolInv
  BY ToolIndInvImplies
<1> QED BY <1>1, <1>2, <1>3, PTL DEF ToolSpec

=============================================================================
