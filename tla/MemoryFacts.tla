---------------------------- MODULE MemoryFacts ----------------------------
(***************************************************************************)
(* The long-term memory: internal/memory/repo.go under the memory_extract  *)
(* jobs of internal/server/handler/chat.go.                                *)
(*                                                                         *)
(* After each turn of a known user a background job lets the LLM turn the  *)
(* conversation into operations on the user's facts and applies them one   *)
(* by one.  An operation that writes looks its row up by user, category    *)
(* and key, and saves the whole row or creates one; to supersede, it then  *)
(* marks the target as replaced by the row it wrote.  Nothing is done in a *)
(* transaction, and the jobs of one user run concurrently.                 *)
(*                                                                         *)
(* A key stands for a category and a key, and a value for the job that     *)
(* wrote it; counters, evidence and times are left out, and with them      *)
(* what ConfirmFact changes.                                               *)
(***************************************************************************)
EXTENDS Naturals, Maps

CONSTANTS
  FactIds,         \* the ids that uuid.New may return
  Owners,          \* user ids
  Keys,            \* pairs of category and key
  Jobs,            \* the memory_extract jobs: one value per job
  NoFact, NoOwner, NoKey, NoJob,
  MaxOps,          \* bound of the model: operations the LLM gives one job
  FactDBMayFail    \* whether a call of the database may return an error

ASSUME FactConstants ==
  /\ NoFact \notin FactIds /\ NoOwner \notin Owners
  /\ NoKey \notin Keys /\ NoJob \notin Jobs
  /\ MaxOps \in Nat \ {0}
  /\ FactDBMayFail \in BOOLEAN

VARIABLES
  facts,      \* the rows of memory_facts
  job,        \* job[j]: where job j is
  overlapped, \* history: the users of whom two jobs have run at a time
  latest      \* latest[u][k]: history: the job that last wrote key k of user u, if it is still to be known

factVars == <<facts, job, overlapped, latest>>

-----------------------------------------------------------------------------
Fact == [user : Owners, key : Keys, by : FactIds \cup {NoFact}, from : Jobs]

\* The row of `found` is what the lookup has read of it.
Job == [at : {"idle", "next", "lookup", "write", "link", "ended"},
        user : Owners \cup {NoOwner},
        left : 0..MaxOps,
        key : Keys \cup {NoKey},
        target : FactIds \cup {NoFact},    \* of a supersede
        found : FactIds \cup {NoFact},
        row : Fact \cup {NoFact}]

Idle == [at |-> "idle", user |-> NoOwner, left |-> 0, key |-> NoKey,
         target |-> NoFact, found |-> NoFact, row |-> NoFact]

Running(j) == job[j].at \in {"next", "lookup", "write", "link"}

\* superseded_by IS NULL
Active(i) == facts[i].by = NoFact

\* GetFactsByUser: what a prompt shows of user u.
FactsByUser(u) == {i \in DOMAIN facts : facts[i].user = u /\ Active(i)}

Goes(j, r) == job' = [job EXCEPT ![j] = r]

\* The next operation, or the end of the job.
NextOp(j) ==
  [job[j] EXCEPT !.at = IF job[j].left > 0 THEN "next" ELSE "ended",
                 !.key = NoKey, !.target = NoFact, !.found = NoFact, !.row = NoFact]

\* An error ends the job; what it applied before stays.
Fails(j) ==
  /\ FactDBMayFail
  /\ Goes(j, [NextOp(j) EXCEPT !.at = "ended"])
  /\ UNCHANGED <<facts, overlapped, latest>>

-----------------------------------------------------------------------------
\* The turn of user u is over, the LLM was asked, and gave n operations.
Extract(j, u, n) ==
  /\ job[j].at = "idle"
  /\ Goes(j, [Idle EXCEPT !.at = "next", !.user = u, !.left = n])
  /\ overlapped' = IF \E o \in Jobs : Running(o) /\ job[o].user = u
                   THEN overlapped \cup {u} ELSE overlapped
  /\ UNCHANGED <<facts, latest>>

\* Create and update are UpsertFact, and so is the first half of supersede.
\* The LLM has read the ids of the facts it names as targets; one it invents hits
\* no row in Link, like the id of another user's row.
TakeWrite(j, k, target) ==
  /\ job[j].at = "next"
  /\ Goes(j, [job[j] EXCEPT !.at = "lookup", !.left = @ - 1, !.key = k, !.target = target])
  /\ UNCHANGED <<facts, overlapped, latest>>

\* A supersede or confirm without a target, and what the LLM invents, is
\* skipped; ConfirmFact changes only counters.
TakeOther(j) ==
  /\ job[j].at = "next"
  /\ LET r == [job[j] EXCEPT !.left = @ - 1]
     IN  Goes(j, IF r.left > 0 THEN r ELSE [r EXCEPT !.at = "ended"])
  /\ UNCHANGED <<facts, overlapped, latest>>

\* The rows UpsertFact may find.
Rows(u, k) == {i \in FactsByUser(u) : facts[i].key = k}

\* Variant: an error of the lookup reads as no row.
LookupUnchecked(j) ==
  /\ job[j].at = "lookup"
  /\ LET rows == Rows(job[j].user, job[j].key)
     IN  \/ \E i \in rows : Goes(j, [job[j] EXCEPT !.at = "write", !.found = i, !.row = facts[i]])
         \/ Goes(j, [job[j] EXCEPT !.at = "write"])
  /\ UNCHANGED <<facts, overlapped, latest>>

Lookup(j) ==
  /\ job[j].at = "lookup"
  /\ LET rows == Rows(job[j].user, job[j].key)
     IN  \/ \E i \in rows : Goes(j, [job[j] EXCEPT !.at = "write", !.found = i, !.row = facts[i]])
         \/ rows = {} /\ Goes(j, [job[j] EXCEPT !.at = "write"])
  /\ UNCHANGED <<facts, overlapped, latest>>

\* Save writes every column of the row as it was read; otherwise Create.
Write(j) ==
  /\ job[j].at = "write"
  /\ \E i \in FactIds :
       /\ IF job[j].found # NoFact THEN i = job[j].found ELSE i \notin DOMAIN facts
       /\ LET row == IF job[j].found # NoFact THEN [job[j].row EXCEPT !.from = j]
                     ELSE [user |-> job[j].user, key |-> job[j].key, by |-> NoFact, from |-> j]
          IN  facts' = Put(facts, i, row)
       /\ IF job[j].target = NoFact THEN Goes(j, NextOp(j))
          ELSE Goes(j, [job[j] EXCEPT !.at = "link", !.found = i, !.row = NoFact])
  /\ latest' = [latest EXCEPT ![job[j].user] = [@ EXCEPT ![job[j].key] = j]]
  /\ UNCHANGED overlapped

\* Variant: the target may be anybody's.
ScopeOfAny(u, target) == {target} \cap DOMAIN facts

\* The row SupersedeFact updates: WHERE id = target AND user_id = user.
Scope(u, target) == {i \in {target} \cap DOMAIN facts : facts[i].user = u}

\* SupersedeFact: the target, which may be the row just written, is replaced
\* by that row.
Link(j) ==
  /\ job[j].at = "link"
  /\ LET hit == Scope(job[j].user, job[j].target)
     IN  /\ facts' = [i \in DOMAIN facts |->
                        IF i \in hit THEN [facts[i] EXCEPT !.by = job[j].found] ELSE facts[i]]
         /\ latest' = [u \in Owners |-> [k \in Keys |->
                         IF \E i \in hit : facts[i].user = u /\ facts[i].key = k
                         THEN NoJob ELSE latest[u][k]]]
  /\ Goes(j, NextOp(j))
  /\ UNCHANGED overlapped

\* A call of the database fails, or the runner's timeout cancels it.
OpFails(j) ==
  /\ Running(j)
  /\ Fails(j)

\* The process ends: the jobs are gone, what they wrote stays.
MemoryRestart ==
  /\ \E j \in Jobs : Running(j)
  /\ job' = [j \in Jobs |-> IF Running(j) THEN [NextOp(j) EXCEPT !.at = "ended"] ELSE job[j]]
  /\ UNCHANGED <<facts, overlapped, latest>>

-----------------------------------------------------------------------------
FactInit ==
  /\ facts = [i \in {} |-> NoFact]
  /\ job = [j \in Jobs |-> Idle]
  /\ overlapped = {}
  /\ latest = [u \in Owners |-> [k \in Keys |-> NoJob]]

JobStep(j) ==
  \/ \E u \in Owners, n \in 1..MaxOps : Extract(j, u, n)
  \/ \E k \in Keys, target \in DOMAIN facts \cup {NoFact} : TakeWrite(j, k, target)
  \/ TakeOther(j)
  \/ Lookup(j)
  \/ Write(j)
  \/ Link(j)
  \/ OpFails(j)

FactNext == (\E j \in Jobs : JobStep(j)) \/ MemoryRestart

FactSpec == FactInit /\ [][FactNext]_factVars

-----------------------------------------------------------------------------
(* Properties.                                                             *)

FactTypeOK ==
  /\ DOMAIN facts \subseteq FactIds
  /\ facts \in [DOMAIN facts -> Fact]
  /\ job \in [Jobs -> Job]
  /\ overlapped \subseteq Owners
  /\ latest \in [Owners -> [Keys -> Jobs \cup {NoJob}]]

\* Two jobs of a user that meet may look a key up before either has created
\* it; without that, a key of a user has one active row (UpsertFact "creates
\* or updates").
OneActivePerKey ==
  \A i, k \in DOMAIN facts :
    /\ Active(i) /\ Active(k)
    /\ facts[i].user = facts[k].user /\ facts[i].key = facts[k].key
    /\ facts[i].user \notin overlapped
    => i = k

\* A superseded row names a row of the same user as its successor.
SuccessorsAreOwn ==
  \A i \in DOMAIN facts :
    ~Active(i) => /\ facts[i].by \in DOMAIN facts
                  /\ facts[facts[i].by].user = facts[i].user

\* What a user was last noted to have said is what the prompt shows for that
\* key, unless jobs of the user met, or an operation superseded it: also the
\* one that wrote it, when the target it names is the row of its own key.
\* (That row then names itself as its successor and the fact disappears,
\* although SupersedeFact "marks an old fact as superseded by a new one".)
LatestIsKnown ==
  \A u \in Owners \ overlapped, k \in Keys :
    latest[u][k] # NoJob =>
      \E i \in FactsByUser(u) : facts[i].key = k /\ facts[i].from = latest[u][k]

\* What a prompt shows of a key that a user's facts were noted under and only
\* rows of that key have replaced: one row ("creates or updates", UpsertFact;
\* SupersedeFact "marks an old fact as superseded by a new one").  This has no
\* exception, and fails in both cases that FactInv excepts: two jobs that meet
\* create two rows, and a row that replaces itself leaves none.
KeyIsShownOnce ==
  \A u \in Owners, k \in Keys :
    LET noted == {i \in DOMAIN facts : facts[i].user = u /\ facts[i].key = k}
    IN  noted # {} /\ (\A i \in noted : ~Active(i) => facts[i].by \in noted)
          => \E i \in noted : Rows(u, k) = {i}

FactInv == FactTypeOK /\ OneActivePerKey /\ SuccessorsAreOwn /\ LatestIsKnown

FactsOfOthersKept ==
  \A i \in DOMAIN facts' :
    (IF i \in DOMAIN facts THEN facts'[i] # facts[i] ELSE TRUE) =>
      /\ \E j \in Jobs : job'[j] # job[j] /\ job[j].user = facts'[i].user
      /\ i \in DOMAIN facts => facts'[i].user = facts[i].user /\ facts'[i].key = facts[i].key

\* A row is written only by a job of its user, whatever target the LLM names
\* ("scopes the operation to prevent cross-user tampering"), keeps its user
\* and key, and is never deleted.
OnlyOwnFacts ==
  [][DOMAIN facts \subseteq DOMAIN facts' /\ FactsOfOthersKept]_factVars

=============================================================================
