----------------------------- MODULE WorkerPools -----------------------------
(***************************************************************************)
(* The two worker pools of the gateway: BasicCrawler.Fetch of              *)
(* internal/search/crawler.go and formatChunksParallel, with its callers   *)
(* formatText and formatTwoStep, of internal/paragraph/paragraph.go.       *)
(*                                                                         *)
(* A sender hands the jobs over an unbuffered channel to a few goroutines, *)
(* closes it, and waits for them; each result goes under a mutex to the    *)
(* place of its job.  The crawler wants what it can get; the formatter     *)
(* everything, or, with a fallback, the raw text for what is missing.      *)
(***************************************************************************)
EXTENDS Naturals, FiniteSets, FiniteSetsExt

CONSTANTS
  Workers,      \* the goroutines: maxConcurrency, or maxParallelChunks
  MaxJobs       \* bound of the model: URLs, or chunks of one text

ASSUME PoolConstants ==
  /\ Workers # {}
  /\ IsFiniteSet(Workers)
  /\ MaxJobs \in Nat \ {0}

VARIABLES
  task,      \* what the pool is for: the crawl or the formatting of a text
  next,      \* the job that the sender holds; past the last one, the channel is closed
  worker,    \* worker[w]: whether goroutine w waits, works or has ended, and its job
  results,   \* results[j]: "none", "raw", or "made"
  failures,  \* jobs that failed
  outcome    \* what the call returns

poolVars == <<task, next, worker, results, failures, outcome>>

-----------------------------------------------------------------------------
Jobs == 1..task.size

Off == [at |-> "off", job |-> 0]

Waiting == [at |-> "waiting", job |-> 0]

Works(w) == worker[w].at = "working"

JobResults == {"none", "raw", "made"}

NoTask == [for |-> "none", steps |-> 0, fallback |-> FALSE, size |-> 0]

\* formatTwoStep is a formatting with another one to follow.
Tasks ==
  [for : {"crawl"}, steps : {1}, fallback : {FALSE}, size : 1..MaxJobs]
    \cup [for : {"format"}, steps : {1, 2}, fallback : BOOLEAN, size : 1..MaxJobs]

\* With a fallback the raw chunks stand in the places of the results.
Cleared(t) == [j \in 1..t.size |-> IF t.fallback THEN "raw" ELSE "none"]

\* As many goroutines as there are jobs, at most; a single chunk is formatted
\* by the caller itself, which is the same as by one goroutine.
Prepare(t) ==
  /\ task' = t
  /\ next' = 1
  /\ \E team \in SUBSET Workers :
       /\ Cardinality(team) = Min({Cardinality(Workers), t.size})
       /\ worker' = [w \in Workers |-> IF w \in team THEN Waiting ELSE Off]
  /\ results' = Cleared(t)
  /\ failures' = {}

StartPool(t) ==
  /\ task.for = "none"
  /\ Prepare(t)
  /\ outcome' = "none"

\* jobs <- job: sender and receiver meet.
HandOver(w) ==
  /\ worker[w] = Waiting
  /\ next \in Jobs
  /\ worker' = [worker EXCEPT ![w] = [at |-> "working", job |-> next]]
  /\ next' = next + 1
  /\ UNCHANGED <<task, results, failures, outcome>>

\* Variant: results are appended as they come.
JobMadeInOrder(w) ==
  /\ Works(w)
  /\ \E free \in Jobs :
       /\ results[free] # "made" /\ \A j \in Jobs : j < free => results[j] = "made"
       /\ results' = [results EXCEPT ![free] = "made"]
  /\ worker' = [worker EXCEPT ![w] = Waiting]
  /\ UNCHANGED <<task, next, failures, outcome>>

\* fetchOne or formatChunk succeeds.
JobMade(w) ==
  /\ Works(w)
  /\ results' = [results EXCEPT ![worker[w].job] = "made"]
  /\ worker' = [worker EXCEPT ![w] = Waiting]
  /\ UNCHANGED <<task, next, failures, outcome>>

\* Variant: the goroutine returns when its job fails.
JobFailsReturns(w) ==
  /\ Works(w)
  /\ failures' = failures \cup {worker[w].job}
  /\ worker' = [worker EXCEPT ![w] = [at |-> "ended", job |-> 0]]
  /\ UNCHANGED <<task, next, results, outcome>>

\* It fails: an error, an empty answer of the model, or its timeout.
JobFails(w) ==
  /\ Works(w)
  /\ failures' = failures \cup {worker[w].job}
  /\ worker' = [worker EXCEPT ![w] = Waiting]
  /\ UNCHANGED <<task, next, results, outcome>>

\* The channel is closed and empty.
WorkerEnds(w) ==
  /\ worker[w] = Waiting
  /\ next > task.size
  /\ worker' = [worker EXCEPT ![w].at = "ended"]
  /\ UNCHANGED <<task, next, results, failures, outcome>>

\* wg.Wait, to which the caller comes when it has handed all jobs over.
AllDone ==
  /\ task.for # "none"
  /\ next > task.size
  /\ \A w \in Workers : worker[w].at \in {"ended", "off"}

\* Fetch: an error if nothing came, else the documents in the order of the URLs.
Collected ==
  /\ task.for = "crawl" /\ AllDone /\ outcome = "none"
  /\ outcome' = IF failures = Jobs THEN "failed" ELSE "results"
  /\ UNCHANGED <<task, next, worker, results, failures>>

\* Without a fallback one failure fails the text; with it, the text stays raw
\* if everything failed.
Verdict ==
  IF failures # {} /\ ~task.fallback THEN "failed"
  ELSE IF failures = Jobs THEN "raw" ELSE "results"

\* The end of a formatting, or of its first step: the second one splits the
\* text that came out of the first, into a number of chunks of its own.
Formatted ==
  /\ task.for = "format" /\ AllDone /\ outcome = "none"
  /\ IF task.steps = 2 /\ Verdict # "failed"
     THEN /\ \E n \in 1..MaxJobs : Prepare([task EXCEPT !.steps = 1, !.size = n])
          /\ UNCHANGED outcome
     ELSE /\ outcome' = Verdict
          /\ UNCHANGED <<task, next, worker, results, failures>>

-----------------------------------------------------------------------------
PoolInit ==
  /\ task = NoTask
  /\ next = 1
  /\ worker = [w \in Workers |-> Off]
  /\ results = [j \in {} |-> "none"]
  /\ failures = {}
  /\ outcome = "none"

PoolStep ==
  \/ \E w \in Workers : HandOver(w) \/ JobMade(w) \/ JobFails(w) \/ WorkerEnds(w)
  \/ Collected
  \/ Formatted

PoolNext == (\E t \in Tasks : StartPool(t)) \/ PoolStep

PoolSpec == PoolInit /\ [][PoolNext]_poolVars

\* Some goroutine of a call that has started goes on: fetchOne and formatChunk
\* return, at the latest when their context times out.
PoolFairness == WF_poolVars(PoolStep)

-----------------------------------------------------------------------------
(* Properties.                                                             *)

PoolTypeOK ==
  /\ task \in Tasks \cup {NoTask}
  /\ next \in 1..task.size + 1
  /\ worker \in [Workers -> [at : {"off", "waiting", "working", "ended"}, job : Jobs \cup {0}]]
  /\ results \in [Jobs -> JobResults]
  /\ outcome \in {"none", "failed", "raw", "results"}

Working(j) == {w \in Workers : Works(w) /\ worker[w].job = j}

\* A job is with the sender, with one goroutine, or done, and what is in its
\* place is its own result.
JobsKeepTheirPlace ==
  \A j \in Jobs :
    /\ Working(j) # {} => /\ j < next /\ j \notin failures /\ results[j] # "made"
                          /\ \A v, w \in Working(j) : v = w
    /\ j >= next => j \notin failures /\ results[j] # "made"
    /\ j < next /\ Working(j) = {} => (j \in failures <=> results[j] # "made")

\* No result is given before every goroutine has ended; it holds every job's
\* own in the order of the input, except, for the crawler, those that failed,
\* and for the formatter, with a fallback, the raw text of those; and it is an
\* error exactly when nothing could be fetched, or a chunk not be formatted.
NothingLost ==
  outcome # "none" =>
    /\ \A w \in Workers : worker[w].at \in {"ended", "off"}
    /\ outcome = "failed" =>
         failures # {} /\ ~task.fallback /\ (task.for = "crawl" => failures = Jobs)
    /\ outcome = "results" =>
         /\ \E j \in Jobs : results[j] = "made"
         /\ task.for = "format" => \A j \in Jobs : results[j] # "none"
         /\ \A j \in failures : results[j] = IF task.fallback THEN "raw" ELSE "none"
    /\ outcome = "raw" => task.fallback /\ failures = Jobs

PoolInv == PoolTypeOK /\ JobsKeepTheirPlace /\ NothingLost

\* A call that has started returns: sender, goroutines and the wait of the
\* caller never wait for one another for good, whichever jobs fail.
PoolEnds == task.for # "none" ~> outcome # "none"

=============================================================================
