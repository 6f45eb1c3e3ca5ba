------------------------------ MODULE ToolCalls ------------------------------
(***************************************************************************)
(* A tool behind its wrapper: Wrapper.Run of internal/tool/base.go, with   *)
(* retries inside one request of a circuit breaker (gobreaker, a library). *)
(*                                                                         *)
(* The breaker counts the calls of a generation.  A generation ends when   *)
(* the breaker changes its state, and every CBInterval while it is closed; *)
(* a call that began in an earlier generation is not counted when it ends. *)
(* Calls run concurrently, and their retries take longer than the interval *)
(* may be.                                                                 *)
(***************************************************************************)
EXTENDS Naturals, FiniteSets

CONSTANTS
  ToolCallers,     \* calls of Run: one value per call
  MaxRetry,        \* retries of one call: maxRetry
  TripAfter,       \* failed calls in a row that a closed breaker bears: 3
  CBMaxRequests,   \* calls that a half-open breaker admits
  CBInterval, CBTimeout,
  MaxTicks         \* bound of the model: ticks of the clock

ASSUME ToolConstants ==
  /\ {MaxRetry, TripAfter, MaxTicks} \subseteq Nat
  /\ {CBMaxRequests, CBInterval, CBTimeout} \subseteq Nat \ {0}

VARIABLES
  breaker,   \* state, generation, counts and expiry of the breaker
  caller,    \* caller[c]: where call c is, its attempts, and its generation
  ticks      \* the clock

toolVars == <<breaker, caller, ticks>>

-----------------------------------------------------------------------------
(* The breaker, as of now.                                                 *)

Breaker == [state : {"closed", "open", "half-open"}, generation : Nat, requests : Nat,
            failed : Nat, passed : Nat, expiry : Nat]

\* toNewGeneration: the counts are cleared; half-open has no expiry.
NewGeneration(state) ==
  [state |-> state, generation |-> breaker.generation + 1, requests |-> 0, failed |-> 0,
   passed |-> 0, expiry |-> CASE state = "closed" -> ticks + CBInterval
                              [] state = "open" -> ticks + CBTimeout
                              [] OTHER -> 0]

\* currentState: a generation, or the open state, that is over is replaced.
Current ==
  CASE breaker.state = "closed" /\ breaker.expiry < ticks -> NewGeneration("closed")
    [] breaker.state = "open" /\ breaker.expiry < ticks -> NewGeneration("half-open")
    [] OTHER -> breaker

Refuses(b) == b.state = "open" \/ (b.state = "half-open" /\ b.requests >= CBMaxRequests)

\* onSuccess and onFailure, for a call of the current generation; `passed` and
\* `failed` count those that came in a row.
Counted(b, ok) ==
  CASE ok /\ b.state = "closed" -> [b EXCEPT !.passed = @ + 1, !.failed = 0]
    [] ok /\ b.state = "half-open" /\ b.passed + 1 < CBMaxRequests ->
         [b EXCEPT !.passed = @ + 1, !.failed = 0]
    [] ok /\ b.state = "half-open" /\ b.passed + 1 >= CBMaxRequests -> NewGeneration("closed")
    [] ~ok /\ b.state = "closed" /\ b.failed < TripAfter -> [b EXCEPT !.failed = @ + 1, !.passed = 0]
    [] OTHER -> NewGeneration("open")

\* afterRequest: only calls of the current generation count.
AfterRequest(c, ok) ==
  IF Current.generation = caller[c].generation THEN Counted(Current, ok) ELSE Current

-----------------------------------------------------------------------------
(* Run.                                                                    *)

\* beforeRequest: refused, or admitted and counted.
Enter(c) ==
  LET b == Current
  IN  /\ caller[c].at = "idle"
      /\ IF Refuses(b)
         THEN /\ breaker' = b
              /\ caller' = [caller EXCEPT ![c].at = "refused"]
         ELSE /\ breaker' = [b EXCEPT !.requests = @ + 1]
              /\ caller' = [caller EXCEPT ![c] = [@ EXCEPT !.at = "trying",
                                                           !.generation = b.generation]]
      /\ UNCHANGED ticks

\* One more attempt, after which the call is at `at`.
Attempt(c, at) ==
  caller' = [caller EXCEPT ![c] = [caller[c] EXCEPT !.at = at,
                                                    !.attempts = caller[c].attempts + 1]]

\* InvokableRun returns a result, and with it the call.
AttemptPasses(c) ==
  /\ caller[c].at = "trying"
  /\ Attempt(c, "passed")
  /\ breaker' = AfterRequest(c, TRUE)
  /\ UNCHANGED ticks

\* Variant: one more retry.
RetriesOnceMore(c) == caller[c].attempts <= MaxRetry

\* attempt < w.maxRetry
Retries(c) == caller[c].attempts < MaxRetry

\* It fails, or the timeout ends it: the call sleeps and tries again, or fails.
AttemptFails(c) ==
  /\ caller[c].at = "trying"
  /\ IF Retries(c)
     THEN /\ Attempt(c, "trying")
          /\ UNCHANGED breaker
     ELSE /\ Attempt(c, "failed")
          /\ breaker' = AfterRequest(c, FALSE)
  /\ UNCHANGED ticks

\* The tool panics: the breaker counts a failure and passes the panic on, past
\* the retries, to whoever called Run.
AttemptPanics(c) ==
  /\ caller[c].at = "trying"
  /\ Attempt(c, "panicked")
  /\ breaker' = AfterRequest(c, FALSE)
  /\ UNCHANGED ticks

TicksPass ==
  /\ ticks < MaxTicks
  /\ ticks' = ticks + 1
  /\ UNCHANGED <<breaker, caller>>

-----------------------------------------------------------------------------
ToolInit ==
  /\ breaker = [state |-> "closed", generation |-> 0, requests |-> 0, failed |-> 0,
                passed |-> 0, expiry |-> CBInterval]
  /\ caller = [c \in ToolCallers |-> [at |-> "idle", attempts |-> 0, generation |-> 0]]
  /\ ticks = 0

CallStep(c) == AttemptPasses(c) \/ AttemptFails(c) \/ AttemptPanics(c)

ToolNext ==
  \/ \E c \in ToolCallers : Enter(c) \/ CallStep(c)
  \/ TicksPass

ToolSpec == ToolInit /\ [][ToolNext]_toolVars

-----------------------------------------------------------------------------
(* Properties.                                                             *)

ToolTypeOK ==
  /\ breaker \in Breaker
  /\ \A c \in ToolCallers : caller[c].attempts \in 0..MaxRetry + 1
  /\ ticks \in Nat

\* How a call ends that the breaker counts as a failure.
Failures == {"failed", "panicked"}

\* The calls of generation g that are over, or still running.
Admitted(g, ends) ==
  {c \in ToolCallers : caller[c].at \in ends /\ caller[c].generation = g}

\* A call is over after one success, one panic or MaxRetry + 1 failures, and a
\* call that was refused made no attempt: "if attempt < w.maxRetry" bounds what
\* a caller waits for, and how often an effect that was already had is had again.
AttemptsBounded ==
  \A c \in ToolCallers :
    /\ caller[c].at = "refused" => caller[c].attempts = 0
    /\ caller[c].at = "failed" => caller[c].attempts = MaxRetry + 1

\* The counts of the breaker are those of the calls of its own generation,
\* whatever calls of earlier ones end meanwhile, a panicking tool included: it opens by failures of this
\* generation only, never admits more than CBMaxRequests calls to a tool on
\* probation, and does not bear more than TripAfter failures in a row.
CountsAreTrue ==
  LET g == breaker.generation
  IN  /\ breaker.requests = Cardinality(Admitted(g, {"trying", "passed"} \cup Failures))
      /\ breaker.failed <= Cardinality(Admitted(g, Failures))
      /\ breaker.passed <= Cardinality(Admitted(g, {"passed"}))
      /\ breaker.state = "open" => breaker.requests = 0
      /\ breaker.state = "half-open" => breaker.requests <= CBMaxRequests
      /\ breaker.state = "closed" => breaker.failed <= TripAfter

\* An open breaker was opened by a call that failed, or whose tool panicked, in
\* the generation before:
\* what began earlier, and only ended in it, cannot open it.
OpensForCause ==
  breaker.state = "open" =>
    Admitted(breaker.generation - 1, Failures) # {}

ToolInv == ToolTypeOK /\ AttemptsBounded /\ CountsAreTrue /\ OpensForCause

=============================================================================
