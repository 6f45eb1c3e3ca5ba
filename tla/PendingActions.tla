--------------------------- MODULE PendingActions ---------------------------
(***************************************************************************)
(* The knowledge agent's pending actions: the ActionStore of               *)
(* internal/knowledgeagent/store.go under the requests of agent.go.        *)
(*                                                                         *)
(* A turn may propose an action (process a video, index a transcript,      *)
(* delete sources, format a text); it runs only when the user confirms it. *)
(* POST /agent/actions/:id/confirm reserves the action, runs its tool,     *)
(* posts the result in the session of the proposal, and records it; other  *)
(* requests, pruning and a restart come between any two of these.          *)
(*                                                                         *)
(* The store lives in memory and each of its methods holds one mutex.      *)
(* Messages are kept by the chat database.                                 *)
(***************************************************************************)
EXTENDS Naturals, FiniteSets, Sequences, Maps

CONSTANTS
  Ids,              \* the action ids that uuid.New may return
  None,             \* no action, no user, no session
  Turns,            \* the requests POST /agent/turn: one value per request
  Confirms,         \* the requests POST /agent/actions/:id/confirm
  Users,            \* user ids; both handlers refuse an empty one
  Sessions,         \* chat sessions
  MaxActions,       \* ActionStore.max
  RetainFor,        \* ActionStore.retainFor, in clock ticks
  LockWait,         \* longest wait, in ticks, between reading the clock and the lock
  MaxClock,         \* bound of the model: the clock stops here
  DatabaseMayFail,  \* whether a call of the chat database may return an error
  ToolsMayPanic     \* whether the tool of an action may panic

ASSUME ActionConstants ==
  /\ None \notin Ids \cup Users \cup Sessions
  /\ MaxActions \in Nat \ {0}   \* NewActionStore replaces 0 by a default
  /\ RetainFor \in Nat \ {0}
  /\ LockWait \in Nat
  /\ MaxClock \in Nat \ {0}
  /\ DatabaseMayFail \in BOOLEAN
  /\ ToolsMayPanic \in BOOLEAN

VARIABLES
  clock,     \* the wall clock
  actions,   \* ActionStore.actions
  offers,    \* every action ever added: the user and the session of its turn
  turn,      \* turn[t]: where request t is, its user, session, and action
  confirm,   \* confirm[c]: where request c is, its action, user, and outcome
  log        \* log[s]: the messages of session s

vars == <<clock, actions, offers, turn, confirm, log>>

-----------------------------------------------------------------------------
ActionStatus == {"pending", "executing", "executed", "failed"}

Action == [user : Users, status : ActionStatus, updatedAt : 1..MaxClock]

Offer == [user : Users, session : Sessions]

Turn == [at : {"idle", "open", "replying", "done", "gone"},
         user : Users \cup {None}, session : Sessions \cup {None}, id : Ids \cup {None}]

Outcome == {"none", "not_found", "forbidden", "conflict",
            "started", "ok", "error", "panic"}

Confirm == [at : {"idle", "executing", "failing", "announcing", "completing", "done", "gone"},
            id : Ids \cup {None}, user : Users \cup {None}, outcome : Outcome]

Message == [kind : {"user", "answer", "offer", "result"}, id : Ids \cup {None}]

\* Confirmation c got past Reserve: it runs or has run the tool of its action.
Started(c) == confirm[c].outcome \in {"started", "ok", "error", "panic"}

NoActions == [id \in {} |-> {}]

-----------------------------------------------------------------------------
(* The store.                                                              *)

\* Every method reads the clock before it waits for the lock.
ReadTimes == {t \in 1..clock : clock - t <= LockWait}

\* Actions that nothing touched for RetainFor, whatever their status.
Expired(as, now) == {id \in DOMAIN as : now >= as[id].updatedAt + RetainFor}

\* The sets the capacity loop may delete: the oldest by updatedAt, whatever
\* their status; among equals, the order of a Go map is arbitrary.
Evictions(as) ==
  {E \in SUBSET DOMAIN as :
     /\ \A e \in E, k \in DOMAIN as \ E : as[e].updatedAt <= as[k].updatedAt
     /\ E # {} => Cardinality(DOMAIN as \ E) = MaxActions
     /\ E = {} => Cardinality(DOMAIN as) <= MaxActions}

\* pruneLocked: the maps it may leave of as.
Pruned(as, now) ==
  LET kept == Drop(as, Expired(as, now))
  IN  {Drop(kept, E) : E \in Evictions(kept)}

\* Add, of an action whose id uuid.New returns now.
Add(id, user, session) ==
  /\ id \notin DOMAIN offers
  /\ offers' = Put(offers, id, [user |-> user, session |-> session])
  /\ \E now \in ReadTimes :
       actions' \in Pruned(Put(actions, id, [user |-> user, status |-> "pending",
                                             updatedAt |-> now]), now)

\* Variant: a late Complete or Fail puts a pruned action back.
SettleRevives(id, status) ==
  \E now \in ReadTimes :
    actions' = Put(actions, id, [user |-> offers[id].user, status |-> status,
                                 updatedAt |-> now])

\* Complete and Fail: an action pruned in the meantime stays away.
Settle(id, status) ==
  IF id \in DOMAIN actions
  THEN \E now \in ReadTimes :
         actions' = [actions EXCEPT ![id] = [@ EXCEPT !.status = status,
                                                    !.updatedAt = now]]
  ELSE UNCHANGED actions

-----------------------------------------------------------------------------
(* Messages.                                                               *)

\* saveMessage ignores the error of AddMessage.
SaveMessage(session, kind, id) ==
  \/ log' = [log EXCEPT ![session] = Append(@, [kind |-> kind, id |-> id])]
  \/ DatabaseMayFail /\ UNCHANGED log

-----------------------------------------------------------------------------
(* Turn.                                                                   *)

\* The request is validated, gets its session, and its message is saved.
TurnOpens(t, user, session) ==
  /\ turn[t].at = "idle"
  /\ turn' = [turn EXCEPT ![t] = [at |-> "open", user |-> user, session |-> session,
                                  id |-> None]]
  /\ SaveMessage(session, "user", None)
  /\ UNCHANGED <<clock, actions, offers, confirm>>

\* CreateSessionForUser failed.
TurnRefused(t) ==
  /\ DatabaseMayFail
  /\ turn[t].at = "idle"
  /\ turn' = [turn EXCEPT ![t].at = "gone"]
  /\ UNCHANGED <<clock, actions, offers, confirm, log>>

\* Answering from the knowledge base failed, or listing the sources.
TurnFails(t) ==
  /\ turn[t].at = "open"
  /\ turn' = [turn EXCEPT ![t].at = "gone"]
  /\ UNCHANGED <<clock, actions, offers, confirm, log>>

\* route found a question, or a request to list the sources.
TurnAnswers(t) ==
  /\ turn[t].at = "open"
  /\ turn' = [turn EXCEPT ![t].at = "done"]
  /\ SaveMessage(turn[t].session, "answer", None)
  /\ UNCHANGED <<clock, actions, offers, confirm>>

\* route found something to confirm: storePending.
TurnProposes(t, id) ==
  /\ turn[t].at = "open"
  /\ Add(id, turn[t].user, turn[t].session)
  /\ turn' = [turn EXCEPT ![t] = [@ EXCEPT !.at = "replying", !.id = id]]
  /\ UNCHANGED <<clock, confirm, log>>

TurnReplies(t) ==
  /\ turn[t].at = "replying"
  /\ turn' = [turn EXCEPT ![t].at = "done"]
  /\ SaveMessage(turn[t].session, "offer", turn[t].id)
  /\ UNCHANGED <<clock, actions, offers, confirm>>

-----------------------------------------------------------------------------
(* Confirm.                                                                *)

\* The ids that clients have read in the response of a turn.
Told == {turn[t].id : t \in {u \in Turns : turn[u].at = "done"}} \ {None}

\* Variant: a failed action may be tried again.
ReservableFailed(as, id) == as[id].status \in {"pending", "failed"}

\* Reserve accepts an action that nobody confirmed before.
Reservable(as, id) == as[id].status = "pending"

\* Variant: anybody may confirm an action.
BelongsToAnyone(as, id, user) == TRUE

\* Reserve accepts the user the action was proposed to.
BelongsTo(as, id, user) == as[id].user = user

\* Reserve prunes, whatever it answers.
Reserve(c, id, user) ==
  /\ confirm[c].at = "idle"
  /\ id \in Told
  /\ \E now \in ReadTimes : \E as \in Pruned(actions, now) :
       LET Answer(at, outcome) ==
             confirm' = [confirm EXCEPT ![c] = [at |-> at, id |-> id, user |-> user,
                                                outcome |-> outcome]]
       IN  \/ /\ id \notin DOMAIN as
              /\ actions' = as
              /\ Answer("done", "not_found")
           \/ /\ id \in DOMAIN as /\ ~BelongsTo(as, id, user)
              /\ actions' = as
              /\ Answer("done", "forbidden")
           \/ /\ id \in DOMAIN as /\ BelongsTo(as, id, user) /\ ~Reservable(as, id)
              /\ actions' = as
              /\ Answer("done", "conflict")
           \/ /\ id \in DOMAIN as /\ BelongsTo(as, id, user) /\ Reservable(as, id)
              /\ actions' = [as EXCEPT ![id] = [@ EXCEPT !.status = "executing",
                                                      !.updatedAt = now]]
              /\ Answer("executing", "started")
  /\ UNCHANGED <<clock, offers, turn, log>>

\* The tool of the action returns; gin recovers when it panics.
Execute(c) ==
  /\ confirm[c].at = "executing"
  /\ \/ confirm' = [confirm EXCEPT ![c] = [@ EXCEPT !.at = "announcing", !.outcome = "ok"]]
     \/ confirm' = [confirm EXCEPT ![c] = [@ EXCEPT !.at = "failing", !.outcome = "error"]]
     \/ /\ ToolsMayPanic
        /\ confirm' = [confirm EXCEPT ![c] = [@ EXCEPT !.at = "done", !.outcome = "panic"]]
  /\ UNCHANGED <<clock, actions, offers, turn, log>>

\* Variant: the error returns to the client and the action stays executing.
FailForgotten(c) ==
  /\ confirm[c].at = "failing"
  /\ confirm' = [confirm EXCEPT ![c].at = "done"]
  /\ UNCHANGED <<clock, actions, offers, turn, log>>

Fail(c) ==
  /\ confirm[c].at = "failing"
  /\ Settle(confirm[c].id, "failed")
  /\ confirm' = [confirm EXCEPT ![c].at = "done"]
  /\ UNCHANGED <<clock, offers, turn, log>>

\* The result goes to the session_id that storePending put into the input.
Announce(c) ==
  /\ confirm[c].at = "announcing"
  /\ SaveMessage(offers[confirm[c].id].session, "result", confirm[c].id)
  /\ confirm' = [confirm EXCEPT ![c].at = "completing"]
  /\ UNCHANGED <<clock, actions, offers, turn>>

Complete(c) ==
  /\ confirm[c].at = "completing"
  /\ Settle(confirm[c].id, "executed")
  /\ confirm' = [confirm EXCEPT ![c].at = "done"]
  /\ UNCHANGED <<clock, offers, turn, log>>

-----------------------------------------------------------------------------
(* The process ends and starts again: actions and requests are gone.       *)

Restart ==
  /\ actions' = NoActions
  /\ turn' = [t \in Turns |-> IF turn[t].at \in {"idle", "done"} THEN turn[t]
                              ELSE [turn[t] EXCEPT !.at = "gone"]]
  /\ confirm' = [c \in Confirms |-> IF confirm[c].at \in {"idle", "done"} THEN confirm[c]
                                    ELSE [confirm[c] EXCEPT !.at = "gone"]]
  /\ UNCHANGED <<clock, offers, log>>

Tick ==
  /\ clock < MaxClock
  /\ clock' = clock + 1
  /\ UNCHANGED <<actions, offers, turn, confirm, log>>

-----------------------------------------------------------------------------
Init ==
  /\ clock = 1
  /\ actions = NoActions
  /\ offers = NoActions
  /\ turn = [t \in Turns |-> [at |-> "idle", user |-> None, session |-> None, id |-> None]]
  /\ confirm = [c \in Confirms |->
                  [at |-> "idle", id |-> None, user |-> None, outcome |-> "none"]]
  /\ log = [s \in Sessions |-> <<>>]

TurnStep(t) ==
  \/ TurnFails(t)
  \/ TurnAnswers(t)
  \/ \E id \in Ids : TurnProposes(t, id)
  \/ TurnReplies(t)

ConfirmStep(c) == Execute(c) \/ Fail(c) \/ Announce(c) \/ Complete(c)

Next ==
  \/ \E t \in Turns :
       \/ \E user \in Users, session \in Sessions : TurnOpens(t, user, session)
       \/ TurnRefused(t)
       \/ TurnStep(t)
  \/ \E c \in Confirms :
       \/ \E id \in Ids, user \in Users : Reserve(c, id, user)
       \/ ConfirmStep(c)
  \/ Restart
  \/ Tick

Spec == Init /\ [][Next]_vars

\* A request that was accepted is served; its tools return.
FairSpec ==
  /\ Spec
  /\ \A t \in Turns : WF_vars(TurnStep(t))
  /\ \A c \in Confirms : WF_vars(ConfirmStep(c))

-----------------------------------------------------------------------------
(* Properties.                                                             *)

TypeOK ==
  /\ clock \in 1..MaxClock
  /\ DOMAIN actions \subseteq Ids /\ actions \in [DOMAIN actions -> Action]
  /\ DOMAIN offers \subseteq Ids /\ offers \in [DOMAIN offers -> Offer]
  /\ turn \in [Turns -> Turn]
  /\ confirm \in [Confirms -> Confirm]
  /\ log \in [Sessions -> Seq(Message)]

\* The tool of an action is run for one confirmation at most, however many
\* arrive, while it runs, after it failed or panicked, after the action was
\* pruned, or after a restart (TestConfirmProcessVideoExecutesOnlyOnce).
AttemptedOnce ==
  \A c, d \in Confirms :
    Started(c) /\ Started(d) /\ confirm[c].id = confirm[d].id => c = d

\* It runs only for the user to whom the turn proposed it (Reserve).
OwnerConfirms ==
  \A c \in Confirms : Started(c) => confirm[c].user = offers[confirm[c].id].user

\* A confirmation is refused as already executed only when another one has
\* really run the tool or runs it (ErrActionAlreadyExecuted), and as somebody
\* else's only when it is (ErrActionUserMismatch).
RefusalsAreHonest ==
  \A c \in Confirms :
    /\ confirm[c].outcome = "conflict" =>
         \E d \in Confirms : d # c /\ Started(d) /\ confirm[d].id = confirm[c].id
    /\ confirm[c].outcome = "forbidden" =>
         confirm[c].user # offers[confirm[c].id].user

\* What the store says of an action is what its confirmations did: none ran,
\* one is running it or panicked, one failed, one succeeded and posted its result.
StoreIsHonest ==
  \A id \in DOMAIN actions :
    LET runs == {c \in Confirms : Started(c) /\ confirm[c].id = id}
        Result == [kind |-> "result", id |-> id]
    IN  CASE actions[id].status = "pending"   -> runs = {}
          [] actions[id].status = "executing" ->
               \E c \in runs : confirm[c].at # "done" \/ confirm[c].outcome = "panic"
          [] actions[id].status = "failed"    -> \E c \in runs : confirm[c].outcome = "error"
          [] actions[id].status = "executed"  ->
               /\ \E c \in runs : confirm[c].outcome = "ok"
               /\ \/ DatabaseMayFail
                  \/ \E s \in Sessions : \E i \in DOMAIN log[s] : log[s][i] = Result

Position(kind, id, s) == {i \in DOMAIN log[s] : log[s][i] = [kind |-> kind, id |-> id]}

\* A result is posted once, in the session of the proposal, after the message
\* that proposed the action, whatever other requests write in between
\* (TestConfirmPersistsResultInActionSession).
ResultFollowsOffer ==
  \A id \in DOMAIN offers, s \in Sessions :
    \A i \in Position("result", id, s) :
      /\ s = offers[id].session
      /\ Position("result", id, s) = {i}
      /\ DatabaseMayFail \/ \E j \in Position("offer", id, s) : j < i

\* What clients, the store and the chat say of an action is what was done.
ActionsAreHonest == RefusalsAreHonest /\ StoreIsHonest /\ ResultFollowsOffer

\* The store never holds more than its capacity.
WithinCapacity == Cardinality(DOMAIN actions) <= MaxActions

Leads(from, to) ==
  \/ from = to
  \/ from = "pending" /\ to = "executing"
  \/ from = "executing" /\ to \in {"executed", "failed"}

OnlyForward ==
  \A id \in DOMAIN offers \cap DOMAIN actions' :
    id \in DOMAIN actions /\ Leads(actions[id].status, actions'[id].status)

\* What is forgotten while the process runs was not touched for RetainFor, or
\* makes room in a full store and is no newer than anything that stays.
OldestGo ==
  actions' # NoActions =>
    \A id \in DOMAIN actions \ DOMAIN actions' :
      \/ clock >= actions[id].updatedAt + RetainFor
      \/ /\ Cardinality(DOMAIN actions') = MaxActions
         /\ \A k \in DOMAIN actions' :
              actions[id].updatedAt <=
                (IF k \in DOMAIN actions THEN actions ELSE actions')[k].updatedAt

\* An action goes from pending to executing to its outcome; once forgotten it
\* stays forgotten, also when its tool returns later (Complete, Fail).  What is
\* forgotten is what pruneLocked promises to forget, although the time it judges
\* by was read before the lock was taken.
ActionsMoveForward == [][OnlyForward /\ OldestGo]_vars

\* A confirmed action does not stay executing: whatever its tool answers, the
\* store learns it, unless it forgot the action (FairSpec, no panics).
ExecutionSettles ==
  \A id \in Ids :
    (id \in DOMAIN actions /\ actions[id].status = "executing")
      ~> (id \in DOMAIN actions => actions[id].status \in {"executed", "failed"})

-----------------------------------------------------------------------------
(* The inductive invariant behind at-most-once execution.                  *)

\* Ids in the store, in a turn and in a confirmation were handed out by Add,
\* so an action added now is in none of them.
KnownIds ==
  /\ DOMAIN actions \subseteq DOMAIN offers
  /\ \A t \in Turns : turn[t].id # None => turn[t].id \in DOMAIN offers
  /\ \A c \in Confirms : confirm[c].id # None => confirm[c].id \in DOMAIN offers

\* A turn under way has its user and its session.
TurnsFilled ==
  \A t \in Turns : turn[t].at \in {"open", "replying"} =>
    turn[t].user \in Users /\ turn[t].session \in Sessions

\* The store remembers the user to whom the action was proposed.
OwnersAgree == \A id \in DOMAIN actions : actions[id].user = offers[id].user

\* A confirmation that is under way got past Reserve, one not yet made did not.
PhasesAgree ==
  \A c \in Confirms :
    /\ confirm[c].at \in {"executing", "failing", "announcing", "completing"} => Started(c)
    /\ confirm[c].at = "idle" => ~Started(c)
    /\ Started(c) => confirm[c].id \in Ids

\* What is still pending was never started.
PendingIsUntouched ==
  \A id \in DOMAIN actions, c \in Confirms :
    actions[id].status = "pending" /\ confirm[c].id = id => ~Started(c)

\* While a confirmation is under way its action is executing, or forgotten.
RunningIsExecuting ==
  \A c \in Confirms :
    confirm[c].at \in {"executing", "failing", "announcing", "completing"}
      /\ confirm[c].id \in DOMAIN actions => actions[confirm[c].id].status = "executing"

\* The conjunction that every step preserves.
ActionInv ==
  /\ TypeOK
  /\ KnownIds
  /\ TurnsFilled
  /\ OwnersAgree
  /\ PhasesAgree
  /\ PendingIsUntouched
  /\ RunningIsExecuting
  /\ OwnerConfirms
  /\ AttemptedOnce

-----------------------------------------------------------------------------
(* The abstract specification.                                             *)

\* Actions that a confirmation would still run, with the user who may confirm.
OpenOffers ==
  [id \in {x \in DOMAIN actions : actions[x].status = "pending"} |-> actions[id].user]

\* Confirmations that ran, or run, the tool of an action.
Takings ==
  {[by |-> c, id |-> confirm[c].id, user |-> confirm[c].user] :
     c \in {d \in Confirms : Started(d)}}

Offered ==
  INSTANCE ConfirmOnce WITH
    Requests <- Confirms, seen <- DOMAIN offers, open <- OpenOffers, taken <- Takings

\* Proposals and confirmations implement ConfirmOnce: pruning, restarts and
\* late outcomes only ever withdraw offers.
RefinesConfirmOnce == Offered!Spec

=============================================================================
