----------------------- MODULE PendingActions_proofs -----------------------
(***************************************************************************)
(* Proofs about pending actions, for every set of ids, users, sessions and *)
(* requests, and every capacity and retention of the store.                *)
(***************************************************************************)
EXTENDS PendingActions, MapTheorems, FiniteSetTheorems

-----------------------------------------------------------------------------
(* The store.                                                              *)

\* Maps from ids to actions, the type of ActionStore.actions.
IsActionMap(f) == DOMAIN f \subseteq Ids /\ f \in [DOMAIN f -> Action]

\* Clock readings are instants of the model.
LEMMA ReadTimesTyped ==
  ASSUME clock \in 1..MaxClock
  PROVE  ReadTimes \subseteq 1..MaxClock
BY ActionConstants DEF ReadTimes

\* pruneLocked removes some actions and changes none, and what it leaves fits.
LEMMA PrunedFacts ==
  ASSUME NEW f, NEW now, NEW as \in Pruned(f, now)
  PROVE  \E gone \in SUBSET DOMAIN f :
           /\ as = Drop(f, gone)
           /\ Cardinality(DOMAIN f \ gone) <= MaxActions
<1> DEFINE expired == Expired(f, now)
           kept == Drop(f, expired)
<1>1. PICK E \in Evictions(kept) : as = Drop(kept, E)
  BY DEF Pruned
<1>2. expired \subseteq DOMAIN f
  BY DEF Expired
<1>3. DOMAIN kept = DOMAIN f \ expired
      /\ kept = [x \in DOMAIN f \ expired |-> f[x]]
  BY DropEntries
<1>4. E \subseteq DOMAIN kept
  BY DEF Evictions
<1>5. Cardinality(DOMAIN kept \ E) <= MaxActions
  <2>1. CASE E = {}
    <3>1. DOMAIN kept \ E = DOMAIN kept
      BY <2>1
    <3> QED BY <2>1, <3>1 DEF Evictions
  <2>2. CASE E # {}
    BY <2>2, ActionConstants DEF Evictions
  <2> QED BY <2>1, <2>2
<1> HIDE DEF kept, expired
<1>6. DOMAIN kept \ E = DOMAIN f \ (expired \cup E)
  BY <1>3
<1>7. as = Drop(f, expired \cup E)
  <2>1. as = [x \in DOMAIN kept \ E |-> kept[x]]
    BY <1>1, DropEntries
  <2>2. Drop(f, expired \cup E) = [x \in DOMAIN f \ (expired \cup E) |-> f[x]]
    BY DropEntries
  <2>3. \A x \in DOMAIN kept \ E : kept[x] = f[x]
    BY <1>3
  <2> QED BY <2>1, <2>2, <2>3, <1>6
<1>8. expired \cup E \subseteq DOMAIN f
  BY <1>2, <1>3, <1>4
<1> QED BY <1>5, <1>6, <1>7, <1>8

\* What pruneLocked removes is too old at `now`, or is among the oldest of a map
\* that it cuts to MaxActions.
LEMMA PrunedOldest ==
  ASSUME NEW f, NEW now, NEW as \in Pruned(f, now)
  PROVE  /\ DOMAIN as \subseteq DOMAIN f /\ \A k \in DOMAIN as : as[k] = f[k]
         /\ \A id \in DOMAIN f \ DOMAIN as :
              \/ now >= f[id].updatedAt + RetainFor
              \/ /\ Cardinality(DOMAIN as) = MaxActions
                 /\ \A k \in DOMAIN as : f[id].updatedAt <= f[k].updatedAt
<1> DEFINE expired == Expired(f, now)
           kept == Drop(f, expired)
<1>1. PICK E \in Evictions(kept) : as = Drop(kept, E)
  BY DEF Pruned
<1>2. \A id \in expired : id \in DOMAIN f /\ now >= f[id].updatedAt + RetainFor
  BY DEF Expired
<1> HIDE DEF expired
<1>3. DOMAIN kept = DOMAIN f \ expired /\ \A k \in DOMAIN kept : kept[k] = f[k]
  BY DEF Drop, Restrict
<1> HIDE DEF kept
<1>4. DOMAIN as = DOMAIN kept \ E /\ \A k \in DOMAIN as : as[k] = kept[k]
  BY <1>1 DEF Drop, Restrict
<1>5. /\ E \subseteq DOMAIN kept
      /\ \A e \in E, k \in DOMAIN kept \ E : kept[e].updatedAt <= kept[k].updatedAt
      /\ E # {} => Cardinality(DOMAIN kept \ E) = MaxActions
  BY DEF Evictions
<1>6. ASSUME NEW id \in DOMAIN f \ DOMAIN as
      PROVE  \/ now >= f[id].updatedAt + RetainFor
             \/ /\ Cardinality(DOMAIN as) = MaxActions
                /\ \A k \in DOMAIN as : f[id].updatedAt <= f[k].updatedAt
  <2>1. CASE id \in expired
    BY <1>2, <2>1
  <2>2. CASE id \notin expired
    BY <1>3, <1>4, <1>5, <2>2
  <2> QED BY <2>1, <2>2
<1> QED BY <1>3, <1>4, <1>6

\* Removing actions leaves a map of actions.
LEMMA DropTyped ==
  ASSUME NEW f, IsActionMap(f), NEW S
  PROVE  IsActionMap(Drop(f, S))
<1>1. /\ DOMAIN Drop(f, S) = DOMAIN f \ S
      /\ Drop(f, S) = [x \in DOMAIN f \ S |-> f[x]]
  BY DropEntries
<1> QED BY <1>1 DEF IsActionMap

\* A map of actions plus one action is one.
LEMMA PutTyped ==
  ASSUME NEW f, IsActionMap(f), NEW id \in Ids, NEW a \in Action
  PROVE  IsActionMap(Put(f, id, a))
<1>1. Put(f, id, a) = [x \in DOMAIN f \cup {id} |-> IF x = id THEN a ELSE f[x]]
  BY DEF Put
<1> QED BY <1>1 DEF IsActionMap

\* Add: the new action is pending and its own user's; other actions are
\* unchanged or forgotten; the store fits.
LEMMA AddFacts ==
  ASSUME TypeOK, NEW id \in Ids, NEW user \in Users, NEW session \in Sessions,
         Add(id, user, session)
  PROVE  /\ id \notin DOMAIN offers
         /\ DOMAIN offers' = DOMAIN offers \cup {id}
         /\ offers' \in [DOMAIN offers' -> Offer]
         /\ offers'[id].user = user
         /\ \A x \in DOMAIN offers : offers'[x] = offers[x]
         /\ IsActionMap(actions')
         /\ DOMAIN actions' \subseteq DOMAIN actions \cup {id}
         /\ \A x \in DOMAIN actions' \ {id} : actions'[x] = actions[x]
         /\ id \in DOMAIN actions' =>
              actions'[id].user = user /\ actions'[id].status = "pending"
         /\ Cardinality(DOMAIN actions') <= MaxActions
<1>1. id \notin DOMAIN offers
  BY DEF Add
<1>2. /\ DOMAIN offers' = DOMAIN offers \cup {id}
      /\ offers' \in [DOMAIN offers' -> Offer]
      /\ offers'[id].user = user
      /\ \A x \in DOMAIN offers : offers'[x] = offers[x]
  <2> DEFINE offer == [user |-> user, session |-> session]
  <2>1. offers' = [x \in DOMAIN offers \cup {id} |-> IF x = id THEN offer ELSE offers[x]]
    BY DEF Add, Put
  <2>2. offer \in Offer
    BY DEF Offer
  <2> QED BY <1>1, <2>1, <2>2 DEF TypeOK
<1>3. PICK now \in ReadTimes :
        actions' \in Pruned(Put(actions, id, [user |-> user, status |-> "pending",
                                              updatedAt |-> now]), now)
  BY DEF Add
<1> DEFINE new == [user |-> user, status |-> "pending", updatedAt |-> now]
           grown == Put(actions, id, new)
<1>4. new \in Action
  BY ReadTimesTyped DEF TypeOK, Action, ActionStatus
<1>5. IsActionMap(grown)
  BY <1>4, PutTyped DEF TypeOK, IsActionMap
<1>6. /\ DOMAIN grown = DOMAIN actions \cup {id}
      /\ grown[id] = [user |-> user, status |-> "pending", updatedAt |-> now]
      /\ \A x \in DOMAIN actions \ {id} : grown[x] = actions[x]
  <2> HIDE DEF new
  <2>1. /\ DOMAIN grown = DOMAIN actions \cup {id}
        /\ grown[id] = new
        /\ \A x \in DOMAIN actions \ {id} : grown[x] = actions[x]
    BY DEF Put
  <2> QED BY <2>1 DEF new
<1>7. PICK gone \in SUBSET DOMAIN grown :
        /\ actions' = Drop(grown, gone)
        /\ Cardinality(DOMAIN grown \ gone) <= MaxActions
  BY <1>3, PrunedFacts
<1> HIDE DEF grown
<1>8. /\ DOMAIN actions' = DOMAIN grown \ gone
      /\ \A x \in DOMAIN grown \ gone : actions'[x] = grown[x]
  BY <1>7, DropEntries
<1>9. IsActionMap(actions')
  BY <1>5, <1>7, DropTyped
<1> QED BY <1>1, <1>2, <1>6, <1>7, <1>8, <1>9

\* Complete and Fail change the status of one action at most.
LEMMA SettleFacts ==
  ASSUME TypeOK, NEW id \in Ids, NEW status \in {"executed", "failed"},
         Settle(id, status)
  PROVE  /\ IsActionMap(actions')
         /\ DOMAIN actions' = DOMAIN actions
         /\ \A x \in DOMAIN actions : actions'[x].user = actions[x].user
         /\ \A x \in DOMAIN actions \ {id} : actions'[x] = actions[x]
         /\ id \in DOMAIN actions => actions'[id].status = status
<1>1. CASE id \notin DOMAIN actions
  BY <1>1 DEF Settle, TypeOK, IsActionMap
<1>2. CASE id \in DOMAIN actions
  <2>1. PICK now \in ReadTimes :
          actions' = [actions EXCEPT ![id] = [@ EXCEPT !.status = status,
                                                    !.updatedAt = now]]
    BY <1>2 DEF Settle
  <2>2. now \in 1..MaxClock
    BY ReadTimesTyped DEF TypeOK
  <2> QED BY <1>2, <2>1, <2>2 DEF TypeOK, IsActionMap, Action, ActionStatus
<1> QED BY <1>1, <1>2

\* The two kinds of answer of Reserve.
Refuses(c, id, user) ==
  \E outcome \in {"not_found", "forbidden", "conflict"} :
    confirm' = [confirm EXCEPT ![c] =
      [at |-> "done", id |-> id, user |-> user, outcome |-> outcome]]

Accepts(c, id, user) ==
  confirm' = [confirm EXCEPT ![c] =
    [at |-> "executing", id |-> id, user |-> user, outcome |-> "started"]]

\* Reserve prunes; if it accepts, the action was pending and the user's own.
LEMMA ReserveFacts ==
  ASSUME TypeOK, NEW c \in Confirms, NEW id \in Ids, NEW user \in Users,
         Reserve(c, id, user)
  PROVE  /\ IsActionMap(actions')
         /\ DOMAIN actions' \subseteq DOMAIN actions
         /\ Cardinality(DOMAIN actions') <= MaxActions
         /\ \A x \in DOMAIN actions' : actions'[x].user = actions[x].user
         /\ \A x \in DOMAIN actions' \ {id} : actions'[x] = actions[x]
         /\ \/ /\ Refuses(c, id, user)
               /\ \A x \in DOMAIN actions' : actions'[x] = actions[x]
            \/ /\ Accepts(c, id, user)
               /\ id \in DOMAIN actions'
               /\ actions[id].status = "pending"
               /\ actions[id].user = user
               /\ actions'[id].status = "executing"
<1>0. PICK now \in ReadTimes : \E as \in Pruned(actions, now) :
        \/ actions' = as /\ Refuses(c, id, user)
        \/ /\ id \in DOMAIN as /\ as[id].user = user /\ as[id].status = "pending"
           /\ actions' = [as EXCEPT ![id] = [@ EXCEPT !.status = "executing",
                                                      !.updatedAt = now]]
           /\ Accepts(c, id, user)
  BY DEF Reserve, BelongsTo, Reservable, Refuses, Accepts
<1>1. PICK as \in Pruned(actions, now) :
        \/ actions' = as /\ Refuses(c, id, user)
        \/ /\ id \in DOMAIN as /\ as[id].user = user /\ as[id].status = "pending"
           /\ actions' = [as EXCEPT ![id] = [@ EXCEPT !.status = "executing",
                                                      !.updatedAt = now]]
           /\ Accepts(c, id, user)
  BY <1>0
<1>2. PICK gone \in SUBSET DOMAIN actions :
        as = Drop(actions, gone) /\ Cardinality(DOMAIN actions \ gone) <= MaxActions
  BY PrunedFacts
<1>3. /\ DOMAIN as = DOMAIN actions \ gone
      /\ \A x \in DOMAIN actions \ gone : as[x] = actions[x]
  BY <1>2, DropEntries
<1>4. IsActionMap(as)
  BY <1>2, DropTyped DEF TypeOK, IsActionMap
<1>5. now \in 1..MaxClock
  BY ReadTimesTyped DEF TypeOK
<1>6. CASE actions' = as /\ Refuses(c, id, user)
  BY <1>2, <1>3, <1>4, <1>6
<1>7. CASE ~(actions' = as /\ Refuses(c, id, user))
  <2>1. /\ id \in DOMAIN as /\ as[id].user = user /\ as[id].status = "pending"
        /\ actions' = [as EXCEPT ![id] = [@ EXCEPT !.status = "executing",
                                                      !.updatedAt = now]]
        /\ Accepts(c, id, user)
    BY <1>1, <1>7
  <2>2. IsActionMap(actions') /\ DOMAIN actions' = DOMAIN as
    BY <1>4, <1>5, <2>1 DEF IsActionMap, Action, ActionStatus
  <2>3. /\ \A x \in DOMAIN as : actions'[x].user = as[x].user
        /\ \A x \in DOMAIN as \ {id} : actions'[x] = as[x]
        /\ actions'[id].status = "executing"
    BY <1>4, <2>1 DEF IsActionMap, Action
  <2>4. /\ DOMAIN actions' = DOMAIN actions \ gone
        /\ \A x \in DOMAIN actions' : actions'[x].user = actions[x].user
        /\ \A x \in DOMAIN actions' \ {id} : actions'[x] = actions[x]
    BY <1>3, <2>2, <2>3
  <2>5. id \in DOMAIN actions' /\ actions[id].status = "pending" /\ actions[id].user = user
    BY <1>3, <2>1, <2>2
  <2> QED BY <1>2, <2>1, <2>2, <2>3, <2>4, <2>5
<1> QED BY <1>6, <1>7

\* AddMessage appends a message to one session, or nothing.
LEMMA SaveMessageTyped ==
  ASSUME TypeOK, NEW session \in Sessions, NEW kind \in {"user", "answer", "offer", "result"},
         NEW id \in Ids \cup {None}, SaveMessage(session, kind, id)
  PROVE  log' \in [Sessions -> Seq(Message)]
<1>1. [kind |-> kind, id |-> id] \in Message
  BY DEF Message
<1>2. log[session] \in Seq(Message)
  BY DEF TypeOK
<1>3. \A q \in Seq(Message), m \in Message : Append(q, m) \in Seq(Message)
  OBVIOUS
<1>4. Append(log[session], [kind |-> kind, id |-> id]) \in Seq(Message)
  BY <1>1, <1>2, <1>3
<1> QED BY <1>4 DEF SaveMessage, TypeOK

-----------------------------------------------------------------------------
(* The invariant is inductive.                                             *)

LEMMA InvInit == Init => ActionInv
<1> SUFFICES ASSUME Init PROVE ActionInv
  OBVIOUS
<1>1. TypeOK
  <2>1. \A s \in Sessions : log[s] \in Seq(Message)
    BY DEF Init
  <2> QED BY <2>1, ActionConstants
          DEF Init, TypeOK, NoActions, Turn, Confirm, Outcome
<1>2. KnownIds /\ TurnsFilled /\ OwnersAgree /\ PhasesAgree /\ PendingIsUntouched
      /\ RunningIsExecuting
      /\ OwnerConfirms /\ AttemptedOnce
  BY DEF Init, NoActions, KnownIds, TurnsFilled, OwnersAgree, PhasesAgree, PendingIsUntouched,
         RunningIsExecuting, OwnerConfirms, AttemptedOnce, Started
<1> QED BY <1>1, <1>2 DEF ActionInv

\* A step that only moves turns, messages or the clock.
LEMMA InvTurn ==
  ASSUME ActionInv, UNCHANGED <<actions, offers, confirm>>,
         clock' \in 1..MaxClock,
         turn' \in [Turns -> Turn], TurnsFilled',
         \A t \in Turns : turn'[t].id # None => turn'[t].id \in DOMAIN offers,
         log' \in [Sessions -> Seq(Message)]
  PROVE  ActionInv'
<1>1. TypeOK'
  BY DEF ActionInv, TypeOK
<1>2. KnownIds'
  BY DEF ActionInv, KnownIds
<1>3. /\ OwnersAgree' /\ PhasesAgree' /\ PendingIsUntouched' /\ RunningIsExecuting'
      /\ OwnerConfirms' /\ AttemptedOnce'
  BY DEF ActionInv, OwnersAgree, PhasesAgree, PendingIsUntouched, RunningIsExecuting,
         OwnerConfirms, AttemptedOnce, Started
<1> QED BY <1>1, <1>2, <1>3 DEF ActionInv

LEMMA InvTurnOpens ==
  ASSUME ActionInv, NEW t \in Turns, NEW user \in Users, NEW session \in Sessions,
         TurnOpens(t, user, session)
  PROVE  ActionInv'
<1>1. /\ turn' \in [Turns -> Turn]
      /\ TurnsFilled'
      /\ \A u \in Turns : turn'[u].id # None => turn'[u].id \in DOMAIN offers
  BY DEF ActionInv, TypeOK, KnownIds, TurnsFilled, TurnOpens, Turn
<1>2. log' \in [Sessions -> Seq(Message)]
  BY SaveMessageTyped DEF ActionInv, TurnOpens
<1> QED BY <1>1, <1>2, InvTurn DEF ActionInv, TypeOK, TurnOpens

LEMMA InvTurnEnds ==
  ASSUME ActionInv, NEW t \in Turns,
         TurnRefused(t) \/ TurnFails(t) \/ TurnAnswers(t) \/ TurnReplies(t)
  PROVE  ActionInv'
<1> USE DEF TurnRefused, TurnFails, TurnAnswers, TurnReplies
<1>1. PICK at \in {"gone", "done"} : turn' = [turn EXCEPT ![t].at = at]
  OBVIOUS
<1>2. /\ turn' \in [Turns -> Turn]
      /\ TurnsFilled'
      /\ \A u \in Turns : turn'[u].id # None => turn'[u].id \in DOMAIN offers
  <2> HIDE DEF TurnRefused, TurnFails, TurnAnswers, TurnReplies
  <2> QED BY <1>1 DEF ActionInv, TypeOK, KnownIds, TurnsFilled, Turn
<1>3. log' \in [Sessions -> Seq(Message)]
  <2>1. CASE TurnRefused(t) \/ TurnFails(t)
    BY <2>1 DEF ActionInv, TypeOK
  <2>2. CASE TurnAnswers(t) \/ TurnReplies(t)
    <3>1. turn[t].session \in Sessions /\ turn[t].id \in Ids \cup {None}
      BY <2>2 DEF ActionInv, TypeOK, TurnsFilled, Turn
    <3>2. SaveMessage(turn[t].session, "answer", None)
          \/ SaveMessage(turn[t].session, "offer", turn[t].id)
      BY <2>2
    <3> QED BY <3>1, <3>2, SaveMessageTyped DEF ActionInv
  <2> QED BY <2>1, <2>2
<1>4. UNCHANGED <<clock, actions, offers, confirm>>
  OBVIOUS
<1> QED BY <1>2, <1>3, <1>4, InvTurn DEF ActionInv, TypeOK

LEMMA InvTurnProposes ==
  ASSUME ActionInv, NEW t \in Turns, NEW id \in Ids, TurnProposes(t, id)
  PROVE  ActionInv'
<1>1. turn[t].user \in Users /\ turn[t].session \in Sessions
  BY DEF ActionInv, TurnsFilled, TurnProposes
<1>2. Add(id, turn[t].user, turn[t].session)
  BY DEF TurnProposes
<1>3. TypeOK
  BY DEF ActionInv
<1>4. /\ id \notin DOMAIN offers
      /\ DOMAIN offers' = DOMAIN offers \cup {id}
      /\ offers' \in [DOMAIN offers' -> Offer]
      /\ offers'[id].user = turn[t].user
      /\ \A x \in DOMAIN offers : offers'[x] = offers[x]
      /\ IsActionMap(actions')
      /\ DOMAIN actions' \subseteq DOMAIN actions \cup {id}
      /\ \A x \in DOMAIN actions' \ {id} : actions'[x] = actions[x]
      /\ id \in DOMAIN actions' =>
           actions'[id].user = turn[t].user /\ actions'[id].status = "pending"
  BY <1>1, <1>2, <1>3, AddFacts
<1>5. turn' = [turn EXCEPT ![t] = [@ EXCEPT !.at = "replying", !.id = id]]
      /\ UNCHANGED <<clock, confirm, log>>
  BY DEF TurnProposes
<1>6. turn' \in [Turns -> Turn] /\ TurnsFilled'
  BY <1>1, <1>3, <1>5 DEF TypeOK, Turn, TurnsFilled, ActionInv
<1>7. TypeOK'
  BY <1>3, <1>4, <1>5, <1>6 DEF TypeOK, IsActionMap
<1>8. KnownIds'
  <2>1. DOMAIN actions' \subseteq DOMAIN offers'
    BY <1>4 DEF ActionInv, KnownIds
  <2>2. \A u \in Turns : turn'[u].id # None => turn'[u].id \in DOMAIN offers'
    BY <1>3, <1>4, <1>5 DEF ActionInv, KnownIds, TypeOK, Turn
  <2>3. \A c \in Confirms : confirm'[c].id # None => confirm'[c].id \in DOMAIN offers'
    BY <1>4, <1>5 DEF ActionInv, KnownIds
  <2> QED BY <2>1, <2>2, <2>3 DEF KnownIds
<1>9. \A c \in Confirms : (Started(c))' = Started(c)
  BY <1>5 DEF Started
<1>10. OwnersAgree'
  BY <1>4 DEF ActionInv, OwnersAgree, KnownIds
<1>11. PhasesAgree' /\ AttemptedOnce'
  BY <1>5, <1>9 DEF ActionInv, PhasesAgree, AttemptedOnce
<1>12. \A c \in Confirms : Started(c) => confirm[c].id \in DOMAIN offers
  BY ActionConstants DEF ActionInv, PhasesAgree, KnownIds
<1>13. PendingIsUntouched'
  BY <1>4, <1>5, <1>9, <1>12 DEF ActionInv, PendingIsUntouched
<1>14. OwnerConfirms'
  BY <1>4, <1>5, <1>9, <1>12 DEF ActionInv, OwnerConfirms
<1>15. RunningIsExecuting'
  <2>1. \A c \in Confirms :
          confirm[c].at \in {"executing", "failing", "announcing", "completing"} =>
            confirm[c].id # id
    BY <1>4, <1>12 DEF ActionInv, PhasesAgree
  <2> QED BY <1>4, <1>5, <2>1 DEF ActionInv, RunningIsExecuting
<1> QED BY <1>6, <1>7, <1>8, <1>10, <1>11, <1>13, <1>14, <1>15 DEF ActionInv

\* A confirmation is refused, or it reserves its action.
LEMMA InvReserve ==
  ASSUME ActionInv, NEW c \in Confirms, NEW id \in Ids, NEW user \in Users,
         Reserve(c, id, user)
  PROVE  ActionInv'
<1> DEFINE Taken == Accepts(c, id, user) /\ id \in DOMAIN actions'
                      /\ actions[id].status = "pending" /\ actions[id].user = user
                      /\ actions'[id].status = "executing"
           Same == \A x \in DOMAIN actions' : actions'[x] = actions[x]
<1>1. TypeOK
  BY DEF ActionInv
<1>2. /\ IsActionMap(actions')
      /\ DOMAIN actions' \subseteq DOMAIN actions
      /\ \A x \in DOMAIN actions' : actions'[x].user = actions[x].user
      /\ \A x \in DOMAIN actions' \ {id} : actions'[x] = actions[x]
      /\ (Refuses(c, id, user) /\ Same) \/ Taken
  BY <1>1, ReserveFacts
<1>3. UNCHANGED <<clock, offers, turn, log>> /\ confirm[c].at = "idle" /\ id \in Told
  BY DEF Reserve
<1>4. id \in DOMAIN offers
  BY <1>3, ActionConstants DEF ActionInv, KnownIds, Told
<1>5. PICK at \in {"done", "executing"}, outcome \in Outcome :
        /\ confirm' = [confirm EXCEPT ![c] =
             [at |-> at, id |-> id, user |-> user, outcome |-> outcome]]
        /\ at = "executing" <=> outcome = "started"
        /\ outcome \notin {"ok", "error", "panic"}
        /\ outcome = "started" => Taken
        /\ outcome # "started" => Same
  <2>1. CASE Refuses(c, id, user) /\ Same
    BY <2>1 DEF Refuses, Outcome
  <2>2. CASE Taken
    BY <2>2 DEF Accepts, Outcome
  <2> QED BY <1>2, <2>1, <2>2
<1>6. /\ confirm'[c].id = id /\ confirm'[c].at = at /\ confirm'[c].user = user
      /\ confirm'[c].outcome = outcome
      /\ \A d \in Confirms \ {c} : confirm'[d] = confirm[d]
  BY <1>1, <1>5 DEF TypeOK
<1>7. (Started(c))' <=> outcome = "started"
  BY <1>5, <1>6 DEF Started
<1>8. \A d \in Confirms \ {c} : (Started(d))' = Started(d)
  BY <1>6 DEF Started
<1>9. ~Started(c)
  BY <1>3 DEF ActionInv, PhasesAgree
<1>10. TypeOK'
  <2>1. confirm' \in [Confirms -> Confirm]
    BY <1>1, <1>5 DEF TypeOK, Confirm
  <2> QED BY <1>1, <1>2, <1>3, <2>1 DEF TypeOK, IsActionMap
<1>11. KnownIds' /\ TurnsFilled'
  <2>1. \A d \in Confirms : confirm'[d].id # None => confirm'[d].id \in DOMAIN offers'
    BY <1>3, <1>4, <1>6 DEF ActionInv, KnownIds
  <2> QED BY <1>2, <1>3, <2>1 DEF ActionInv, KnownIds, TurnsFilled
<1>12. OwnersAgree'
  BY <1>2, <1>3 DEF ActionInv, OwnersAgree
<1>13. PhasesAgree'
  BY <1>5, <1>6, <1>7, <1>8 DEF ActionInv, PhasesAgree
<1>14. PendingIsUntouched'
  <2> SUFFICES ASSUME NEW x \in DOMAIN actions', NEW d \in Confirms,
                      actions'[x].status = "pending", confirm'[d].id = x
               PROVE  ~(Started(d))'
    BY DEF PendingIsUntouched
  <2>1. CASE d = c
    BY <1>5, <1>6, <1>7, <2>1
  <2>2. CASE d # c
    <3>1. actions[x].status = "pending" /\ x \in DOMAIN actions
      BY <1>2, <1>5
    <3> QED BY <1>6, <1>8, <2>2, <3>1 DEF ActionInv, PendingIsUntouched
  <2> QED BY <2>1, <2>2
<1>15. OwnerConfirms'
  <2>1. outcome = "started" => user = offers'[id].user
    BY <1>2, <1>3, <1>5 DEF ActionInv, OwnersAgree
  <2> QED BY <1>3, <1>6, <1>7, <1>8, <2>1 DEF ActionInv, OwnerConfirms
<1>16. AttemptedOnce'
  <2>1. \A d \in Confirms \ {c} : outcome = "started" /\ Started(d) => confirm[d].id # id
    BY <1>2, <1>5 DEF ActionInv, PendingIsUntouched
  <2> QED BY <1>6, <1>7, <1>8, <2>1 DEF ActionInv, AttemptedOnce
<1>17. RunningIsExecuting'
  <2> SUFFICES ASSUME NEW d \in Confirms, confirm'[d].id \in DOMAIN actions',
                      confirm'[d].at \in {"executing", "failing", "announcing", "completing"}
               PROVE  actions'[confirm'[d].id].status = "executing"
    BY DEF RunningIsExecuting
  <2>1. CASE d = c
    BY <1>5, <1>6, <2>1
  <2>2. CASE d # c
    <3>1. Started(d) /\ actions[confirm[d].id].status = "executing"
      BY <1>2, <1>6, <2>2 DEF ActionInv, PhasesAgree, RunningIsExecuting
    <3>2. outcome = "started" => confirm[d].id # id
      BY <1>2, <1>5, <2>2, <3>1 DEF ActionInv, PendingIsUntouched
    <3> QED BY <1>2, <1>5, <1>6, <2>2, <3>1, <3>2
  <2> QED BY <2>1, <2>2
<1> QED BY <1>10, <1>11, <1>12, <1>13, <1>14, <1>15, <1>16, <1>17 DEF ActionInv

\* The confirmation of an action that it started moves on.
LEMMA InvStarted ==
  ASSUME ActionInv, NEW c \in Confirms, Started(c),
         NEW at \in {"executing", "failing", "announcing", "completing", "done", "gone"},
         NEW outcome \in {"started", "ok", "error", "panic"},
         confirm' = [confirm EXCEPT ![c] = [@ EXCEPT !.at = at, !.outcome = outcome]],
         IsActionMap(actions'), DOMAIN actions' = DOMAIN actions,
         \A x \in DOMAIN actions : actions'[x].user = actions[x].user,
         \A x \in DOMAIN actions : actions'[x].status = "pending" => actions[x].status = "pending",
         \A x \in DOMAIN actions \ {confirm[c].id} : actions'[x] = actions[x],
         at \notin {"done", "gone"} =>
           UNCHANGED actions
             /\ confirm[c].at \in {"executing", "failing", "announcing", "completing"},
         log' \in [Sessions -> Seq(Message)],
         UNCHANGED <<clock, offers, turn>>
  PROVE  ActionInv'
<1>1. /\ confirm'[c].id = confirm[c].id /\ confirm'[c].at = at
      /\ confirm'[c].user = confirm[c].user /\ confirm'[c].outcome = outcome
      /\ \A d \in Confirms \ {c} : confirm'[d] = confirm[d]
      /\ confirm' \in [Confirms -> Confirm]
  <2> DEFINE new == [confirm[c] EXCEPT !.at = at, !.outcome = outcome]
  <2>1. confirm \in [Confirms -> Confirm] /\ confirm[c] \in Confirm
    BY DEF ActionInv, TypeOK
  <2>2. new \in Confirm
    BY <2>1 DEF Confirm, Outcome
  <2>3. /\ new.at = at /\ new.outcome = outcome
        /\ new.id = confirm[c].id /\ new.user = confirm[c].user
    BY <2>1 DEF Confirm
  <2>4. confirm' = [confirm EXCEPT ![c] = new]
    OBVIOUS
  <2> HIDE DEF new
  <2>5. confirm'[c] = new /\ \A d \in Confirms \ {c} : confirm'[d] = confirm[d]
    BY <2>1, <2>4
  <2>6. confirm' \in [Confirms -> Confirm]
    BY <2>1, <2>2, <2>4
  <2> QED BY <2>3, <2>5, <2>6
<1>2. \A d \in Confirms : (Started(d))' = Started(d)
  BY <1>1 DEF Started
<1>3. \A d \in Confirms : confirm'[d].id = confirm[d].id /\ confirm'[d].user = confirm[d].user
  BY <1>1
<1>4. TypeOK' /\ KnownIds' /\ TurnsFilled'
  BY <1>1, <1>3 DEF ActionInv, TypeOK, IsActionMap, KnownIds, TurnsFilled
<1>5. OwnersAgree' /\ OwnerConfirms' /\ AttemptedOnce'
  BY <1>2, <1>3 DEF ActionInv, OwnersAgree, OwnerConfirms, AttemptedOnce
<1>6. PhasesAgree'
  BY <1>1, <1>2, <1>3 DEF ActionInv, PhasesAgree
<1>7. PendingIsUntouched'
  BY <1>2, <1>3 DEF ActionInv, PendingIsUntouched
<1>8. RunningIsExecuting'
  <2> SUFFICES ASSUME NEW d \in Confirms, confirm'[d].id \in DOMAIN actions',
                      confirm'[d].at \in {"executing", "failing", "announcing", "completing"}
               PROVE  actions'[confirm'[d].id].status = "executing"
    BY DEF RunningIsExecuting
  <2>1. CASE d = c
    BY <1>1, <1>3, <2>1 DEF ActionInv, RunningIsExecuting
  <2>2. CASE d # c
    <3>1. Started(d) /\ actions[confirm[d].id].status = "executing"
      BY <1>1, <2>2 DEF ActionInv, PhasesAgree, RunningIsExecuting
    <3>2. confirm[d].id # confirm[c].id
      BY <2>2, <3>1 DEF ActionInv, AttemptedOnce
    <3> QED BY <1>1, <1>3, <2>2, <3>1, <3>2
  <2> QED BY <2>1, <2>2
<1> QED BY <1>4, <1>5, <1>6, <1>7, <1>8 DEF ActionInv

LEMMA InvConfirmStep ==
  ASSUME ActionInv, NEW c \in Confirms, ConfirmStep(c)
  PROVE  ActionInv'
<1>1. /\ TypeOK /\ Started(c)
      /\ confirm[c].id \in Ids /\ confirm[c].id \in DOMAIN offers
      /\ confirm[c].at \in {"executing", "failing", "announcing", "completing"}
      /\ confirm[c] \in Confirm
  BY ActionConstants
     DEF ActionInv, TypeOK, PhasesAgree, KnownIds, ConfirmStep, Execute, Fail, Announce, Complete
<1>2. IsActionMap(actions) /\ log \in [Sessions -> Seq(Message)]
  BY <1>1 DEF TypeOK, IsActionMap
<1>3. CASE Execute(c)
  <2>1. /\ UNCHANGED <<clock, actions, offers, turn, log>>
        /\ \E at \in {"announcing", "failing", "done"}, outcome \in {"ok", "error", "panic"} :
             confirm' = [confirm EXCEPT ![c] = [@ EXCEPT !.at = at, !.outcome = outcome]]
    BY <1>3 DEF Execute
  <2> QED BY <1>1, <1>2, <2>1, InvStarted
<1>4. \A at : confirm' = [confirm EXCEPT ![c].at = at] =>
        \E outcome \in {"started", "ok", "error", "panic"} :
          confirm' = [confirm EXCEPT ![c] = [@ EXCEPT !.at = at, !.outcome = outcome]]
  <2> SUFFICES ASSUME NEW at, confirm' = [confirm EXCEPT ![c].at = at]
               PROVE  confirm' = [confirm EXCEPT ![c] =
                                    [@ EXCEPT !.at = at, !.outcome = confirm[c].outcome]]
    BY <1>1 DEF Started
  <2> QED BY <1>1 DEF TypeOK, Confirm
<1>5. CASE Fail(c)
  <2>1. Settle(confirm[c].id, "failed") /\ UNCHANGED <<clock, offers, turn, log>>
        /\ confirm' = [confirm EXCEPT ![c].at = "done"]
    BY <1>5 DEF Fail
  <2>2. /\ IsActionMap(actions') /\ DOMAIN actions' = DOMAIN actions
        /\ \A x \in DOMAIN actions : actions'[x].user = actions[x].user
        /\ \A x \in DOMAIN actions \ {confirm[c].id} : actions'[x] = actions[x]
        /\ confirm[c].id \in DOMAIN actions => actions'[confirm[c].id].status = "failed"
    BY <1>1, <2>1, SettleFacts
  <2>3. PICK outcome \in {"started", "ok", "error", "panic"} :
          confirm' = [confirm EXCEPT ![c] = [@ EXCEPT !.at = "done", !.outcome = outcome]]
    BY <1>4, <2>1
  <2>4. \A x \in DOMAIN actions :
          actions'[x].status = "pending" => actions[x].status = "pending"
    BY <2>2
  <2> QED BY <1>1, <1>2, <2>1, <2>2, <2>3, <2>4, InvStarted
<1>6. CASE Announce(c)
  <2>1. SaveMessage(offers[confirm[c].id].session, "result", confirm[c].id)
        /\ UNCHANGED <<clock, actions, offers, turn>>
        /\ confirm' = [confirm EXCEPT ![c].at = "completing"]
    BY <1>6 DEF Announce
  <2>2. log' \in [Sessions -> Seq(Message)]
    BY <1>1, <2>1, SaveMessageTyped DEF TypeOK, Offer
  <2>3. PICK outcome \in {"started", "ok", "error", "panic"} :
          confirm' = [confirm EXCEPT ![c] = [@ EXCEPT !.at = "completing", !.outcome = outcome]]
    BY <1>4, <2>1
  <2> QED BY <1>1, <1>2, <2>1, <2>2, <2>3, InvStarted
<1>7. CASE Complete(c)
  <2>1. Settle(confirm[c].id, "executed") /\ UNCHANGED <<clock, offers, turn, log>>
        /\ confirm' = [confirm EXCEPT ![c].at = "done"]
    BY <1>7 DEF Complete
  <2>2. /\ IsActionMap(actions') /\ DOMAIN actions' = DOMAIN actions
        /\ \A x \in DOMAIN actions : actions'[x].user = actions[x].user
        /\ \A x \in DOMAIN actions \ {confirm[c].id} : actions'[x] = actions[x]
        /\ confirm[c].id \in DOMAIN actions => actions'[confirm[c].id].status = "executed"
    BY <1>1, <2>1, SettleFacts
  <2>3. PICK outcome \in {"started", "ok", "error", "panic"} :
          confirm' = [confirm EXCEPT ![c] = [@ EXCEPT !.at = "done", !.outcome = outcome]]
    BY <1>4, <2>1
  <2>4. \A x \in DOMAIN actions :
          actions'[x].status = "pending" => actions[x].status = "pending"
    BY <2>2
  <2> QED BY <1>1, <1>2, <2>1, <2>2, <2>3, <2>4, InvStarted
<1> QED BY <1>3, <1>5, <1>6, <1>7 DEF ConfirmStep

\* The store is empty after a restart; what was started stays started.
LEMMA InvRestart ==
  ASSUME ActionInv, Restart
  PROVE  ActionInv'
<1>1. /\ DOMAIN actions' = {} /\ actions' \in [DOMAIN actions' -> Action]
      /\ UNCHANGED <<clock, offers, log>>
  BY DEF Restart, NoActions
<1>2. /\ confirm' \in [Confirms -> Confirm]
      /\ \A c \in Confirms : /\ confirm'[c].id = confirm[c].id
                             /\ confirm'[c].user = confirm[c].user
                             /\ confirm'[c].outcome = confirm[c].outcome
                             /\ confirm'[c].at \in {confirm[c].at, "gone"}
                             /\ confirm'[c].at \in {"idle", "done", "gone"}
  <2> DEFINE New(c) == IF confirm[c].at \in {"idle", "done"} THEN confirm[c]
                       ELSE [confirm[c] EXCEPT !.at = "gone"]
  <2>1. confirm' = [c \in Confirms |-> New(c)]
    BY DEF Restart
  <2>2. \A c \in Confirms : /\ New(c) \in Confirm
                            /\ New(c).id = confirm[c].id
                            /\ New(c).user = confirm[c].user
                            /\ New(c).outcome = confirm[c].outcome
                            /\ New(c).at \in {confirm[c].at, "gone"}
                            /\ New(c).at \in {"idle", "done", "gone"}
    BY DEF ActionInv, TypeOK, Confirm
  <2> HIDE DEF New
  <2> QED BY <2>1, <2>2
<1>3. /\ turn' \in [Turns -> Turn]
      /\ \A t \in Turns : turn'[t].id = turn[t].id /\ turn'[t].at \notin {"open", "replying"}
  <2> DEFINE New(t) == IF turn[t].at \in {"idle", "done"} THEN turn[t]
                       ELSE [turn[t] EXCEPT !.at = "gone"]
  <2>1. turn' = [t \in Turns |-> New(t)]
    BY DEF Restart
  <2>2. \A t \in Turns : /\ New(t) \in Turn
                         /\ New(t).id = turn[t].id
                         /\ New(t).at \notin {"open", "replying"}
    BY DEF ActionInv, TypeOK, Turn
  <2> HIDE DEF New
  <2> QED BY <2>1, <2>2
<1>4. \A c \in Confirms : (Started(c))' = Started(c)
  BY <1>2 DEF Started
<1>5. TypeOK' /\ KnownIds' /\ TurnsFilled' /\ OwnersAgree' /\ PendingIsUntouched'
  BY <1>1, <1>2, <1>3 DEF ActionInv, TypeOK, KnownIds, TurnsFilled, OwnersAgree,
                          PendingIsUntouched
<1>6. PhasesAgree' /\ RunningIsExecuting' /\ OwnerConfirms' /\ AttemptedOnce'
  BY <1>1, <1>2, <1>4 DEF ActionInv, PhasesAgree, RunningIsExecuting, OwnerConfirms, AttemptedOnce
<1> QED BY <1>5, <1>6 DEF ActionInv

LEMMA InvTick ==
  ASSUME ActionInv, Tick
  PROVE  ActionInv'
<1>1. clock' \in 1..MaxClock
  BY ActionConstants DEF ActionInv, TypeOK, Tick
<1>2. UNCHANGED <<actions, offers, turn, confirm, log>> /\ TurnsFilled'
  BY DEF Tick, ActionInv, TurnsFilled
<1> QED BY <1>1, <1>2, InvTurn DEF ActionInv, TypeOK, KnownIds

LEMMA InvNext == ActionInv /\ [Next]_vars => ActionInv'
<1> SUFFICES ASSUME ActionInv, [Next]_vars PROVE ActionInv'
  OBVIOUS
<1>1. ASSUME NEW t \in Turns, NEW user \in Users, NEW session \in Sessions,
             TurnOpens(t, user, session)
      PROVE  ActionInv'
  BY <1>1, InvTurnOpens
<1>2. ASSUME NEW t \in Turns, TurnRefused(t) \/ TurnStep(t) PROVE ActionInv'
  BY <1>2, InvTurnEnds, InvTurnProposes DEF TurnStep
<1>3. ASSUME NEW c \in Confirms, NEW id \in Ids, NEW user \in Users, Reserve(c, id, user)
      PROVE  ActionInv'
  BY <1>3, InvReserve
<1>4. ASSUME NEW c \in Confirms, ConfirmStep(c) PROVE ActionInv'
  BY <1>4, InvConfirmStep
<1>5. CASE Restart
  BY <1>5, InvRestart
<1>6. CASE Tick
  BY <1>6, InvTick
<1>7. CASE UNCHANGED vars
  <2>1. UNCHANGED <<clock, actions, offers, turn, confirm, log>> /\ TurnsFilled'
    BY <1>7 DEF vars, ActionInv, TurnsFilled
  <2> QED BY <2>1, InvTurn DEF ActionInv, TypeOK, KnownIds
<1> QED BY <1>1, <1>2, <1>3, <1>4, <1>5, <1>6, <1>7 DEF Next

\* The invariant holds throughout.
THEOREM ActionInvariant == Spec => []ActionInv
BY InvInit, InvNext, PTL DEF Spec

\* The state has its types (storedAction, TurnRequest, ConfirmRequest).
THEOREM ActionTypes == Spec => []TypeOK
<1>1. ActionInv => TypeOK
  BY DEF ActionInv
<1> QED BY <1>1, ActionInvariant, PTL

\* The tool of an action is run for one confirmation at most (Reserve), for
\* any number of users, requests and actions, with pruning and restarts.
THEOREM ExecutedOnce == Spec => []AttemptedOnce
<1>1. ActionInv => AttemptedOnce
  BY DEF ActionInv
<1> QED BY <1>1, ActionInvariant, PTL

\* It is run only for the user to whom it was proposed (Reserve).
THEOREM ExecutedForOwner == Spec => []OwnerConfirms
<1>1. ActionInv => OwnerConfirms
  BY DEF ActionInv
<1> QED BY <1>1, ActionInvariant, PTL

-----------------------------------------------------------------------------
(* The capacity.                                                           *)

LEMMA CapacityNext ==
  ASSUME ActionInv, WithinCapacity, [Next]_vars
  PROVE  WithinCapacity'
<1>1. TypeOK
  BY DEF ActionInv
<1>2. ASSUME NEW t \in Turns, NEW id \in Ids, TurnProposes(t, id) PROVE WithinCapacity'
  <2>1. turn[t].user \in Users /\ turn[t].session \in Sessions
        /\ Add(id, turn[t].user, turn[t].session)
    BY <1>2 DEF ActionInv, TurnsFilled, TurnProposes
  <2> QED BY <1>1, <2>1, AddFacts DEF WithinCapacity
<1>3. ASSUME NEW c \in Confirms, NEW id \in Ids, NEW user \in Users, Reserve(c, id, user)
      PROVE  WithinCapacity'
  BY <1>1, <1>3, ReserveFacts DEF WithinCapacity
<1>4. ASSUME NEW c \in Confirms, ConfirmStep(c) PROVE WithinCapacity'
  <2>1. confirm[c].at \in {"executing", "failing", "announcing", "completing"}
    BY <1>4 DEF ConfirmStep, Execute, Fail, Announce, Complete
  <2>2. confirm[c].id \in Ids
    BY <2>1 DEF ActionInv, PhasesAgree
  <2>3. UNCHANGED actions \/ Settle(confirm[c].id, "failed")
                          \/ Settle(confirm[c].id, "executed")
    BY <1>4 DEF ConfirmStep, Execute, Fail, Announce, Complete
  <2>4. DOMAIN actions' = DOMAIN actions
    BY <1>1, <2>2, <2>3, SettleFacts
  <2> QED BY <2>4 DEF WithinCapacity
<1>5. CASE Restart
  <2>1. DOMAIN actions' = {}
    BY <1>5 DEF Restart, NoActions
  <2> QED BY <2>1, FS_EmptySet, ActionConstants DEF WithinCapacity
<1>6. ASSUME UNCHANGED actions PROVE WithinCapacity'
  BY <1>6 DEF WithinCapacity
<1>7. ASSUME NEW t \in Turns,
             \/ TurnRefused(t) \/ TurnFails(t) \/ TurnAnswers(t) \/ TurnReplies(t)
             \/ \E user \in Users, session \in Sessions : TurnOpens(t, user, session)
      PROVE  UNCHANGED actions
  BY <1>7 DEF TurnOpens, TurnRefused, TurnFails, TurnAnswers, TurnReplies
<1>8. Tick \/ UNCHANGED vars => UNCHANGED actions
  BY DEF Tick, vars
<1> QED BY <1>2, <1>3, <1>4, <1>5, <1>6, <1>7, <1>8 DEF Next, TurnStep

\* The store keeps to its capacity (pruneLocked, called by Add and Reserve).
THEOREM CapacityKept == Spec => []WithinCapacity
<1>1. Init => WithinCapacity
  <2> SUFFICES ASSUME Init PROVE WithinCapacity
    OBVIOUS
  <2>1. DOMAIN actions = {}
    BY DEF Init, NoActions
  <2> QED BY <2>1, FS_EmptySet, ActionConstants DEF WithinCapacity
<1>2. ActionInv /\ WithinCapacity /\ [Next]_vars => WithinCapacity'
  BY CapacityNext
<1> QED BY <1>1, <1>2, ActionInvariant, PTL DEF Spec

-----------------------------------------------------------------------------
(* Actions move forward.                                                   *)

LEMMA ForwardNext ==
  ASSUME ActionInv, [Next]_vars
  PROVE  OnlyForward
<1>1. /\ TypeOK /\ DOMAIN actions \subseteq DOMAIN offers
      /\ \A x \in DOMAIN actions : actions[x].status \in ActionStatus
  BY DEF ActionInv, TypeOK, KnownIds, Action
<1>2. ASSUME NEW t \in Turns, NEW id \in Ids, TurnProposes(t, id) PROVE OnlyForward
  <2>1. turn[t].user \in Users /\ turn[t].session \in Sessions
        /\ Add(id, turn[t].user, turn[t].session)
    BY <1>2 DEF ActionInv, TurnsFilled, TurnProposes
  <2>2. /\ id \notin DOMAIN offers
        /\ DOMAIN actions' \subseteq DOMAIN actions \cup {id}
        /\ \A x \in DOMAIN actions' \ {id} : actions'[x] = actions[x]
    BY <1>1, <2>1, AddFacts
  <2> QED BY <1>1, <2>2 DEF OnlyForward, Leads
<1>3. ASSUME NEW c \in Confirms, NEW id \in Ids, NEW user \in Users, Reserve(c, id, user)
      PROVE  OnlyForward
  <2>1. /\ DOMAIN actions' \subseteq DOMAIN actions
        /\ \A x \in DOMAIN actions' \ {id} : actions'[x] = actions[x]
        /\ \/ \A x \in DOMAIN actions' : actions'[x] = actions[x]
           \/ /\ actions[id].status = "pending"
              /\ actions'[id].status = "executing"
    BY <1>1, <1>3, ReserveFacts
  <2> QED BY <1>1, <2>1 DEF OnlyForward, Leads
<1>4. ASSUME NEW c \in Confirms, ConfirmStep(c) PROVE OnlyForward
  <2>1. CASE UNCHANGED actions
    BY <1>1, <2>1 DEF OnlyForward, Leads
  <2>2. ASSUME NEW status \in {"failed", "executed"}, Settle(confirm[c].id, status),
               confirm[c].at \in {"failing", "completing"}
        PROVE  OnlyForward
    <3>1. confirm[c].id \in Ids
      BY <2>2 DEF ActionInv, PhasesAgree
    <3>2. confirm[c].id \in DOMAIN actions => actions[confirm[c].id].status = "executing"
      BY <2>2 DEF ActionInv, RunningIsExecuting
    <3>3. /\ DOMAIN actions' = DOMAIN actions
          /\ \A x \in DOMAIN actions \ {confirm[c].id} : actions'[x] = actions[x]
          /\ confirm[c].id \in DOMAIN actions => actions'[confirm[c].id].status = status
      BY <1>1, <2>2, <3>1, SettleFacts
    <3> QED BY <1>1, <3>2, <3>3 DEF OnlyForward, Leads
  <2>3. \/ UNCHANGED actions
        \/ \E status \in {"failed", "executed"} :
             Settle(confirm[c].id, status) /\ confirm[c].at \in {"failing", "completing"}
    BY <1>4 DEF ConfirmStep, Execute, Fail, Announce, Complete
  <2> QED BY <2>1, <2>2, <2>3
<1>5. CASE Restart
  BY <1>5 DEF Restart, NoActions, OnlyForward
<1>6. ASSUME UNCHANGED actions PROVE OnlyForward
  BY <1>1, <1>6 DEF OnlyForward, Leads
<1>7. ASSUME NEW t \in Turns,
             \/ TurnRefused(t) \/ TurnFails(t) \/ TurnAnswers(t) \/ TurnReplies(t)
             \/ \E user \in Users, session \in Sessions : TurnOpens(t, user, session)
      PROVE  UNCHANGED actions
  BY <1>7 DEF TurnOpens, TurnRefused, TurnFails, TurnAnswers, TurnReplies
<1>8. Tick \/ UNCHANGED vars => UNCHANGED actions
  BY DEF Tick, vars
<1> QED BY <1>2, <1>3, <1>4, <1>5, <1>6, <1>7, <1>8 DEF Next, TurnStep

\* A step forgets what pruneLocked forgets, and nothing else until a restart.
LEMMA OldestNext ==
  ASSUME ActionInv, [Next]_vars
  PROVE  OldestGo
<1>1. /\ TypeOK /\ clock \in Nat /\ RetainFor \in Nat
      /\ \A x \in DOMAIN actions : actions[x].updatedAt \in Nat
  BY ActionConstants DEF ActionInv, TypeOK, Action
<1>2. \A now \in ReadTimes : now \in Nat /\ now <= clock
  BY <1>1 DEF ReadTimes
<1>3. ASSUME NEW t \in Turns, NEW id \in Ids, TurnProposes(t, id) PROVE OldestGo
  <2>1. id \notin DOMAIN actions
    BY <1>3 DEF TurnProposes, Add, ActionInv, KnownIds
  <2>2. PICK now \in ReadTimes :
          actions' \in Pruned(Put(actions, id, [user |-> turn[t].user, status |-> "pending",
                                                updatedAt |-> now]), now)
    BY <1>3 DEF TurnProposes, Add
  <2> DEFINE grown == Put(actions, id, [user |-> turn[t].user, status |-> "pending",
                                       updatedAt |-> now])
  <2>3. DOMAIN grown = DOMAIN actions \cup {id} /\ \A x \in DOMAIN actions : grown[x] = actions[x]
    BY <2>1 DEF Put
  <2> HIDE DEF grown
  <2>4. actions' \in Pruned(grown, now)
    BY <2>2 DEF grown
  <2>5. /\ DOMAIN actions' \subseteq DOMAIN grown
        /\ \A k \in DOMAIN actions' : actions'[k] = grown[k]
        /\ \A x \in DOMAIN grown \ DOMAIN actions' :
             \/ now >= grown[x].updatedAt + RetainFor
             \/ /\ Cardinality(DOMAIN actions') = MaxActions
                /\ \A k \in DOMAIN actions' : grown[x].updatedAt <= grown[k].updatedAt
    BY <2>4, PrunedOldest
  <2> QED BY <1>1, <1>2, <2>3, <2>5 DEF OldestGo
<1>4. ASSUME NEW c \in Confirms, NEW id \in Ids, NEW user \in Users, Reserve(c, id, user)
      PROVE  OldestGo
  <2>1. PICK now \in ReadTimes : \E as \in Pruned(actions, now) : DOMAIN actions' = DOMAIN as
    BY <1>4 DEF Reserve
  <2>2. PICK as \in Pruned(actions, now) : DOMAIN actions' = DOMAIN as
    BY <2>1
  <2>3. /\ DOMAIN as \subseteq DOMAIN actions
        /\ \A x \in DOMAIN actions \ DOMAIN as :
             \/ now >= actions[x].updatedAt + RetainFor
             \/ /\ Cardinality(DOMAIN as) = MaxActions
                /\ \A k \in DOMAIN as : actions[x].updatedAt <= actions[k].updatedAt
    BY PrunedOldest
  <2>4. ASSUME NEW x \in DOMAIN actions \ DOMAIN as, now >= actions[x].updatedAt + RetainFor
        PROVE  clock >= actions[x].updatedAt + RetainFor
    BY <1>1, <1>2, <2>4
  <2>5. \A k \in DOMAIN as : (IF k \in DOMAIN actions THEN actions ELSE actions')[k] = actions[k]
    BY <2>3
  <2> QED BY <2>2, <2>3, <2>4, <2>5 DEF OldestGo
<1>5. ASSUME NEW c \in Confirms, ConfirmStep(c) PROVE DOMAIN actions' = DOMAIN actions
  BY <1>5 DEF ConfirmStep, Execute, Fail, Announce, Complete, Settle
<1>6. CASE Restart
  BY <1>6 DEF Restart, OldestGo
<1>7. ASSUME NEW t \in Turns,
             \/ TurnRefused(t) \/ TurnFails(t) \/ TurnAnswers(t) \/ TurnReplies(t)
             \/ \E user \in Users, session \in Sessions : TurnOpens(t, user, session)
      PROVE  DOMAIN actions' = DOMAIN actions
  BY <1>7 DEF TurnOpens, TurnRefused, TurnFails, TurnAnswers, TurnReplies
<1>8. Tick \/ UNCHANGED vars => DOMAIN actions' = DOMAIN actions
  BY DEF Tick, vars
<1>9. DOMAIN actions' = DOMAIN actions => OldestGo
  BY DEF OldestGo
<1> QED BY <1>3, <1>4, <1>5, <1>6, <1>7, <1>8, <1>9 DEF Next, TurnStep

\* An action only moves forward, and a forgotten one stays forgotten, also when
\* its tool returns after the store forgot it (Complete, Fail); what pruneLocked
\* forgets is expired, or the oldest of a full store.
THEOREM OnlyMovesForward == Spec => ActionsMoveForward
<1>1. ActionInv /\ [Next]_vars => [OnlyForward /\ OldestGo]_vars
  BY ForwardNext, OldestNext
<1> QED BY <1>1, ActionInvariant, PTL DEF Spec, ActionsMoveForward

-----------------------------------------------------------------------------
(* The abstract specification.                                             *)

\* The maps of the abstract specification are those of this one.
LEMMA SameMaps ==
  ASSUME NEW f, NEW k, NEW v, NEW S
  PROVE  Offered!Drop(f, S) = Drop(f, S) /\ Offered!Put(f, k, v) = Put(f, k, v)
BY DEF Drop, Put, Restrict, Offered!Drop, Offered!Put, Offered!Restrict

\* Forgetting actions withdraws their offers and opens none.
LEMMA OpenAfterForgetting ==
  ASSUME TypeOK, IsActionMap(actions'), DOMAIN actions' \subseteq DOMAIN actions,
         \A x \in DOMAIN actions' : /\ actions'[x].user = actions[x].user
                                    /\ actions'[x].status = "pending" =>
                                         actions[x].status = "pending"
  PROVE  \E gone \in SUBSET Ids :
           OpenOffers' = Drop(OpenOffers, gone)
           /\ gone = {x \in DOMAIN actions :
                        x \in DOMAIN actions' => actions'[x].status # "pending"}
<1> DEFINE gone == {x \in DOMAIN actions :
                      x \in DOMAIN actions' => actions'[x].status # "pending"}
           left == {x \in DOMAIN actions' : actions'[x].status = "pending"}
<1>1. gone \in SUBSET Ids
  BY DEF TypeOK
<1>2. OpenOffers' = [x \in left |-> actions'[x].user]
  BY DEF OpenOffers
<1>3. DOMAIN OpenOffers \ gone = left
  BY DEF OpenOffers
<1>4. \A x \in left : actions'[x].user = OpenOffers[x]
  BY DEF OpenOffers
<1>5. Drop(OpenOffers, gone) = [x \in DOMAIN OpenOffers \ gone |-> OpenOffers[x]]
  BY DEF Drop, Restrict
<1> HIDE DEF gone, left
<1>6. OpenOffers' = Drop(OpenOffers, gone)
  BY <1>2, <1>3, <1>4, <1>5
<1> QED BY <1>1, <1>6 DEF gone

\* Such a step, when it starts no confirmation and adds no action, withdraws.
LEMMA Withdrawal ==
  ASSUME TypeOK, IsActionMap(actions'), DOMAIN actions' \subseteq DOMAIN actions,
         \A x \in DOMAIN actions' : /\ actions'[x].user = actions[x].user
                                    /\ actions'[x].status = "pending" =>
                                         actions[x].status = "pending",
         UNCHANGED offers, Takings' = Takings
  PROVE  Offered!Next
<1>1. PICK gone \in SUBSET Ids : OpenOffers' = Drop(OpenOffers, gone)
  BY OpenAfterForgetting
<1>2. Offered!Withdraw(gone)
  BY <1>1, SameMaps DEF Offered!Withdraw
<1> QED BY <1>2 DEF Offered!Next

\* Confirmations that keep their action, user and start have the same takings.
LEMMA SameTakings ==
  ASSUME \A c \in Confirms : /\ (Started(c))' = Started(c)
                             /\ Started(c) => /\ confirm'[c].id = confirm[c].id
                                              /\ confirm'[c].user = confirm[c].user
  PROVE  Takings' = Takings
BY DEF Takings

\* A turn that proposes makes an offer.
LEMMA ProposalOffers ==
  ASSUME ActionInv, NEW t \in Turns, NEW id \in Ids, TurnProposes(t, id)
  PROVE  Offered!Next
<1> DEFINE user == turn[t].user
           gone == {x \in DOMAIN actions \cup {id} :
                      x \in DOMAIN actions' => actions'[x].status # "pending"}
           left == {x \in DOMAIN actions' : actions'[x].status = "pending"}
           grown == Put(OpenOffers, id, user)
<1>1. TypeOK /\ user \in Users /\ Add(id, user, turn[t].session)
      /\ turn[t].session \in Sessions /\ UNCHANGED confirm
  BY DEF ActionInv, TurnsFilled, TurnProposes
<1>2. /\ id \notin DOMAIN offers
      /\ DOMAIN offers' = DOMAIN offers \cup {id}
      /\ DOMAIN actions' \subseteq DOMAIN actions \cup {id}
      /\ \A x \in DOMAIN actions' \ {id} : actions'[x] = actions[x]
      /\ id \in DOMAIN actions' => actions'[id].user = user
  BY <1>1, AddFacts
<1>3. gone \in SUBSET Ids
  BY <1>1 DEF TypeOK
<1>4. OpenOffers' = [x \in left |-> actions'[x].user]
  BY DEF OpenOffers
<1>5. grown = [x \in DOMAIN OpenOffers \cup {id} |-> IF x = id THEN user ELSE OpenOffers[x]]
  BY DEF Put
<1>6. DOMAIN OpenOffers = {x \in DOMAIN actions : actions[x].status = "pending"}
      /\ \A x \in DOMAIN OpenOffers : OpenOffers[x] = actions[x].user
  BY DEF OpenOffers
<1>7. DOMAIN grown \ gone = left
  BY <1>2, <1>5, <1>6
<1>8. \A x \in left : actions'[x].user = grown[x]
  BY <1>2, <1>5, <1>6
<1>9. Drop(grown, gone) = [x \in DOMAIN grown \ gone |-> grown[x]]
  BY DropEntries
<1> HIDE DEF gone, left, grown, user
<1>10. OpenOffers' = Drop(grown, gone)
  BY <1>4, <1>7, <1>8, <1>9
<1>11. Takings' = Takings
  BY <1>1 DEF Takings, Started
<1>12. Offered!Offer(id, user, gone)
  <2>1. OpenOffers' = Offered!Drop(Offered!Put(OpenOffers, id, user), gone)
    BY <1>10, SameMaps DEF grown
  <2> QED BY <1>2, <1>11, <2>1 DEF Offered!Offer
<1> QED BY <1>1, <1>3, <1>12 DEF Offered!Next

\* A confirmation that is accepted takes its offer; one refused takes none.
LEMMA ReservationTakes ==
  ASSUME ActionInv, NEW c \in Confirms, NEW id \in Ids, NEW user \in Users,
         Reserve(c, id, user)
  PROVE  Offered!Next
<1>1. TypeOK /\ ~Started(c) /\ UNCHANGED offers
  BY DEF ActionInv, PhasesAgree, Reserve
<1>2. /\ IsActionMap(actions')
      /\ DOMAIN actions' \subseteq DOMAIN actions
      /\ \A x \in DOMAIN actions' : actions'[x].user = actions[x].user
      /\ \A x \in DOMAIN actions' \ {id} : actions'[x] = actions[x]
      /\ \/ /\ Refuses(c, id, user)
            /\ \A x \in DOMAIN actions' : actions'[x] = actions[x]
         \/ /\ Accepts(c, id, user)
            /\ id \in DOMAIN actions'
            /\ actions[id].status = "pending"
            /\ actions[id].user = user
            /\ actions'[id].status = "executing"
  BY <1>1, ReserveFacts
<1>3. CASE /\ Refuses(c, id, user)
           /\ \A x \in DOMAIN actions' : actions'[x] = actions[x]
  <2>1. \A d \in Confirms : /\ (Started(d))' = Started(d)
                            /\ Started(d) => confirm'[d] = confirm[d]
    BY <1>1, <1>3 DEF Refuses, Started, TypeOK
  <2>2. Takings' = Takings
    BY <2>1, SameTakings
  <2>3. \A x \in DOMAIN actions' : /\ actions'[x].user = actions[x].user
                                   /\ actions'[x].status = "pending" =>
                                        actions[x].status = "pending"
    BY <1>3
  <2> QED BY <1>1, <1>2, <2>2, <2>3, Withdrawal
<1>4. CASE /\ Accepts(c, id, user)
           /\ id \in DOMAIN actions'
           /\ actions[id].status = "pending"
           /\ actions[id].user = user
           /\ actions'[id].status = "executing"
  <2>1. \A x \in DOMAIN actions' : /\ actions'[x].user = actions[x].user
                                   /\ actions'[x].status = "pending" =>
                                        actions[x].status = "pending"
    BY <1>2, <1>4
  <2>2. PICK gone \in SUBSET Ids :
          OpenOffers' = Drop(OpenOffers, gone)
          /\ gone = {x \in DOMAIN actions :
                       x \in DOMAIN actions' => actions'[x].status # "pending"}
    BY <1>1, <1>2, <2>1, OpenAfterForgetting
  <2>3. id \in gone /\ gone = (gone \ {id}) \cup {id}
    BY <1>2, <1>4, <2>2
  <2>4. id \in DOMAIN OpenOffers \ (gone \ {id}) /\ OpenOffers[id] = user
    BY <1>2, <1>4 DEF OpenOffers
  <2>5. Takings' = Takings \cup {[by |-> c, id |-> id, user |-> user]}
    <3>1. /\ (Started(c))' /\ confirm'[c].id = id /\ confirm'[c].user = user
          /\ \A d \in Confirms \ {c} : /\ confirm'[d] = confirm[d]
                                       /\ (Started(d))' = Started(d)
      BY <1>1, <1>4 DEF Accepts, Started, TypeOK
    <3> QED BY <1>1, <3>1 DEF Takings
  <2>6. Offered!Take(c, id, gone \ {id})
    <3>1. OpenOffers' = Offered!Drop(OpenOffers, (gone \ {id}) \cup {id})
      BY <2>2, <2>3, SameMaps
    <3> QED BY <1>1, <2>4, <2>5, <3>1 DEF Offered!Take
  <2>7. gone \ {id} \in SUBSET Ids
    OBVIOUS
  <2> QED BY <2>6, <2>7 DEF Offered!Next
<1> QED BY <1>2, <1>3, <1>4

LEMMA RefinementInit == Init => Offered!Init
<1> SUFFICES ASSUME Init PROVE Offered!Init
  OBVIOUS
<1>1. DOMAIN offers = {} /\ DOMAIN actions = {}
  BY DEF Init, NoActions
<1>2. OpenOffers = [id \in {} |-> {}]
  BY <1>1 DEF OpenOffers
<1>3. Takings = {}
  BY DEF Init, Takings, Started
<1> QED BY <1>1, <1>2, <1>3 DEF Offered!Init

LEMMA RefinementNext ==
  ASSUME ActionInv, [Next]_vars
  PROVE  [Offered!Next]_(Offered!vars)
<1>1. TypeOK /\ IsActionMap(actions)
  BY DEF ActionInv, TypeOK, IsActionMap
<1>2. ASSUME NEW t \in Turns, NEW id \in Ids, TurnProposes(t, id) PROVE Offered!Next
  BY <1>2, ProposalOffers
<1>3. ASSUME NEW c \in Confirms, NEW id \in Ids, NEW user \in Users, Reserve(c, id, user)
      PROVE  Offered!Next
  BY <1>3, ReservationTakes
<1>4. ASSUME NEW c \in Confirms, ConfirmStep(c) PROVE Offered!Next
  <2>1. /\ confirm[c].id \in Ids /\ Started(c)
        /\ UNCHANGED offers
        /\ UNCHANGED actions \/ Settle(confirm[c].id, "failed")
                             \/ Settle(confirm[c].id, "executed")
    BY <1>4 DEF ActionInv, PhasesAgree, ConfirmStep, Execute, Fail, Announce, Complete
  <2>2. /\ IsActionMap(actions') /\ DOMAIN actions' = DOMAIN actions
        /\ \A x \in DOMAIN actions' : /\ actions'[x].user = actions[x].user
                                      /\ actions'[x].status = "pending" =>
                                           actions[x].status = "pending"
    <3>1. CASE UNCHANGED actions
      BY <1>1, <3>1
    <3>2. CASE Settle(confirm[c].id, "failed")
      BY <1>1, <2>1, <3>2, SettleFacts
    <3>3. CASE Settle(confirm[c].id, "executed")
      BY <1>1, <2>1, <3>3, SettleFacts
    <3> QED BY <2>1, <3>1, <3>2, <3>3
  <2>3. \A d \in Confirms : /\ (Started(d))' = Started(d)
                            /\ confirm'[d].id = confirm[d].id
                            /\ confirm'[d].user = confirm[d].user
    <3>1. CASE Execute(c)
      <4>1. PICK at \in {"announcing", "failing", "done"}, outcome \in {"ok", "error", "panic"} :
              confirm' = [confirm EXCEPT ![c] = [@ EXCEPT !.at = at, !.outcome = outcome]]
        BY <3>1 DEF Execute
      <4>2. /\ confirm'[c].id = confirm[c].id /\ confirm'[c].user = confirm[c].user
            /\ confirm'[c].outcome = outcome
            /\ \A d \in Confirms \ {c} : confirm'[d] = confirm[d]
        BY <1>1, <4>1 DEF TypeOK, Confirm
      <4> QED BY <2>1, <4>2 DEF Started
    <3>2. CASE Fail(c) \/ Announce(c) \/ Complete(c)
      <4>1. PICK at \in {"done", "completing"} : confirm' = [confirm EXCEPT ![c].at = at]
        BY <3>2 DEF Fail, Announce, Complete
      <4> QED BY <1>1, <4>1 DEF TypeOK, Confirm, Started
    <3> QED BY <1>4, <3>1, <3>2 DEF ConfirmStep
  <2> QED BY <1>1, <2>1, <2>2, <2>3, SameTakings, Withdrawal
<1>5. CASE Restart
  <2>1. IsActionMap(actions') /\ DOMAIN actions' = {} /\ UNCHANGED offers
    BY <1>5 DEF Restart, NoActions, IsActionMap
  <2>2. \A d \in Confirms : /\ (Started(d))' = Started(d)
                            /\ confirm'[d].id = confirm[d].id
                            /\ confirm'[d].user = confirm[d].user
    BY <1>1, <1>5 DEF TypeOK, Confirm, Started, Restart
  <2> QED BY <1>1, <2>1, <2>2, SameTakings, Withdrawal
<1>6. ASSUME UNCHANGED <<actions, offers, confirm>> PROVE UNCHANGED Offered!vars
  BY <1>6 DEF Offered!vars, OpenOffers, Takings, Started
<1>7. ASSUME NEW t \in Turns,
             \/ TurnRefused(t) \/ TurnFails(t) \/ TurnAnswers(t) \/ TurnReplies(t)
             \/ \E user \in Users, session \in Sessions : TurnOpens(t, user, session)
      PROVE  UNCHANGED <<actions, offers, confirm>>
  BY <1>7 DEF TurnOpens, TurnRefused, TurnFails, TurnAnswers, TurnReplies
<1>8. Tick \/ UNCHANGED vars => UNCHANGED <<actions, offers, confirm>>
  BY DEF Tick, vars
<1> QED BY <1>2, <1>3, <1>4, <1>5, <1>6, <1>7, <1>8 DEF Next, TurnStep

\* Proposals, confirmations, pruning and restarts implement ConfirmOnce: an
\* offer is taken at most once, by its user, and never reopens.
THEOREM ImplementsConfirmOnce == Spec => RefinesConfirmOnce
<1>1. Init => Offered!Init
  BY RefinementInit
<1>2. ActionInv /\ [Next]_vars => [Offered!Next]_(Offered!vars)
  BY RefinementNext
<1> QED BY <1>1, <1>2, ActionInvariant, PTL DEF Spec, RefinesConfirmOnce, Offered!Spec

-----------------------------------------------------------------------------
(* What the store, the answers and the messages say.                       *)

\* Where a message is in session s of the log l.
PositionIn(l, kind, id, s) == {i \in DOMAIN l[s] : l[s][i] = [kind |-> kind, id |-> id]}

\* The message of action id is in the session of its proposal, unless the
\* database lost it.
Shown(l, kind, id, os) ==
  DatabaseMayFail \/ PositionIn(l, kind, id, os[id].session) # {}

\* A turn names an action once it has proposed it, and has said so when it ends.
TurnTells(r, os, l) ==
  /\ r.at = "open" => r.id = None
  /\ r.at = "replying" => r.id \in DOMAIN os /\ os[r.id].session = r.session
  /\ r.at = "done" /\ r.id # None => r.id \in DOMAIN os /\ Shown(l, "offer", r.id, os)

\* What confirmation r answers so far is what it has done.
ConfirmTells(r, os, l) ==
  /\ r.at = "idle" <=> r.outcome = "none"
  /\ r.at # "idle" => r.id \in DOMAIN os /\ Shown(l, "offer", r.id, os)
  /\ r.at = "executing" => r.outcome = "started"
  /\ r.at = "failing" => r.outcome = "error"
  /\ r.at \in {"announcing", "completing"} => r.outcome = "ok"
  /\ r.at = "completing" => Shown(l, "result", r.id, os)

\* A result was posted by the one run of its action, after the offer.
ResultsTell(os, cs, l) ==
  \A id \in Ids, s \in Sessions : \A i \in PositionIn(l, "result", id, s) :
    /\ id \in DOMAIN os /\ s = os[id].session
    /\ PositionIn(l, "result", id, s) = {i}
    /\ DatabaseMayFail \/ \E j \in PositionIn(l, "offer", id, s) : j < i
    /\ \E c \in Confirms : /\ cs[c].id = id /\ cs[c].outcome = "ok"
                           /\ cs[c].at \in {"completing", "done", "gone"}

\* The status of action id is what the confirmations have done with it.
StatusTells(id, status, os, cs, l) ==
  /\ status = "executing" =>
       \E c \in Confirms :
         /\ cs[c].id = id /\ cs[c].outcome \in {"started", "ok", "error", "panic"}
         /\ cs[c].at # "done" \/ cs[c].outcome = "panic"
  /\ status = "failed" => \E c \in Confirms : cs[c].id = id /\ cs[c].outcome = "error"
  /\ status = "executed" =>
       /\ \E c \in Confirms : cs[c].id = id /\ cs[c].outcome = "ok"
       /\ Shown(l, "result", id, os)

StoreTells(as, os, cs, l) == \A id \in DOMAIN as : StatusTells(id, as[id].status, os, cs, l)

RefusalsTell(os, cs) ==
  \A c \in Confirms :
    /\ cs[c].outcome = "conflict" =>
         \E d \in Confirms : /\ d # c /\ cs[d].id = cs[c].id
                             /\ cs[d].outcome \in {"started", "ok", "error", "panic"}
    /\ cs[c].outcome = "forbidden" => cs[c].user # os[cs[c].id].user

HonestInv ==
  /\ ActionInv
  /\ \A t \in Turns : TurnTells(turn[t], offers, log)
  /\ \A c \in Confirms : ConfirmTells(confirm[c], offers, log)
  /\ ResultsTell(offers, confirm, log)
  /\ StoreTells(actions, offers, confirm, log)
  /\ RefusalsTell(offers, confirm)

LEMMA HonestInvImplies == HonestInv => ActionsAreHonest
<1> SUFFICES ASSUME HonestInv PROVE RefusalsAreHonest /\ StoreIsHonest /\ ResultFollowsOffer
  BY DEF ActionsAreHonest
<1>1. RefusalsAreHonest
  BY DEF HonestInv, RefusalsTell, RefusalsAreHonest, Started
<1>2. \A kind, id, s : Position(kind, id, s) = PositionIn(log, kind, id, s)
  BY DEF Position, PositionIn
<1>3. ResultFollowsOffer
  BY <1>2 DEF HonestInv, ActionInv, TypeOK, ResultsTell, ResultFollowsOffer
<1>4. StoreIsHonest
  <2> SUFFICES ASSUME NEW id \in DOMAIN actions
               PROVE  LET runs == {c \in Confirms : Started(c) /\ confirm[c].id = id}
                          Result == [kind |-> "result", id |-> id]
                      IN  CASE actions[id].status = "pending"   -> runs = {}
                            [] actions[id].status = "executing" ->
                                 \E c \in runs : confirm[c].at # "done" \/ confirm[c].outcome = "panic"
                            [] actions[id].status = "failed"    ->
                                 \E c \in runs : confirm[c].outcome = "error"
                            [] actions[id].status = "executed"  ->
                                 /\ \E c \in runs : confirm[c].outcome = "ok"
                                 /\ \/ DatabaseMayFail
                                    \/ \E s \in Sessions : \E i \in DOMAIN log[s] : log[s][i] = Result
    BY DEF StoreIsHonest
  <2>1. /\ actions[id].status \in {"pending", "executing", "executed", "failed"}
        /\ id \in DOMAIN offers /\ offers[id].session \in Sessions
    BY DEF HonestInv, ActionInv, TypeOK, KnownIds, Action, ActionStatus, Offer
  <2>2. StatusTells(id, actions[id].status, offers, confirm, log)
    BY DEF HonestInv, StoreTells
  <2>3. CASE actions[id].status = "pending"
    BY <2>3 DEF HonestInv, ActionInv, PendingIsUntouched
  <2>4. CASE actions[id].status = "executing"
    BY <2>2, <2>4 DEF StatusTells, Started
  <2>5. CASE actions[id].status = "failed"
    BY <2>2, <2>5 DEF StatusTells, Started
  <2>6. CASE actions[id].status = "executed"
    <3>1. \E c \in Confirms : Started(c) /\ confirm[c].id = id /\ confirm[c].outcome = "ok"
      BY <2>2, <2>6 DEF StatusTells, Started
    <3>2. \/ DatabaseMayFail
          \/ \E s \in Sessions : \E i \in DOMAIN log[s] : log[s][i] = [kind |-> "result", id |-> id]
      BY <2>1, <2>2, <2>6 DEF StatusTells, Shown, PositionIn
    <3> QED BY <2>6, <3>1, <3>2
  <2> QED BY <2>1, <2>3, <2>4, <2>5, <2>6
<1> QED BY <1>1, <1>3, <1>4

\* The log l became m: message (kind, id) was added behind those of session s,
\* or was lost.
LogGains(l, m, kind, id, s) ==
  \/ DatabaseMayFail /\ m = l
  \/ /\ \A k, x, c : k # kind \/ x # id \/ c # s =>
          (c \in Sessions => PositionIn(m, k, x, c) = PositionIn(l, k, x, c))
     /\ PositionIn(m, kind, id, s) = PositionIn(l, kind, id, s) \cup {Len(l[s]) + 1}
     /\ \A k, x : \A i \in PositionIn(l, k, x, s) : i < Len(l[s]) + 1

LEMMA SavedGains ==
  ASSUME TypeOK, NEW s \in Sessions, NEW kind \in {"user", "answer", "offer", "result"},
         NEW id \in Ids \cup {None}, SaveMessage(s, kind, id)
  PROVE  LogGains(log, log', kind, id, s)
<1> DEFINE msg == [kind |-> kind, id |-> id]
           ms == log[s]
           new == Append(ms, msg)
<1>1. CASE DatabaseMayFail /\ UNCHANGED log
  BY <1>1 DEF LogGains
<1>2. CASE log' = [log EXCEPT ![s] = Append(@, [kind |-> kind, id |-> id])]
  <2>1. ms \in Seq(Message) /\ msg \in Message
    BY DEF TypeOK, Message
  <2>2. log'[s] = new /\ \A c \in Sessions \ {s} : log'[c] = log[c]
    BY <1>2 DEF TypeOK
  <2> HIDE DEF msg, ms
  <2>3. /\ Len(ms) \in Nat /\ DOMAIN ms = 1..Len(ms) /\ DOMAIN new = 1..(Len(ms) + 1)
        /\ new[Len(ms) + 1] = msg
        /\ \A i \in 1..Len(ms) : new[i] = ms[i]
    BY <2>1
  <2> HIDE DEF new
  <2>4. \A k, x : [kind |-> k, id |-> x] = msg => k = kind /\ x = id
    BY DEF msg
  <2>5. \A k, x : k # kind \/ x # id => PositionIn(log', k, x, s) = PositionIn(log, k, x, s)
    BY <2>2, <2>3, <2>4 DEF PositionIn, ms
  <2>6. PositionIn(log', kind, id, s) = PositionIn(log, kind, id, s) \cup {Len(ms) + 1}
    BY <2>2, <2>3 DEF PositionIn, ms, msg
  <2>7. \A k, x : \A i \in PositionIn(log, k, x, s) : i < Len(ms) + 1
    BY <2>3 DEF PositionIn, ms
  <2>8. \A k, x : \A c \in Sessions \ {s} : PositionIn(log', k, x, c) = PositionIn(log, k, x, c)
    BY <2>2 DEF PositionIn
  <2> QED BY <2>5, <2>6, <2>7, <2>8 DEF LogGains, ms
<1> QED BY <1>1, <1>2 DEF SaveMessage

\* What was shown is still shown.
LEMMA ShownStays ==
  ASSUME NEW l, NEW m, NEW kind, NEW id, NEW s, LogGains(l, m, kind, id, s),
         NEW k, NEW x, NEW os, os[x].session \in Sessions, Shown(l, k, x, os)
  PROVE  Shown(m, k, x, os)
BY DEF LogGains, Shown

\* A message that is posted is shown.
LEMMA GainShows ==
  ASSUME NEW l, NEW m, NEW kind, NEW id, NEW os, LogGains(l, m, kind, id, os[id].session)
  PROVE  Shown(m, kind, id, os)
BY DEF LogGains, Shown

\* Messages that are not results leave what was said as it is.
LEMMA TalkKeeps ==
  ASSUME HonestInv, NEW kind \in {"user", "answer", "offer"}, NEW id, NEW s \in Sessions,
         log' = log \/ LogGains(log, log', kind, id, s)
  PROVE  /\ \A t \in Turns : TurnTells(turn[t], offers, log')
         /\ \A c \in Confirms : ConfirmTells(confirm[c], offers, log')
         /\ ResultsTell(offers, confirm, log')
         /\ StoreTells(actions, offers, confirm, log')
<1>1. CASE log' = log
  BY <1>1 DEF HonestInv
<1>2. CASE LogGains(log, log', kind, id, s)
  <2>1. \A x \in DOMAIN offers : offers[x].session \in Sessions
    BY DEF HonestInv, ActionInv, TypeOK, Offer
  <2>2. \A k : \A x \in DOMAIN offers : Shown(log, k, x, offers) => Shown(log', k, x, offers)
    BY <1>2, <2>1, ShownStays
  <2>3. \A t \in Turns : TurnTells(turn[t], offers, log')
    BY <2>2 DEF HonestInv, TurnTells
  <2>4. \A c \in Confirms : ConfirmTells(confirm[c], offers, log')
    BY <2>2 DEF HonestInv, ConfirmTells
  <2>5. /\ \A x : \A c \in Sessions : PositionIn(log', "result", x, c) = PositionIn(log, "result", x, c)
        /\ \A x : \A c \in Sessions : PositionIn(log, "offer", x, c) \subseteq PositionIn(log', "offer", x, c)
    <3>1. kind # "result"
      OBVIOUS
    <3> QED BY <1>2, <3>1 DEF LogGains
  <2>6. ResultsTell(offers, confirm, log')
    BY <2>5 DEF HonestInv, ResultsTell
  <2>7. DOMAIN actions \subseteq DOMAIN offers
    BY DEF HonestInv, ActionInv, KnownIds
  <2>8. StoreTells(actions, offers, confirm, log')
    BY <2>2, <2>7 DEF HonestInv, StoreTells, StatusTells
  <2> QED BY <2>3, <2>4, <2>6, <2>8
<1> QED BY <1>1, <1>2

\* A step of one turn, which may save a message.
LEMMA HonestTurn ==
  ASSUME HonestInv, ActionInv', NEW t \in Turns, NEW r, turn' = [turn EXCEPT ![t] = r],
         UNCHANGED <<actions, offers, confirm>>,
         NEW kind \in {"user", "answer", "offer"}, NEW id, NEW s \in Sessions,
         log' = log \/ LogGains(log, log', kind, id, s),
         TurnTells(r, offers, log')
  PROVE  HonestInv'
<1>1. turn \in [Turns -> Turn]
  BY DEF HonestInv, ActionInv, TypeOK
<1>2. \A u \in Turns : turn'[u] = IF u = t THEN r ELSE turn[u]
  BY <1>1
<1>3. /\ \A u \in Turns : TurnTells(turn[u], offers, log')
      /\ \A c \in Confirms : ConfirmTells(confirm[c], offers, log')
      /\ ResultsTell(offers, confirm, log')
      /\ StoreTells(actions, offers, confirm, log')
  BY TalkKeeps
<1>4. \A u \in Turns : TurnTells(turn'[u], offers, log')
  BY <1>2, <1>3
<1> QED BY <1>3, <1>4 DEF HonestInv, RefusalsTell

LEMMA HonestTurnOpens ==
  ASSUME HonestInv, ActionInv', NEW t \in Turns, NEW user \in Users, NEW session \in Sessions,
         TurnOpens(t, user, session)
  PROVE  HonestInv'
<1> DEFINE r == [at |-> "open", user |-> user, session |-> session, id |-> None]
<1>1. turn' = [turn EXCEPT ![t] = r] /\ UNCHANGED <<actions, offers, confirm>>
  BY DEF TurnOpens
<1>2. LogGains(log, log', "user", None, session)
  BY SavedGains DEF TurnOpens, HonestInv, ActionInv
<1>3. TurnTells(r, offers, log')
  BY DEF TurnTells
<1> HIDE DEF r
<1> QED BY <1>1, <1>2, <1>3, HonestTurn

LEMMA HonestTurnEnds ==
  ASSUME HonestInv, ActionInv', NEW t \in Turns,
         TurnRefused(t) \/ TurnFails(t) \/ TurnAnswers(t) \/ TurnReplies(t)
  PROVE  HonestInv'
<1>1. /\ UNCHANGED <<actions, offers, confirm>>
      /\ turn[t] \in Turn /\ TurnTells(turn[t], offers, log) /\ TypeOK
      /\ DOMAIN offers \subseteq Ids
      /\ turn[t].at \in {"open", "replying"} => turn[t].session \in Sessions
  BY DEF HonestInv, ActionInv, TypeOK, TurnsFilled, TurnRefused, TurnFails, TurnAnswers, TurnReplies
<1>2. CASE TurnRefused(t) \/ TurnFails(t)
  <2> DEFINE r == [turn[t] EXCEPT !.at = "gone"]
  <2>1. turn' = [turn EXCEPT ![t] = r] /\ UNCHANGED log
    BY <1>2 DEF TurnRefused, TurnFails
  <2>2. TurnTells(r, offers, log')
    BY <1>1 DEF TurnTells, Turn
  <2> HIDE DEF r
  <2>3. CASE Sessions # {}
    <3>1. PICK s \in Sessions : TRUE
      BY <2>3
    <3> QED BY <1>1, <2>1, <2>2, <3>1, HonestTurn
  <2>4. CASE Sessions = {}
    <3>1. turn \in [Turns -> Turn]
      BY <1>1 DEF TypeOK
    <3>2. \A u \in Turns : TurnTells(turn'[u], offers, log)
      BY <2>1, <2>2, <3>1 DEF HonestInv
    <3> QED BY <1>1, <2>1, <3>2 DEF HonestInv, RefusalsTell
  <2> QED BY <2>3, <2>4
<1>3. CASE TurnAnswers(t)
  <2> DEFINE r == [turn[t] EXCEPT !.at = "done"]
  <2>1. turn' = [turn EXCEPT ![t] = r] /\ turn[t].at = "open"
    BY <1>3 DEF TurnAnswers
  <2>2. LogGains(log, log', "answer", None, turn[t].session)
    BY <1>1, <1>3, <2>1, SavedGains DEF TurnAnswers
  <2>3. TurnTells(r, offers, log')
    BY <1>1, <2>1 DEF TurnTells, Turn
  <2> HIDE DEF r
  <2> QED BY <1>1, <2>1, <2>2, <2>3, HonestTurn
<1>4. CASE TurnReplies(t)
  <2> DEFINE r == [turn[t] EXCEPT !.at = "done"]
  <2>1. /\ turn' = [turn EXCEPT ![t] = r] /\ turn[t].at = "replying"
        /\ SaveMessage(turn[t].session, "offer", turn[t].id)
    BY <1>4 DEF TurnReplies
  <2>2. turn[t].id \in DOMAIN offers /\ offers[turn[t].id].session = turn[t].session
    BY <1>1, <2>1 DEF TurnTells
  <2>3. LogGains(log, log', "offer", turn[t].id, turn[t].session)
    BY <1>1, <2>1, <2>2, SavedGains
  <2>4. Shown(log', "offer", turn[t].id, offers)
    BY <2>2, <2>3, GainShows
  <2>5. TurnTells(r, offers, log')
    BY <1>1, <2>2, <2>4 DEF TurnTells, Turn
  <2> HIDE DEF r
  <2> QED BY <1>1, <2>1, <2>3, <2>5, HonestTurn
<1> QED BY <1>2, <1>3, <1>4

\* A proposal is a new action, of which nothing was said.
LEMMA HonestTurnProposes ==
  ASSUME HonestInv, ActionInv', NEW t \in Turns, NEW id \in Ids, TurnProposes(t, id)
  PROVE  HonestInv'
<1> DEFINE r == [turn[t] EXCEPT !.at = "replying", !.id = id]
<1>1. /\ turn' = [turn EXCEPT ![t] = r] /\ UNCHANGED <<confirm, log>>
      /\ turn[t].user \in Users /\ turn[t].session \in Sessions
      /\ Add(id, turn[t].user, turn[t].session)
      /\ TypeOK /\ turn \in [Turns -> Turn] /\ turn[t] \in Turn
  BY DEF HonestInv, ActionInv, TypeOK, TurnsFilled, TurnProposes
<1>2. /\ id \notin DOMAIN offers
      /\ DOMAIN offers' = DOMAIN offers \cup {id}
      /\ \A x \in DOMAIN offers : offers'[x] = offers[x]
      /\ DOMAIN actions' \subseteq DOMAIN actions \cup {id}
      /\ \A x \in DOMAIN actions' \ {id} : actions'[x] = actions[x]
      /\ id \in DOMAIN actions' => actions'[id].status = "pending"
  BY <1>1, AddFacts
<1>3. offers'[id].session = turn[t].session
  BY <1>1, <1>2 DEF Add, Put
<1>4. r.at = "replying" /\ r.id = id /\ r.session = turn[t].session
  BY <1>1 DEF Turn
<1> HIDE DEF r
<1>5. \A k : \A x \in DOMAIN offers : Shown(log, k, x, offers) => Shown(log', k, x, offers')
  BY <1>1, <1>2 DEF Shown
<1>6. TurnTells(r, offers', log')
  BY <1>2, <1>3, <1>4 DEF TurnTells
<1>7. \A u \in Turns : TurnTells(turn[u], offers', log')
  BY <1>2, <1>5 DEF HonestInv, TurnTells
<1>8. \A u \in Turns : TurnTells(turn'[u], offers', log')
  BY <1>1, <1>6, <1>7
<1>9. \A c \in Confirms : ConfirmTells(confirm[c], offers', log')
  BY <1>2, <1>5 DEF HonestInv, ConfirmTells
<1>10. ResultsTell(offers', confirm, log')
  BY <1>1, <1>2 DEF HonestInv, ResultsTell
<1>11. StoreTells(actions', offers', confirm, log')
  <2> SUFFICES ASSUME NEW x \in DOMAIN actions'
               PROVE  StatusTells(x, actions'[x].status, offers', confirm, log')
    BY DEF StoreTells
  <2>1. CASE x = id
    BY <1>2, <2>1 DEF StatusTells
  <2>2. CASE x # id
    <3>1. x \in DOMAIN actions /\ x \in DOMAIN offers /\ actions'[x] = actions[x]
      BY <1>2, <2>2 DEF HonestInv, ActionInv, KnownIds
    <3>2. StatusTells(x, actions[x].status, offers, confirm, log)
      BY <3>1 DEF HonestInv, StoreTells
    <3> QED BY <1>5, <3>1, <3>2 DEF StatusTells
  <2> QED BY <2>1, <2>2
<1>12. RefusalsTell(offers', confirm)
  <2>1. \A c \in Confirms : confirm[c].outcome = "forbidden" => confirm[c].id \in DOMAIN offers
    BY DEF HonestInv, ConfirmTells
  <2> QED BY <1>2, <2>1 DEF HonestInv, RefusalsTell
<1> QED BY <1>1, <1>8, <1>9, <1>10, <1>11, <1>12 DEF HonestInv

\* What Reserve answers is what it has found.
LEMMA ReserveAnswers ==
  ASSUME TypeOK, NEW c \in Confirms, NEW id \in Ids, NEW user \in Users,
         Reserve(c, id, user)
  PROVE  /\ confirm'[c].outcome = "conflict" =>
              id \in DOMAIN actions /\ actions[id].status # "pending"
         /\ confirm'[c].outcome = "forbidden" =>
              id \in DOMAIN actions /\ actions[id].user # user
<1> DEFINE Answered(at, outcome) ==
             confirm' = [confirm EXCEPT ![c] = [at |-> at, id |-> id, user |-> user,
                                                outcome |-> outcome]]
<1>1. PICK now \in ReadTimes : \E as \in Pruned(actions, now) :
        \/ Answered("done", "not_found")
        \/ id \in DOMAIN as /\ as[id].user # user /\ Answered("done", "forbidden")
        \/ id \in DOMAIN as /\ as[id].status # "pending" /\ Answered("done", "conflict")
        \/ Answered("executing", "started")
  BY DEF Reserve, BelongsTo, Reservable
<1>2. PICK as \in Pruned(actions, now) :
        \/ Answered("done", "not_found")
        \/ id \in DOMAIN as /\ as[id].user # user /\ Answered("done", "forbidden")
        \/ id \in DOMAIN as /\ as[id].status # "pending" /\ Answered("done", "conflict")
        \/ Answered("executing", "started")
  BY <1>1
<1>3. DOMAIN as \subseteq DOMAIN actions /\ \A k \in DOMAIN as : as[k] = actions[k]
  BY PrunedOldest
<1>4. \A at, outcome : Answered(at, outcome) => confirm'[c].outcome = outcome
  BY DEF TypeOK
<1> HIDE DEF Answered
<1> QED BY <1>2, <1>3, <1>4

LEMMA HonestReserve ==
  ASSUME HonestInv, ActionInv', NEW c \in Confirms, NEW id \in Ids, NEW user \in Users,
         Reserve(c, id, user)
  PROVE  HonestInv'
<1> DEFINE Runs == {"started", "ok", "error", "panic"}
<1>1. /\ TypeOK /\ UNCHANGED <<offers, turn, log>> /\ confirm[c].at = "idle" /\ id \in Told
      /\ confirm \in [Confirms -> Confirm]
  BY DEF HonestInv, ActionInv, TypeOK, Reserve
<1>2. confirm[c].outcome = "none"
  BY <1>1 DEF HonestInv, ConfirmTells
<1>3. id \in DOMAIN offers /\ Shown(log, "offer", id, offers)
  <2>1. PICK t \in Turns : turn[t].at = "done" /\ turn[t].id = id /\ id # None
    BY <1>1 DEF Told
  <2>2. TurnTells(turn[t], offers, log)
    BY DEF HonestInv
  <2> QED BY <2>1, <2>2 DEF TurnTells
<1>4. /\ DOMAIN actions' \subseteq DOMAIN actions
      /\ \A x \in DOMAIN actions' \ {id} : actions'[x] = actions[x]
      /\ \/ Refuses(c, id, user) /\ \A x \in DOMAIN actions' : actions'[x] = actions[x]
         \/ Accepts(c, id, user) /\ id \in DOMAIN actions' /\ actions'[id].status = "executing"
  BY <1>1, ReserveFacts
<1>5. PICK at \in {"done", "executing"},
           outcome \in {"not_found", "forbidden", "conflict", "started"} :
        /\ confirm' = [confirm EXCEPT ![c] =
             [at |-> at, id |-> id, user |-> user, outcome |-> outcome]]
        /\ at = "executing" => outcome = "started"
        /\ outcome = "started" =>
             at = "executing" /\ id \in DOMAIN actions' /\ actions'[id].status = "executing"
        /\ outcome # "started" => \A x \in DOMAIN actions' : actions'[x] = actions[x]
  BY <1>4 DEF Refuses, Accepts
<1>6. /\ confirm'[c].id = id /\ confirm'[c].at = at /\ confirm'[c].user = user
      /\ confirm'[c].outcome = outcome
      /\ \A d \in Confirms \ {c} : confirm'[d] = confirm[d]
  BY <1>1, <1>5
<1>7. \A d \in Confirms : confirm[d].outcome # "none" => d # c /\ confirm'[d] = confirm[d]
  BY <1>2, <1>6
<1>8. \A d \in Confirms : ConfirmTells(confirm'[d], offers', log')
  <2>1. ConfirmTells(confirm'[c], offers', log')
    BY <1>1, <1>3, <1>5, <1>6 DEF ConfirmTells
  <2> QED BY <1>1, <1>6, <2>1 DEF HonestInv
<1>9. ResultsTell(offers', confirm', log')
  <2>1. \A x \in Ids : (\E d \in Confirms : /\ confirm[d].id = x /\ confirm[d].outcome = "ok"
                                           /\ confirm[d].at \in {"completing", "done", "gone"})
                    => (\E d \in Confirms : /\ confirm'[d].id = x /\ confirm'[d].outcome = "ok"
                                            /\ confirm'[d].at \in {"completing", "done", "gone"})
    BY <1>7
  <2> QED BY <1>1, <2>1 DEF HonestInv, ResultsTell
<1>10. ASSUME NEW x \in DOMAIN actions, NEW status, StatusTells(x, status, offers, confirm, log)
       PROVE  StatusTells(x, status, offers', confirm', log')
  BY <1>1, <1>7, <1>10 DEF StatusTells
<1>11. StoreTells(actions', offers', confirm', log')
  <2> SUFFICES ASSUME NEW x \in DOMAIN actions'
               PROVE  StatusTells(x, actions'[x].status, offers', confirm', log')
    BY DEF StoreTells
  <2>1. CASE x = id /\ outcome = "started"
    BY <1>5, <1>6, <2>1 DEF StatusTells
  <2>2. CASE ~(x = id /\ outcome = "started")
    <3>1. x \in DOMAIN actions /\ actions'[x] = actions[x]
      BY <1>4, <1>5, <2>2
    <3>2. StatusTells(x, actions[x].status, offers, confirm, log)
      BY <3>1 DEF HonestInv, StoreTells
    <3> QED BY <1>10, <3>1, <3>2
  <2> QED BY <2>1, <2>2
<1>12. RefusalsTell(offers', confirm')
  <2>1. \A d \in Confirms \ {c} :
          confirm[d].outcome = "conflict" =>
            \E e \in Confirms : /\ e # d /\ confirm'[e].id = confirm'[d].id
                                /\ confirm'[e].outcome \in Runs
    BY <1>6, <1>7 DEF HonestInv, RefusalsTell
  <2>2. ASSUME outcome = "conflict"
        PROVE  \E e \in Confirms : e # c /\ confirm'[e].id = id /\ confirm'[e].outcome \in Runs
    <3>1. id \in DOMAIN actions /\ actions[id].status # "pending"
      BY <1>1, <1>6, <2>2, ReserveAnswers
    <3>2. actions[id].status \in {"executing", "executed", "failed"}
      BY <1>1, <3>1 DEF TypeOK, Action, ActionStatus
    <3>3. StatusTells(id, actions[id].status, offers, confirm, log)
      BY <3>1 DEF HonestInv, StoreTells
    <3>4. \E e \in Confirms : confirm[e].id = id /\ confirm[e].outcome \in Runs
      BY <3>2, <3>3 DEF StatusTells
    <3> QED BY <1>7, <3>4
  <2>3. outcome = "forbidden" => user # offers[id].user
    <3>1. outcome = "forbidden" => id \in DOMAIN actions /\ actions[id].user # user
      BY <1>1, <1>6, ReserveAnswers
    <3> QED BY <3>1 DEF HonestInv, ActionInv, OwnersAgree
  <2> QED BY <1>1, <1>6, <2>1, <2>2, <2>3 DEF HonestInv, RefusalsTell
<1>13. \A t \in Turns : TurnTells(turn'[t], offers', log')
  BY <1>1 DEF HonestInv
<1> QED BY <1>8, <1>9, <1>11, <1>12, <1>13 DEF HonestInv

\* A confirmation under way moves on: what others say still holds.
LEMMA HonestMoves ==
  ASSUME HonestInv, ActionInv', NEW c \in Confirms, NEW r, confirm' = [confirm EXCEPT ![c] = r],
         Started(c), r.id = confirm[c].id, r.user = confirm[c].user,
         r.outcome \in {"started", "ok", "error", "panic"},
         confirm[c].outcome = "ok" => r.outcome = "ok",
         confirm[c].outcome = "error" => r.outcome = "error",
         confirm[c].at \in {"completing", "done", "gone"} =>
           r.at \in {"completing", "done", "gone"},
         UNCHANGED <<offers, turn>>,
         ConfirmTells(r, offers, log'), ResultsTell(offers, confirm', log'),
         \A t \in Turns : TurnTells(turn[t], offers, log'),
         \A d \in Confirms \ {c} : ConfirmTells(confirm[d], offers, log'),
         StoreTells(actions', offers, confirm', log')
  PROVE  HonestInv'
<1>1. confirm \in [Confirms -> Confirm]
  BY DEF HonestInv, ActionInv, TypeOK
<1>2. \A d \in Confirms : confirm'[d] = IF d = c THEN r ELSE confirm[d]
  BY <1>1
<1>3. \A d \in Confirms : ConfirmTells(confirm'[d], offers, log')
  BY <1>2
<1>4. RefusalsTell(offers, confirm')
  <2> SUFFICES ASSUME NEW e \in Confirms
               PROVE  /\ confirm'[e].outcome = "conflict" =>
                           \E d \in Confirms :
                             /\ d # e /\ confirm'[d].id = confirm'[e].id
                             /\ confirm'[d].outcome \in {"started", "ok", "error", "panic"}
                      /\ confirm'[e].outcome = "forbidden" =>
                           confirm'[e].user # offers[confirm'[e].id].user
    BY DEF RefusalsTell
  <2>1. CASE e = c
    BY <1>2, <2>1
  <2>2. CASE e # c
    <3>1. confirm'[e] = confirm[e]
      BY <1>2, <2>2
    <3>2. confirm[e].outcome = "forbidden" => confirm[e].user # offers[confirm[e].id].user
      BY DEF HonestInv, RefusalsTell
    <3>3. ASSUME confirm[e].outcome = "conflict"
          PROVE  \E d \in Confirms :
                   /\ d # e /\ confirm'[d].id = confirm[e].id
                   /\ confirm'[d].outcome \in {"started", "ok", "error", "panic"}
      <4>1. PICK d \in Confirms : /\ d # e /\ confirm[d].id = confirm[e].id
                                  /\ confirm[d].outcome \in {"started", "ok", "error", "panic"}
        BY <3>3 DEF HonestInv, RefusalsTell
      <4> QED BY <1>2, <4>1
    <3> QED BY <3>1, <3>2, <3>3
  <2> QED BY <2>1, <2>2
<1> QED BY <1>3, <1>4 DEF HonestInv

\* A run that ended well is still there.
LEMMA ResultsStay ==
  ASSUME HonestInv, NEW c \in Confirms, NEW r, confirm' = [confirm EXCEPT ![c] = r],
         r.id = confirm[c].id, confirm[c].outcome = "ok" => r.outcome = "ok",
         confirm[c].at \in {"completing", "done", "gone"} =>
           r.at \in {"completing", "done", "gone"}
  PROVE  ResultsTell(offers, confirm', log)
<1>1. confirm \in [Confirms -> Confirm]
  BY DEF HonestInv, ActionInv, TypeOK
<1>2. \A d \in Confirms : confirm'[d] = IF d = c THEN r ELSE confirm[d]
  BY <1>1
<1>3. \A x \in Ids : (\E d \in Confirms : /\ confirm[d].id = x /\ confirm[d].outcome = "ok"
                                         /\ confirm[d].at \in {"completing", "done", "gone"})
                  => (\E d \in Confirms : /\ confirm'[d].id = x /\ confirm'[d].outcome = "ok"
                                          /\ confirm'[d].at \in {"completing", "done", "gone"})
  BY <1>2
<1> QED BY <1>3 DEF HonestInv, ResultsTell

\* A confirmation of another action says nothing of action x.
LEMMA StatusStays ==
  ASSUME HonestInv, NEW c \in Confirms, NEW r, confirm' = [confirm EXCEPT ![c] = r],
         r.id = confirm[c].id, NEW x \in DOMAIN actions, x # r.id
  PROVE  StatusTells(x, actions[x].status, offers, confirm', log)
<1>1. confirm \in [Confirms -> Confirm]
  BY DEF HonestInv, ActionInv, TypeOK
<1>2. \A d \in Confirms : confirm[d].id = x => confirm'[d] = confirm[d]
  BY <1>1
<1>3. StatusTells(x, actions[x].status, offers, confirm, log)
  BY DEF HonestInv, StoreTells
<1> QED BY <1>2, <1>3 DEF StatusTells

LEMMA HonestExecute ==
  ASSUME HonestInv, ActionInv', NEW c \in Confirms, Execute(c)
  PROVE  HonestInv'
<1>1. PICK at \in {"announcing", "failing", "done"}, outcome \in {"ok", "error", "panic"} :
        /\ confirm' = [confirm EXCEPT ![c] = [confirm[c] EXCEPT !.at = at, !.outcome = outcome]]
        /\ at = "announcing" => outcome = "ok"
        /\ at = "failing" => outcome = "error"
        /\ at = "done" => outcome = "panic"
  BY DEF Execute
<1> DEFINE r == [confirm[c] EXCEPT !.at = at, !.outcome = outcome]
<1>2. /\ UNCHANGED <<actions, offers, turn, log>> /\ confirm[c].at = "executing"
      /\ confirm \in [Confirms -> Confirm] /\ confirm[c] \in Confirm
      /\ ConfirmTells(confirm[c], offers, log) /\ Started(c)
  BY DEF Execute, HonestInv, ActionInv, TypeOK, PhasesAgree
<1>3. r.at = at /\ r.outcome = outcome /\ r.id = confirm[c].id /\ r.user = confirm[c].user
  BY <1>2 DEF Confirm
<1>4. confirm' = [confirm EXCEPT ![c] = r]
  BY <1>1
<1> HIDE DEF r
<1>5. confirm[c].outcome = "started"
  BY <1>2 DEF ConfirmTells
<1>6. ConfirmTells(r, offers, log')
  BY <1>1, <1>2, <1>3 DEF ConfirmTells
<1>7. ResultsTell(offers, confirm', log')
  BY <1>2, <1>3, <1>4, <1>5, ResultsStay
<1>8. StoreTells(actions', offers, confirm', log')
  <2> SUFFICES ASSUME NEW x \in DOMAIN actions
               PROVE  StatusTells(x, actions[x].status, offers, confirm', log)
    BY <1>2 DEF StoreTells
  <2>1. CASE x # r.id
    BY <1>3, <1>4, <2>1, StatusStays
  <2>2. CASE x = r.id
    <3>1. actions[x].status = "executing"
      BY <1>2, <1>3, <2>2 DEF HonestInv, ActionInv, RunningIsExecuting
    <3>2. confirm'[c] = r
      BY <1>2, <1>4
    <3>3. r.outcome \in {"ok", "error", "panic"} /\ (r.at # "done" \/ r.outcome = "panic")
      BY <1>1, <1>3
    <3> QED BY <2>2, <3>1, <3>2, <3>3 DEF StatusTells
  <2> QED BY <2>1, <2>2
<1>9. r.outcome \in {"started", "ok", "error", "panic"}
  BY <1>1, <1>3
<1>10. /\ \A t \in Turns : TurnTells(turn[t], offers, log')
       /\ \A d \in Confirms \ {c} : ConfirmTells(confirm[d], offers, log')
  BY <1>2 DEF HonestInv
<1> QED BY <1>2, <1>3, <1>4, <1>5, <1>6, <1>7, <1>8, <1>9, <1>10, HonestMoves

\* Fail and Complete: the action has the status of the run.
LEMMA HonestSettles ==
  ASSUME HonestInv, ActionInv', NEW c \in Confirms, Fail(c) \/ Complete(c)
  PROVE  HonestInv'
<1> DEFINE r == [confirm[c] EXCEPT !.at = "done"]
           id == confirm[c].id
<1>1. /\ UNCHANGED <<offers, turn, log>>
      /\ confirm' = [confirm EXCEPT ![c] = r]
      /\ \/ confirm[c].at = "failing" /\ Settle(id, "failed")
         \/ confirm[c].at = "completing" /\ Settle(id, "executed")
  BY DEF Fail, Complete
<1>2. /\ confirm \in [Confirms -> Confirm] /\ confirm[c] \in Confirm
      /\ ConfirmTells(confirm[c], offers, log) /\ Started(c) /\ TypeOK
      /\ id \in Ids
  BY <1>1 DEF HonestInv, ActionInv, TypeOK, PhasesAgree
<1>3. r.at = "done" /\ r.outcome = confirm[c].outcome /\ r.id = id /\ r.user = confirm[c].user
  BY <1>2 DEF Confirm
<1>4. PICK status \in {"failed", "executed"} :
        /\ Settle(id, status)
        /\ status = "failed" => r.outcome = "error"
        /\ status = "executed" => r.outcome = "ok" /\ Shown(log, "result", id, offers)
  BY <1>1, <1>2, <1>3 DEF ConfirmTells
<1>5. /\ DOMAIN actions' = DOMAIN actions
      /\ \A x \in DOMAIN actions \ {id} : actions'[x] = actions[x]
      /\ id \in DOMAIN actions => actions'[id].status = status
  <2> HIDE DEF id
  <2> QED BY <1>2, <1>4, SettleFacts
<1>6. confirm'[c] = r
  BY <1>1, <1>2
<1>10. confirm' = [confirm EXCEPT ![c] = r] /\ confirm[c].id = id
  BY <1>1
<1>14. confirm[c].at \in {"failing", "completing"}
  BY <1>1
<1> HIDE DEF r, id
<1>7. ConfirmTells(r, offers, log')
  BY <1>1, <1>2, <1>3, <1>10, <1>14 DEF ConfirmTells
<1>8. ResultsTell(offers, confirm', log')
  BY <1>1, <1>3, <1>10, ResultsStay
<1>9. StoreTells(actions', offers, confirm', log')
  <2> SUFFICES ASSUME NEW x \in DOMAIN actions
               PROVE  StatusTells(x, actions'[x].status, offers, confirm', log)
    BY <1>1, <1>5 DEF StoreTells
  <2>1. CASE x # id
    BY <1>3, <1>5, <1>10, <2>1, StatusStays
  <2>2. CASE x = id
    BY <1>3, <1>4, <1>5, <1>6, <2>2 DEF StatusTells
  <2> QED BY <2>1, <2>2
<1>11. r.outcome \in {"started", "ok", "error", "panic"}
  BY <1>2, <1>3 DEF Started
<1>12. /\ \A t \in Turns : TurnTells(turn[t], offers, log')
       /\ \A d \in Confirms \ {c} : ConfirmTells(confirm[d], offers, log')
  BY <1>1 DEF HonestInv
<1>13. UNCHANGED <<offers, turn>>
  BY <1>1
<1> QED BY <1>2, <1>3, <1>7, <1>8, <1>9, <1>10, <1>11, <1>12, <1>13, HonestMoves

\* The result is the first of its action: no other confirmation has run it.
LEMMA HonestAnnounce ==
  ASSUME HonestInv, ActionInv', NEW c \in Confirms, Announce(c)
  PROVE  HonestInv'
<1> DEFINE r == [confirm[c] EXCEPT !.at = "completing"]
           id == confirm[c].id
           s == offers[id].session
<1>1. /\ UNCHANGED <<actions, offers, turn>> /\ confirm[c].at = "announcing"
      /\ confirm' = [confirm EXCEPT ![c] = r] /\ confirm[c].id = id
      /\ SaveMessage(s, "result", id)
  BY DEF Announce
<1>2. /\ confirm \in [Confirms -> Confirm] /\ confirm[c] \in Confirm
      /\ ConfirmTells(confirm[c], offers, log) /\ Started(c) /\ TypeOK
      /\ id \in Ids
  BY <1>1 DEF HonestInv, ActionInv, TypeOK, PhasesAgree
<1>3. r.at = "completing" /\ r.outcome = confirm[c].outcome /\ r.id = id /\ r.user = confirm[c].user
  BY <1>2 DEF Confirm
<1>4. confirm[c].outcome = "ok" /\ id \in DOMAIN offers /\ Shown(log, "offer", id, offers)
  BY <1>1, <1>2 DEF ConfirmTells
<1>5. s \in Sessions
  BY <1>2, <1>4 DEF TypeOK, Offer
<1>6. LogGains(log, log', "result", id, s)
  <2> HIDE DEF s, id
  <2> QED BY <1>1, <1>2, <1>5, SavedGains
<1>7. confirm'[c] = r /\ \A d \in Confirms \ {c} : confirm'[d] = confirm[d]
  BY <1>1, <1>2
<1>8. \A d \in Confirms : Started(d) /\ confirm[d].id = id => d = c
  BY <1>2 DEF HonestInv, ActionInv, AttemptedOnce
<1>9. \A x \in DOMAIN offers : offers[x].session \in Sessions
  BY <1>2 DEF TypeOK, Offer
<1>10. \A k : \A x \in DOMAIN offers : Shown(log, k, x, offers) => Shown(log', k, x, offers)
  <2> HIDE DEF s, id
  <2> QED BY <1>5, <1>6, <1>9, ShownStays
<1>11. Shown(log', "result", id, offers)
  BY <1>6, GainShows
<1> DEFINE before == PositionIn(log, "result", id, s)
<1>12. \A x \in Sessions : PositionIn(log, "result", id, x) = {}
  <2> SUFFICES ASSUME NEW x \in Sessions, NEW i \in PositionIn(log, "result", id, x) PROVE FALSE
    OBVIOUS
  <2>1. PICK d \in Confirms : /\ confirm[d].id = id /\ confirm[d].outcome = "ok"
                              /\ confirm[d].at \in {"completing", "done", "gone"}
    BY <1>2 DEF HonestInv, ResultsTell
  <2> QED BY <1>1, <1>8, <2>1 DEF Started
<1>13. offers[id].session = s
  OBVIOUS
<1> HIDE DEF r, id, s, before
<1>14. ASSUME NEW x \in Ids, NEW t \in Sessions, NEW i \in PositionIn(log', "result", x, t)
       PROVE  /\ x \in DOMAIN offers /\ t = offers[x].session
              /\ PositionIn(log', "result", x, t) = {i}
              /\ DatabaseMayFail \/ \E j \in PositionIn(log', "offer", x, t) : j < i
              /\ \E d \in Confirms : /\ confirm'[d].id = x /\ confirm'[d].outcome = "ok"
                                     /\ confirm'[d].at \in {"completing", "done", "gone"}
  <2>1. \A y : PositionIn(log, "offer", y, t) \subseteq PositionIn(log', "offer", y, t)
    BY <1>6 DEF LogGains
  <2>2. CASE x = id /\ t = s /\ log' # log
    <3>1. PositionIn(log', "result", id, s) = {Len(log[s]) + 1}
      BY <1>5, <1>6, <1>12, <2>2 DEF LogGains
    <3>2. i = Len(log[s]) + 1
      BY <2>2, <3>1
    <3>3. ~DatabaseMayFail => \E j \in PositionIn(log, "offer", id, s) : j < Len(log[s]) + 1
      BY <1>4, <1>6, <1>13 DEF Shown, LogGains
    <3>4. DatabaseMayFail \/ \E j \in PositionIn(log', "offer", x, t) : j < i
      BY <2>1, <2>2, <3>2, <3>3
    <3>5. confirm'[c].id = id /\ confirm'[c].outcome = "ok" /\ confirm'[c].at = "completing"
      BY <1>3, <1>4, <1>7
    <3> QED BY <1>4, <1>13, <2>2, <3>1, <3>2, <3>4, <3>5
  <2>3. CASE ~(x = id /\ t = s /\ log' # log)
    <3>1. PositionIn(log', "result", x, t) = PositionIn(log, "result", x, t)
      BY <1>6, <2>3 DEF LogGains
    <3>2. /\ x \in DOMAIN offers /\ t = offers[x].session
          /\ PositionIn(log, "result", x, t) = {i}
          /\ DatabaseMayFail \/ \E j \in PositionIn(log, "offer", x, t) : j < i
          /\ \E d \in Confirms : /\ confirm[d].id = x /\ confirm[d].outcome = "ok"
                                 /\ confirm[d].at \in {"completing", "done", "gone"}
      BY <3>1 DEF HonestInv, ResultsTell
    <3>3. \E d \in Confirms : /\ confirm'[d].id = x /\ confirm'[d].outcome = "ok"
                              /\ confirm'[d].at \in {"completing", "done", "gone"}
      BY <1>1, <1>7, <3>2
    <3> QED BY <2>1, <3>1, <3>2, <3>3
  <2> QED BY <2>2, <2>3
<1>15. ResultsTell(offers, confirm', log')
  BY <1>14 DEF ResultsTell
<1>16. ConfirmTells(r, offers, log')
  BY <1>3, <1>4, <1>10, <1>11 DEF ConfirmTells
<1>17. StoreTells(actions', offers, confirm', log')
  <2> SUFFICES ASSUME NEW x \in DOMAIN actions
               PROVE  StatusTells(x, actions[x].status, offers, confirm', log')
    BY <1>1 DEF StoreTells
  <2>0. x \in DOMAIN offers
    BY DEF HonestInv, ActionInv, KnownIds
  <2>1. CASE x # id
    <3>1. StatusTells(x, actions[x].status, offers, confirm', log)
      BY <1>1, <1>3, <2>1, StatusStays
    <3> QED BY <1>10, <2>0, <3>1 DEF StatusTells
  <2>2. CASE x = id
    <3>1. actions[x].status = "executing"
      BY <1>1, <2>2 DEF HonestInv, ActionInv, RunningIsExecuting
    <3>2. confirm'[c].id = x /\ confirm'[c].outcome = "ok" /\ confirm'[c].at = "completing"
      BY <1>3, <1>4, <1>7, <2>2
    <3> QED BY <3>1, <3>2 DEF StatusTells
  <2> QED BY <2>1, <2>2
<1>18. \A t \in Turns : TurnTells(turn[t], offers, log')
  BY <1>10 DEF HonestInv, TurnTells
<1>19. \A d \in Confirms \ {c} : ConfirmTells(confirm[d], offers, log')
  BY <1>10 DEF HonestInv, ConfirmTells
<1>20. /\ confirm' = [confirm EXCEPT ![c] = r] /\ UNCHANGED <<offers, turn>>
       /\ r.id = confirm[c].id /\ r.user = confirm[c].user /\ r.outcome = "ok"
       /\ confirm[c].outcome # "error" /\ r.at = "completing"
  BY <1>1, <1>3, <1>4
<1> QED BY <1>2, <1>15, <1>16, <1>17, <1>18, <1>19, <1>20, HonestMoves

\* A restart empties the store and ends what is under way.
LEMMA HonestRestart ==
  ASSUME HonestInv, ActionInv', Restart
  PROVE  HonestInv'
<1>1. /\ DOMAIN actions' = {} /\ UNCHANGED <<offers, log>> /\ TypeOK
      /\ confirm \in [Confirms -> Confirm] /\ turn \in [Turns -> Turn]
  BY DEF Restart, NoActions, HonestInv, ActionInv, TypeOK
<1>2. \A c \in Confirms :
        \/ confirm'[c] = confirm[c]
        \/ /\ confirm[c].at \notin {"idle", "done"} /\ confirm'[c].at = "gone"
           /\ confirm'[c].id = confirm[c].id /\ confirm'[c].user = confirm[c].user
           /\ confirm'[c].outcome = confirm[c].outcome
  BY <1>1 DEF Restart, Confirm
<1>3. \A t \in Turns : turn'[t] = turn[t] \/ turn'[t].at = "gone"
  BY <1>1 DEF Restart, Turn
<1>4. \A t \in Turns : TurnTells(turn'[t], offers', log')
  BY <1>1, <1>3 DEF HonestInv, TurnTells
<1>5. \A c \in Confirms : ConfirmTells(confirm'[c], offers', log')
  BY <1>1, <1>2 DEF HonestInv, ConfirmTells
<1>6. \A x \in Ids : (\E d \in Confirms : /\ confirm[d].id = x /\ confirm[d].outcome = "ok"
                                         /\ confirm[d].at \in {"completing", "done", "gone"})
                  => (\E d \in Confirms : /\ confirm'[d].id = x /\ confirm'[d].outcome = "ok"
                                          /\ confirm'[d].at \in {"completing", "done", "gone"})
  BY <1>2
<1>7. ResultsTell(offers', confirm', log')
  BY <1>1, <1>6 DEF HonestInv, ResultsTell
<1>8. StoreTells(actions', offers', confirm', log')
  BY <1>1 DEF StoreTells
<1>9. \A c \in Confirms : /\ confirm'[c].id = confirm[c].id
                          /\ confirm'[c].user = confirm[c].user
                          /\ confirm'[c].outcome = confirm[c].outcome
  BY <1>2
<1>10. RefusalsTell(offers', confirm')
  BY <1>1, <1>9 DEF HonestInv, RefusalsTell
<1> QED BY <1>4, <1>5, <1>7, <1>8, <1>10 DEF HonestInv

LEMMA HonestNext ==
  ASSUME HonestInv, ActionInv', [Next]_vars
  PROVE  HonestInv'
<1>1. ASSUME NEW t \in Turns, NEW user \in Users, NEW session \in Sessions,
             TurnOpens(t, user, session)
      PROVE  HonestInv'
  BY <1>1, HonestTurnOpens
<1>2. ASSUME NEW t \in Turns,
             TurnRefused(t) \/ TurnFails(t) \/ TurnAnswers(t) \/ TurnReplies(t)
      PROVE  HonestInv'
  BY <1>2, HonestTurnEnds
<1>3. ASSUME NEW t \in Turns, NEW id \in Ids, TurnProposes(t, id) PROVE HonestInv'
  BY <1>3, HonestTurnProposes
<1>4. ASSUME NEW c \in Confirms, NEW id \in Ids, NEW user \in Users, Reserve(c, id, user)
      PROVE  HonestInv'
  BY <1>4, HonestReserve
<1>5. ASSUME NEW c \in Confirms, ConfirmStep(c) PROVE HonestInv'
  BY <1>5, HonestExecute, HonestSettles, HonestAnnounce DEF ConfirmStep
<1>6. CASE Restart
  BY <1>6, HonestRestart
<1>7. CASE Tick \/ UNCHANGED vars
  <2>1. UNCHANGED <<actions, offers, turn, confirm, log>>
    BY <1>7 DEF Tick, vars
  <2> QED BY <2>1 DEF HonestInv
<1> QED BY <1>1, <1>2, <1>3, <1>4, <1>5, <1>6, <1>7 DEF Next, TurnStep

LEMMA HonestInit == Init => HonestInv
<1> SUFFICES ASSUME Init PROVE HonestInv
  OBVIOUS
<1>1. /\ DOMAIN actions = {}
      /\ \A t \in Turns : turn[t].at = "idle"
      /\ \A c \in Confirms : confirm[c].at = "idle" /\ confirm[c].outcome = "none"
      /\ \A s \in Sessions : log[s] = <<>>
  BY DEF Init, NoActions
<1>2. \A kind, id : \A s \in Sessions : PositionIn(log, kind, id, s) = {}
  BY <1>1 DEF PositionIn
<1> QED BY <1>1, <1>2, InvInit
        DEF HonestInv, TurnTells, ConfirmTells, ResultsTell, StoreTells, RefusalsTell

\* What the answers, the store and the chat say of an action is what was done,
\* whatever comes between proposal, confirmation and outcome (Reserve, Complete,
\* Fail, and the messages of Confirm).
THEOREM AnswersAreHonest == Spec => []ActionsAreHonest
<1>1. Init => HonestInv
  BY HonestInit
<1>2. HonestInv /\ ActionInv' /\ [Next]_vars => HonestInv'
  BY HonestNext
<1>3. HonestInv => ActionsAreHonest
  BY HonestInvImplies
<1> QED BY <1>1, <1>2, <1>3, ActionInvariant, PTL DEF Spec

=============================================================================
