---------------------------- MODULE ConfirmOnce ----------------------------
(***************************************************************************)
(* What the knowledge agent promises of the actions it proposes: an offer  *)
(* made to a user may be taken by that user, once; an offer that was taken *)
(* or withdrawn never opens again.                                         *)
(***************************************************************************)
EXTENDS Maps

CONSTANTS
  Ids,       \* action ids
  Users,     \* user ids
  Requests   \* the requests that may take an offer

VARIABLES
  seen,    \* ids ever offered
  open,    \* open offers: a map from their ids to the user they were made to
  taken    \* offers taken: the request, the id, the user of the request

vars == <<seen, open, taken>>

Taking == [by : Requests, id : Ids, user : Users]

Init ==
  /\ seen = {}
  /\ open = [id \in {} |-> {}]
  /\ taken = {}

\* A new offer; others, or this one, may be withdrawn to make room.
Offer(id, user, gone) ==
  /\ id \notin seen
  /\ seen' = seen \cup {id}
  /\ open' = Drop(Put(open, id, user), gone)
  /\ UNCHANGED taken

Take(request, id, gone) ==
  /\ id \in DOMAIN open \ gone
  /\ taken' = taken \cup {[by |-> request, id |-> id, user |-> open[id]]}
  /\ open' = Drop(open, gone \cup {id})
  /\ UNCHANGED seen

Withdraw(gone) ==
  /\ open' = Drop(open, gone)
  /\ UNCHANGED <<seen, taken>>

Next ==
  \E gone \in SUBSET Ids :
    \/ Withdraw(gone)
    \/ \E id \in Ids :
         \/ \E user \in Users : Offer(id, user, gone)
         \/ \E request \in Requests : Take(request, id, gone)

Spec == Init /\ [][Next]_vars

=============================================================================
