----------------------------- MODULE SearchCache -----------------------------
(***************************************************************************)
(* The cache of web searches, internal/search/cache.go, under concurrent   *)
(* calls of Service.Search of internal/search/service.go.                  *)
(*                                                                         *)
(* A search reads the cache under the read lock, judges the age of what it *)
(* read without a lock, and removes a stale entry under the write lock;    *)
(* then it computes a result (module WebSearch) and stores it.  `order`    *)
(* lists the keys as they came; eviction takes from its front.  A key that *)
(* was removed for its age stays in `order`, and is in it twice when it    *)
(* comes back.  A result stands for the search that computed it.           *)
(***************************************************************************)
EXTENDS Naturals, Sequences, SequencesExt, FiniteSets, Maps

CONSTANTS
  WebQueries,   \* what is searched for, as normalizeCacheKey writes it
  Searches,     \* calls of Service.Search: one value per call
  NoSearch,
  MaxKeys,      \* capacity of the cache
  TTL,          \* how long an entry is fresh
  MaxTime       \* bound of the model: ticks of the clock

ASSUME CacheConstants ==
  /\ NoSearch \notin Searches
  /\ MaxKeys \in Nat \ {0}
  /\ TTL \in Nat \ {0}
  /\ MaxTime \in Nat

VARIABLES
  items,    \* the map: items[q] is the result for q and the time it expires
  order,    \* the keys in the order in which they came
  search,   \* search[s]: where call s is, what it read, and what it answers
  time

cacheVars == <<items, order, search, time>>

-----------------------------------------------------------------------------
Entry == [result : Searches, expires : Nat]

NoEntry == [result |-> NoSearch, expires |-> 0]

Calls(s, f) == search' = [search EXCEPT ![s] = f]

\* Get: what is in the map for the query.
LookUp(s, q) ==
  /\ search[s].at = "idle"
  /\ Calls(s, IF q \in DOMAIN items
              THEN [search[s] EXCEPT !.at = "check", !.for = q, !.read = items[q]]
              ELSE [search[s] EXCEPT !.at = "compute", !.for = q])
  /\ UNCHANGED <<items, order, time>>

\* The copy is answered while it is fresh.
CheckAge(s) ==
  LET read == search[s].read
  IN  /\ search[s].at = "check"
      /\ Calls(s, IF time > read.expires THEN [search[s] EXCEPT !.at = "drop"]
                  ELSE [search[s] EXCEPT !.at = "ended", !.answer = read.result, !.when = time])
      /\ UNCHANGED <<items, order, time>>

\* The entry goes, whatever it is by now; its key stays in `order`.
DropStale(s) ==
  /\ search[s].at = "drop"
  /\ items' = Drop(items, {search[s].for})
  /\ Calls(s, [search[s] EXCEPT !.at = "compute", !.read = NoEntry])
  /\ UNCHANGED <<order, time>>

\* The pipeline of WebSearch returns a result, or an error that ends the call.
Compute(s) ==
  /\ search[s].at = "compute"
  /\ \/ Calls(s, [search[s] EXCEPT !.at = "store", !.answer = s])
     \/ Calls(s, [search[s] EXCEPT !.at = "ended", !.when = time])
  /\ UNCHANGED <<items, order, time>>

\* evictLocked: keys are taken from the front of `order` until the map fits.
EvictLocked(map, keys) ==
  LET Kept(n) == Drop(map, {keys[i] : i \in 1..n})
      Over(n) == Cardinality(DOMAIN Kept(n)) > MaxKeys
  IN  \E n \in 0..Len(keys) :
        /\ \A k \in 0..n - 1 : Over(k)
        /\ Over(n) => n = Len(keys)
        /\ items' = Kept(n)
        /\ order' = SubSeq(keys, n + 1, Len(keys))

\* Variant: whether the key is new is asked after it was stored.
SetUnlisted(s) ==
  LET q == search[s].for
  IN  /\ search[s].at = "store"
      /\ EvictLocked(Put(items, q, [result |-> s, expires |-> time + TTL]), order)
      /\ Calls(s, [search[s] EXCEPT !.at = "ended", !.when = time])
      /\ UNCHANGED time

\* Set: the entry is stored, and the cache cut to its capacity.
Set(s) ==
  LET q == search[s].for
  IN  /\ search[s].at = "store"
      /\ EvictLocked(Put(items, q, [result |-> s, expires |-> time + TTL]),
                     IF q \in DOMAIN items THEN order ELSE Append(order, q))
      /\ Calls(s, [search[s] EXCEPT !.at = "ended", !.when = time])
      /\ UNCHANGED time

TimePasses ==
  /\ time < MaxTime
  /\ time' = time + 1
  /\ UNCHANGED <<items, order, search>>

-----------------------------------------------------------------------------
CacheInit ==
  /\ items = [q \in {} |-> NoEntry]
  /\ order = <<>>
  /\ search = [s \in Searches |-> [at |-> "idle", for |-> NoSearch, read |-> NoEntry,
                                   answer |-> NoSearch, when |-> 0]]
  /\ time = 0

SearchStep(s) == CheckAge(s) \/ DropStale(s) \/ Compute(s) \/ Set(s)

CacheNext ==
  \/ \E s \in Searches : (\E q \in WebQueries : LookUp(s, q)) \/ SearchStep(s)
  \/ TimePasses

CacheSpec == CacheInit /\ [][CacheNext]_cacheVars

-----------------------------------------------------------------------------
(* Properties.                                                             *)

CacheTypeOK ==
  /\ DOMAIN items \subseteq WebQueries
  /\ items \in [DOMAIN items -> Entry]
  /\ order \in Seq(WebQueries)
  /\ \A s \in Searches : search[s].read \in Entry \cup {NoEntry}
  /\ time \in Nat

\* The map never holds more than its capacity, and eviction can reach every
\* key of it, whatever stale keys `order` lists besides: otherwise a full
\* cache could no longer be cut.
CacheBounded ==
  /\ Cardinality(DOMAIN items) <= MaxKeys
  /\ DOMAIN items \subseteq ToSet(order)

\* An answer that came from the cache was computed, by another call, for the
\* same query, and ended at most TTL before it was given ("expected expired
\* cache miss", TestMemoryCacheReturnsClonedResultAndExpires), although the
\* entry may be replaced or removed between the read and the answer.
HitsAreFresh ==
  \A s \in Searches :
    LET from == search[s].answer
    IN  search[s].at = "ended" /\ from \notin {NoSearch, s} =>
          /\ search[from].at = "ended" /\ search[from].answer = from
          /\ search[from].for = search[s].for
          /\ search[s].when <= search[from].when + TTL

CacheInv == CacheTypeOK /\ CacheBounded /\ HitsAreFresh

=============================================================================
