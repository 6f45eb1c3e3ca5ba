--------------------------- MODULE KnowledgeSources ---------------------------
(***************************************************************************)
(* The sources of the knowledge base: SourceManager, Indexer and           *)
(* SourceCatalog of internal/rag over Qdrant and over the MySQL registry   *)
(* of internal/ragregistry.                                                *)
(*                                                                         *)
(* A source is a text under a name in a scope.  It is indexed as chunks:   *)
(* the chunks of the source are deleted, the new ones upserted, and the    *)
(* registry told, three calls to two databases without a transaction or a  *)
(* lock.  Any number of requests do this at the same time, each call may   *)
(* fail, and the process may end between any two.                          *)
(***************************************************************************)
EXTENDS Naturals

CONSTANTS
  Requests,       \* requests under way at the same time; one starts anew when it ends
  Users,          \* user ids
  Sessions,       \* session ids
  None,           \* the empty id
  Names,          \* what identifies a source in its scope: its name, URL or task
  Texts,          \* the texts a source may have
  MaxChunks,      \* the most chunks a text may have
  Size,           \* Size[t]: chunks of text t; 0 when cleaning leaves nothing of it
  MaxStarts       \* bound: requests in all

ASSUME SourceConstants ==
  /\ None \notin Users \cup Sessions
  /\ \A text \in Texts, user \in Users \cup {None}, session \in Sessions \cup {None} :
       None # [text |-> text, owner |-> [user |-> user, session |-> session]]
  /\ {"nothing", "unknown"} \cap Texts = {}
  /\ MaxChunks \in Nat
  /\ Size \in [Texts -> 0..MaxChunks]
  /\ MaxStarts \in Nat

VARIABLES
  points,     \* points[s][i]: the i-th chunk of source s, as Qdrant acknowledged it
  visible,    \* visible[s][i]: the same as searches and scrolls of Qdrant see it
  registry,   \* registry[s]: the row of source s in MySQL
  request,    \* request[r]: where the call of IndexSource or DeleteSources r is
  clashed,    \* sources two requests worked on at once, and none alone since (history)
  told,       \* told[s]: what callers were last told source s holds (history)
  given,      \* given[s]: the same, of the last caller whose text had chunks (history)
  unrecorded, \* sources whose last registry write failed, or never came (history)
  starts      \* requests so far, up to the bound

history == <<clashed, told, given, unrecorded>>

vars == <<points, visible, registry, request, history, starts>>

-----------------------------------------------------------------------------
(* Scopes.                                                                 *)

Scope == [user : Users \cup {None}, session : Sessions \cup {None}]

\* ResolveScope under PersonalKnowledgeScopePolicy; a request without user and
\* session is refused.
ResolveScope(user, session) ==
  [user |-> user, session |-> IF user = None THEN session ELSE None]

\* The scopes in which anything is indexed.
Owners == {ResolveScope(u, s) : u \in Users \cup {None}, s \in Sessions \cup {None}}
            \ {[user |-> None, session |-> None]}

\* newChunkIdentity: the source_id is a hash of the scope and the metadata.
SourceOf(scope, name) == [scope |-> scope, name |-> name]

Sources == [scope : Owners, name : Names]

\* The filter of a delete: DELETE /rag/sources/:id resolves the scope, the
\* knowledge agent passes the user and the session of the action.
DeleteFilter(caller, user, session) ==
  IF caller = "agent" THEN [user |-> user, session |-> session]
  ELSE ResolveScope(user, session)

\* buildScopeFilter: what the filter leaves empty is not asked for.
Matches(scope, filter) ==
  /\ filter.user # None => scope.user = filter.user
  /\ filter.session # None => scope.session = filter.session

-----------------------------------------------------------------------------
Chunk == [text : Texts, owner : Owners]

\* The status of a source's row; its chunk count and titles are left out.
Status == {"none", "active", "deleted"}

Phases == {"chunking", "clearing", "upserting", "recording", "deleting", "marking"}

Request == [at : {"idle"}] \cup
           [at : Phases, source : Sources, filter : Scope, text : Texts \cup {None},
            alone : BOOLEAN]

Idle == [at |-> "idle"]

\* What a request says of a source when it ends: the text it gave, nothing when
\* it deleted it or none came yet, or unknown because a call failed.
Answers == Texts \cup {"nothing", "unknown"}

\* The texts of which cleaning leaves nothing.
BlankTexts == {text \in Texts : Size[text] = 0}

Busy(s) == {r \in Requests : request[r] # Idle /\ request[r].source = s}

NoChunks == [i \in 1..MaxChunks |-> None]

\* The chunks of a text indexed by `owner`.
ChunksOf(text, owner) ==
  [i \in 1..MaxChunks |-> IF i <= Size[text] THEN [text |-> text, owner |-> owner] ELSE None]

\* Chunk ids are stable, so an upsert replaces chunk i and leaves the others.
Upsert(chunks, new) == [i \in 1..MaxChunks |-> IF new[i] # None THEN new[i] ELSE chunks[i]]

-----------------------------------------------------------------------------
(* Qdrant.  An upsert is acknowledged before it is applied, a delete (wait: *)
(* true) when it and all updates before it are.                            *)

UpsertPoints(s, new) ==
  /\ points' = [points EXCEPT ![s] = Upsert(@, new)]
  /\ UNCHANGED visible

\* The chunks of s whose payload matches the filter go.
Delete(s, filter) ==
  /\ points' = [points EXCEPT ![s] =
                  [i \in 1..MaxChunks |->
                     IF @[i] # None /\ Matches(@[i].owner, filter) THEN None ELSE @[i]]]
  /\ visible' = points'

\* An upsert of source s is applied.
Apply(s) ==
  /\ visible[s] # points[s]
  /\ visible' = [visible EXCEPT ![s] = points[s]]
  /\ UNCHANGED <<points, registry, request, history, starts>>

-----------------------------------------------------------------------------
(* Requests.                                                               *)

\* A request starts on source s, which it has to itself until another does.
Start(r, s, filter, text, at) ==
  /\ request[r] = Idle
  /\ starts < MaxStarts
  /\ starts' = starts + 1
  /\ request' = [q \in Requests |->
       IF q = r THEN [at |-> at, source |-> s, filter |-> filter, text |-> text,
                      alone |-> Busy(s) = {}]
       ELSE IF q \in Busy(s) THEN [request[q] EXCEPT !.alone = FALSE]
       ELSE request[q]]
  /\ clashed' = IF Busy(s) = {} THEN clashed ELSE clashed \cup {s}
  /\ UNCHANGED <<points, visible, registry, told, given, unrecorded>>

Moves(r, at) == request' = [request EXCEPT ![r] = [@ EXCEPT !.at = at]]

Ends(r) == request' = [request EXCEPT ![r] = Idle]

\* Whether request r may change anything of its source.
Reaches(r) == Matches(request[r].source.scope, request[r].filter)

\* Request r returns the error of a call.
Fails(r) ==
  /\ Ends(r)
  /\ told' = IF Reaches(r) THEN [told EXCEPT ![request[r].source] = "unknown"] ELSE told
  /\ given' = IF Reaches(r) THEN [given EXCEPT ![request[r].source] = "unknown"] ELSE given
  /\ unrecorded' = IF Reaches(r) THEN unrecorded \cup {request[r].source} ELSE unrecorded
  /\ UNCHANGED clashed

\* Request r returns success and gave its source `content`; when it had the
\* source to itself, no trace of an earlier clash is left.
Succeeds(r, content, recorded) ==
  LET s == request[r].source IN
  /\ Ends(r)
  /\ IF Reaches(r)
     THEN /\ told' = [told EXCEPT ![s] = content]
          /\ given' = [given EXCEPT ![s] = content]
          /\ unrecorded' = IF recorded THEN unrecorded \ {s} ELSE unrecorded \cup {s}
          /\ clashed' = IF request[r].alone THEN clashed \ {s} ELSE clashed
     ELSE UNCHANGED history

-----------------------------------------------------------------------------
(* Indexing a source: indexDocumentsScoped, then recordIndexed.            *)

IndexStarts(r, user, session, name, text) ==
  /\ ResolveScope(user, session) \in Owners
  /\ Start(r, SourceOf(ResolveScope(user, session), name), ResolveScope(user, session),
           text, "chunking")

\* The collection exists, the text is chunked and its chunks are embedded.
IndexChunks(r) ==
  /\ request[r].at = "chunking"
  /\ request[r].text \notin BlankTexts
  /\ Moves(r, "clearing")
  /\ UNCHANGED <<points, visible, registry, history, starts>>

\* Variant: the delete runs before it is known whether there are chunks.
IndexBlankClears(r) ==
  /\ request[r].at = "chunking"
  /\ request[r].text \in BlankTexts
  /\ Ends(r)
  /\ Delete(request[r].source, [user |-> None, session |-> None])
  /\ told' = [told EXCEPT ![request[r].source] = request[r].text]
  /\ UNCHANGED <<registry, clashed, given, unrecorded, starts>>

\* A text without chunks: the caller is told that it was indexed, in no chunk,
\* and whatever the source held before stays.
IndexBlank(r) ==
  /\ request[r].at = "chunking"
  /\ request[r].text \in BlankTexts
  /\ Ends(r)
  /\ told' = [told EXCEPT ![request[r].source] = request[r].text]
  /\ UNCHANGED <<points, visible, registry, clashed, given, unrecorded, starts>>

\* EnsureCollection or Embed returns an error; nothing was changed.
IndexRefused(r) ==
  /\ request[r].at = "chunking"
  /\ Ends(r)
  /\ UNCHANGED <<points, visible, registry, history, starts>>

\* Variant: the chunks of the text replace the old ones one by one.
IndexClearsNothing(r) ==
  /\ request[r].at = "clearing"
  /\ Moves(r, "upserting")
  /\ UNCHANGED <<points, visible, registry, history, starts>>

\* deleteSources without a filter: the source_id holds the scope.
IndexClears(r) ==
  /\ request[r].at = "clearing"
  /\ Delete(request[r].source, [user |-> None, session |-> None])
  /\ Moves(r, "upserting")
  /\ UNCHANGED <<registry, history, starts>>

IndexUpserts(r) ==
  /\ request[r].at = "upserting"
  /\ UpsertPoints(request[r].source, ChunksOf(request[r].text, request[r].filter))
  /\ Moves(r, "recording")
  /\ UNCHANGED <<registry, history, starts>>

\* Variant: a row that was marked deleted keeps its mark.
RecordKeepsMark(r) ==
  LET s == request[r].source IN
  /\ request[r].at = "recording"
  /\ registry' = [registry EXCEPT ![s] = IF @ = "deleted" THEN @ ELSE "active"]
  /\ Succeeds(r, request[r].text, TRUE)
  /\ UNCHANGED <<points, visible, starts>>

\* RecordIndexed: an upsert of the row, which clears deleted_at.
Record(r) ==
  /\ request[r].at = "recording"
  /\ registry' = [registry EXCEPT ![request[r].source] = "active"]
  /\ Succeeds(r, request[r].text, TRUE)
  /\ UNCHANGED <<points, visible, starts>>

-----------------------------------------------------------------------------
(* Deleting a source: DeleteSourcesWithOptions, then markDeleted.          *)

DeleteStarts(r, s, caller, user, session) ==
  /\ caller = "http" => ResolveScope(user, session) \in Owners
  /\ caller = "agent" => user # None
  /\ Start(r, s, DeleteFilter(caller, user, session), None, "deleting")

\* Variant: the id of the source is enough.
DeleteAnybodys(r) ==
  /\ request[r].at = "deleting"
  /\ Delete(request[r].source, [user |-> None, session |-> None])
  /\ Moves(r, "marking")
  /\ UNCHANGED <<registry, history, starts>>

DeletePoints(r) ==
  /\ request[r].at = "deleting"
  /\ Delete(request[r].source, request[r].filter)
  /\ Moves(r, "marking")
  /\ UNCHANGED <<registry, history, starts>>

\* MarkDeleted updates the row that the filter matches, if there is one.
MarkDeleted(r) ==
  LET s == request[r].source IN
  /\ request[r].at = "marking"
  /\ registry' = IF Reaches(r) /\ registry[s] # "none"
                 THEN [registry EXCEPT ![s] = "deleted"] ELSE registry
  /\ Succeeds(r, "nothing", TRUE)
  /\ UNCHANGED <<points, visible, starts>>

-----------------------------------------------------------------------------
(* Failures.                                                               *)

\* A call of Qdrant returns an error, having taken effect or not.
QdrantFails(r) ==
  /\ \/ /\ request[r].at = "clearing"
        /\ Delete(request[r].source, [user |-> None, session |-> None])
     \/ /\ request[r].at = "upserting"
        /\ UpsertPoints(request[r].source, ChunksOf(request[r].text, request[r].filter))
     \/ /\ request[r].at = "deleting"
        /\ Delete(request[r].source, request[r].filter)
     \/ /\ request[r].at \in {"clearing", "upserting", "deleting"}
        /\ UNCHANGED <<points, visible>>
  /\ Fails(r)
  /\ UNCHANGED <<registry, starts>>

\* The registry returns an error, which is only logged.  Without MySQL there
\* is no registry, and every call ends like this.
RegistryFails(r) ==
  /\ \/ request[r].at = "recording" /\ Succeeds(r, request[r].text, FALSE)
     \/ request[r].at = "marking" /\ Succeeds(r, "nothing", FALSE)
  /\ UNCHANGED <<points, visible, registry, starts>>

\* The gateway ends; Qdrant and MySQL keep what they have.
Crash ==
  LET cut == {request[r].source : r \in {q \in Requests : request[q] # Idle /\ Reaches(q)}} IN
  /\ request' = [r \in Requests |-> Idle]
  /\ told' = [s \in Sources |-> IF s \in cut THEN "unknown" ELSE told[s]]
  /\ given' = [s \in Sources |-> IF s \in cut THEN "unknown" ELSE given[s]]
  /\ unrecorded' = unrecorded \cup cut
  /\ UNCHANGED <<points, visible, registry, clashed, starts>>

-----------------------------------------------------------------------------
Init ==
  /\ points = [s \in Sources |-> NoChunks]
  /\ visible = points
  /\ registry = [s \in Sources |-> "none"]
  /\ request = [r \in Requests |-> Idle]
  /\ clashed = {}
  /\ told = [s \in Sources |-> "nothing"]
  /\ given = told
  /\ unrecorded = {}
  /\ starts = 0

RequestStep(r) ==
  \/ \E user \in Users \cup {None}, session \in Sessions \cup {None} :
       \/ \E name \in Names, text \in Texts : IndexStarts(r, user, session, name, text)
       \/ \E s \in Sources, caller \in {"http", "agent"} :
            DeleteStarts(r, s, caller, user, session)
  \/ IndexChunks(r)
  \/ IndexBlank(r)
  \/ IndexRefused(r)
  \/ IndexClears(r)
  \/ IndexUpserts(r)
  \/ Record(r)
  \/ DeletePoints(r)
  \/ MarkDeleted(r)
  \/ QdrantFails(r)
  \/ RegistryFails(r)

Next ==
  \/ \E r \in Requests : RequestStep(r)
  \/ \E s \in Sources : Apply(s)
  \/ Crash

Spec == Init /\ [][Next]_vars

-----------------------------------------------------------------------------
(* Properties.                                                             *)

\* The variables hold values of their types; the chunks of a source are numbered
\* without a gap, whatever clashed or failed on the way.
TypeOK ==
  /\ points \in [Sources -> [1..MaxChunks -> Chunk \cup {None}]]
  /\ visible \in [Sources -> [1..MaxChunks -> Chunk \cup {None}]]
  /\ \A s \in Sources, i \in 2..MaxChunks : points[s][i] # None => points[s][i - 1] # None
  /\ registry \in [Sources -> Status]
  /\ request \in [Requests -> Request]
  /\ clashed \subseteq Sources
  /\ told \in [Sources -> Answers]
  /\ given \in [Sources -> Answers \ BlankTexts]
  /\ unrecorded \subseteq Sources
  /\ starts \in 0..MaxStarts

\* Source s is what its callers were told they made of it; after a text without
\* chunks it is still what the caller before was told.
Whole(s) ==
  /\ told[s] \in BlankTexts \/ told[s] = given[s]
  /\ given[s] \in Texts => points[s] = ChunksOf(given[s], s.scope)
  /\ given[s] = "nothing" => points[s] = NoChunks

\* A source that no request works on, and that no two worked on at once since
\* one had it to itself, holds the text that its last caller was told is
\* indexed, every chunk of it and none of an earlier text, whatever failed or
\* crashed before; once deleted it holds nothing.  The exception is a text of
\* which cleaning leaves nothing: its caller is told success too, but the
\* source keeps the text before it, and keeps it whole (indexDocumentsScoped
\* returns before the delete).
SourceIsWhole == \A s \in Sources \ clashed : Busy(s) = {} => Whole(s)

\* ListSources: the active rows in the scope, or a scan of Qdrant if there is none.
Listed(scope) ==
  LET active  == {s \in Sources : registry[s] = "active" /\ Matches(s.scope, scope)}
      scanned == {s \in Sources : visible[s] # NoChunks /\ Matches(s.scope, scope)}
  IN  IF active # {} THEN active ELSE scanned

\* The registry knows, and the catalog lists, exactly the sources that have
\* chunks, as far as no request is at work on them, none clashed there, Qdrant
\* has applied its upserts and the last write of the registry succeeded.
ListsWhatIsThere ==
  \A s \in Sources \ (clashed \cup unrecorded) :
    (Busy(s) = {} /\ visible[s] = points[s]) =>
      /\ registry[s] = "active" <=> points[s] # NoChunks
      /\ s \in Listed(s.scope) <=> points[s] # NoChunks

\* The chunks of a source change only by a request that works on it within its
\* scope: whoever knows the id of another's source can neither delete it nor
\* write to it, and the same name under two owners is two sources.
OthersUntouched ==
  [][\A s \in Sources :
       points'[s] # points[s] =>
         \E r \in Busy(s) : request'[r] # request[r] /\ Matches(s.scope, request[r].filter)]_vars

\* When Qdrant has answered the delete of a user's own source, and the request
\* had it to itself, its chunks are gone; the user is told so.
DeletedIsGone ==
  \A r \in Requests :
    request[r].at = "marking" /\ request[r].alone =>
      LET s == request[r].source IN
      s.scope.user # None /\ s.scope.user = request[r].filter.user => points[s] = NoChunks

-----------------------------------------------------------------------------
(* The inductive invariant.                                                *)

Indexing == {"chunking", "clearing", "upserting", "recording"}

\* An index request writes to the scope that its source is named in, and past
\* the chunking its text has chunks.
IndexesOwn ==
  \A r \in Requests :
    request[r].at \in Indexing =>
      /\ request[r].filter = request[r].source.scope
      /\ request[r].text \in Texts
      /\ request[r].at # "chunking" => Size[request[r].text] > 0

\* The chunks of a source belong to its scope.
ChunksOwned ==
  \A s \in Sources, i \in 1..MaxChunks : points[s][i] # None => points[s][i].owner = s.scope

\* A request that is alone on its source is the only one there.
AloneIsAlone ==
  \A r, q \in Requests :
    request[r] # Idle /\ request[q] # Idle /\ r # q /\ request[r].source = request[q].source
      => ~request[r].alone

\* Without a clash every request is alone.
UnclashedAlone ==
  \A r \in Requests : request[r] # Idle /\ ~request[r].alone => request[r].source \in clashed

\* What a request that is alone has made of its source.
PhaseFacts ==
  \A r \in Requests :
    request[r] # Idle /\ request[r].alone =>
      LET s == request[r].source IN
      /\ request[r].at = "upserting" => points[s] = NoChunks
      /\ request[r].at = "recording" => points[s] = ChunksOf(request[r].text, s.scope)
      /\ request[r].at = "marking" /\ Reaches(r) => points[s] = NoChunks

\* Nobody has changed source s since a request on it ended.
AsEnded(s) ==
  \A r \in Busy(s) : request[r].at \in {"chunking", "clearing", "deleting"} \/ ~Reaches(r)

WholeAsEnded == \A s \in Sources \ clashed : AsEnded(s) => Whole(s)

\* The row of a source is active exactly when it has chunks.
Registered(s) == registry[s] = "active" <=> points[s] # NoChunks

RegisteredAsEnded ==
  \A s \in Sources \ (clashed \cup unrecorded) : AsEnded(s) => Registered(s)

\* The conjunction that every step preserves: besides the types, who is alone
\* on a source, what that request has made of it, and what the last one left.
SourceInv ==
  /\ TypeOK
  /\ IndexesOwn
  /\ ChunksOwned
  /\ AloneIsAlone
  /\ UnclashedAlone
  /\ PhaseFacts
  /\ WholeAsEnded
  /\ RegisteredAsEnded

=============================================================================
