--------------------------- MODULE KnowledgeTurn ---------------------------
(***************************************************************************)
(* One turn answered from the knowledge base: RunTurn of                   *)
(* internal/chatagent/agent.go, RetrieveWithOptions of                     *)
(* internal/rag/retriever.go and PackContext of internal/rag/context.go.   *)
(*                                                                         *)
(* The agent decides whether to search, searches with the rewritten and    *)
(* then with the original question, reranks what it finds, packs it into   *)
(* the prompt under a budget of runes, and asks the model.  Every service  *)
(* in between may fail or answer anything; the turn always has an answer.  *)
(*                                                                         *)
(* A chunk is a record: its owner, its source, its content (one value per  *)
(* text, so that two chunks may say the same) and whether its score        *)
(* reaches the configured minimum.                                         *)
(***************************************************************************)
EXTENDS Naturals, Sequences, SequencesExt, Lists

CONSTANTS
  Chunks,           \* the points of the collection
  Askers, NoAsker,
  ChatIds, NoChatId,
  ChunkSources,
  ChunkRunes,       \* ChunkRunes[c]: the length of content c
  HeaderRunes,      \* the header of a snippet
  SuffixRunes,      \* the mark of a truncated snippet
  SeparatorRunes,   \* what stands between two snippets
  BudgetRunes,         \* rag.context.max_runes
  SearchTopK,       \* rag.retrieval.search_top_k
  TopK              \* rag.retrieval.top_k

ASSUME TurnConstants ==
  /\ \A c \in Chunks : /\ c.user \in Askers \cup {NoAsker}
                       /\ c.chat \in ChatIds \cup {NoChatId}
                       /\ c.source \in ChunkSources
                       /\ c.relevant \in BOOLEAN
                       /\ ChunkRunes[c.content] \in Nat \ {0}
  /\ {HeaderRunes, SuffixRunes, SeparatorRunes, BudgetRunes, SearchTopK, TopK} \subseteq Nat \ {0}

VARIABLES
  reranker,   \* what main.go passed: "healthy" or "none", for the life of the process
  ask,        \* the request: its scope, its source filter, and whether two queries are tried
  turn        \* the turn: where it is, what it found, and how it ended

turnVars == <<reranker, ask, turn>>

-----------------------------------------------------------------------------
(* Scope: rag/scope.go and the filter of retriever.go.                     *)

\* ResolveScope under PersonalKnowledgeScopePolicy: the user, or else the
\* session; neither is ErrScopeRequired, the empty set.
TurnScope(user, chat) ==
  IF user # NoAsker THEN {[user |-> user, chat |-> NoChatId]}
  ELSE IF chat # NoChatId THEN {[user |-> NoAsker, chat |-> chat]} ELSE {}

\* buildScopeFilter: every field that is given must match.
Passes(c, scope, sources) ==
  /\ scope.user # NoAsker => c.user = scope.user
  /\ scope.chat # NoChatId => c.chat = scope.chat
  /\ sources # {} => c.source \in sources

-----------------------------------------------------------------------------
(* Search and rerank: RetrieveWithOptions.                                 *)

\* What Qdrant may return: matching points, each once, at most SearchTopK.
SearchReplies(scope, sources) ==
  LET found == {c \in Chunks : Passes(c, scope, sources)}
  IN  {s \in SeqOf(found, SearchTopK) : IsInjective(s)}

\* keepScore: hits below the minimum score are dropped.
Hits(points) == Only(points, {c \in Chunks : c.relevant})

FirstN(s, n) == SubSeq(s, 1, IF Len(s) < n THEN Len(s) ELSE n)

\* What the rerank service may answer for n documents: indexes from zero, in
\* the order of their new scores; nothing obliges them to be valid.
RerankReplies(n) == UNION {[1..k -> 0..n] : k \in 0..2}

\* Indexes out of range are skipped, and at most TopK chunks are kept.
Reranked(hits, reply) ==
  LET valid == Only(reply, {k \in Nat : k < Len(hits)})
  IN  FirstN([i \in DOMAIN valid |-> hits[valid[i] + 1]], TopK)

-----------------------------------------------------------------------------
(* The prompt: PackContext.                                                *)

Packs == [snippets : Seq([number : Nat, chunk : Chunks]), used : Nat, number : Nat,
          truncated : BOOLEAN]

EmptyPack == [snippets |-> <<>>, used |-> 0, number |-> 0, truncated |-> FALSE]

Prefix(pack) == IF pack.snippets = <<>> THEN 0 ELSE SeparatorRunes

\* Variant: the separator is not counted.
RemainingUncounted(pack) == BudgetRunes - pack.used

Remaining(pack) ==
  IF BudgetRunes > pack.used + Prefix(pack) THEN BudgetRunes - (pack.used + Prefix(pack)) ELSE 0

\* contextDedupKey: the prompt says it already.
SaidAlready(pack, c) ==
  \E i \in DOMAIN pack.snippets : pack.snippets[i].chunk.content = c.content

EntryRunes(c) == HeaderRunes + 1 + ChunkRunes[c.content]

\* The chunk is the next snippet, of so many runes.
Cited(pack, c, size) ==
  [snippets  |-> Append(pack.snippets, [number |-> pack.number + 1, chunk |-> c]),
   used      |-> pack.used + Prefix(pack) + size,
   number    |-> pack.number + 1,
   truncated |-> EntryRunes(c) > Remaining(pack)]

\* One chunk: one that does not fit is cut to what is left of the budget, or
\* ends the prompt.
Pack(pack, c) ==
  IF pack.truncated \/ SaidAlready(pack, c) THEN pack
  ELSE IF EntryRunes(c) <= Remaining(pack) THEN Cited(pack, c, EntryRunes(c))
  ELSE IF Remaining(pack) > HeaderRunes + 1 + SuffixRunes THEN Cited(pack, c, Remaining(pack))
  ELSE [pack EXCEPT !.number = @ + 1, !.truncated = TRUE]

PackContext(chunks) ==
  Looped([p \in Packs \X Chunks |-> Pack(p[1], p[2])], EmptyPack, chunks)

HasContext(pack) == pack.snippets # <<>>

-----------------------------------------------------------------------------
(* The turn.                                                               *)

NewTurn ==
  [at |-> "start", search |-> FALSE, tries |-> 0, chunks |-> <<>>, status |-> "not_needed",
   answer |-> "none", prompted |-> FALSE, pack |-> EmptyPack, cited |-> {}, grounding |-> "none"]

\* Whether to search, and with how many queries: the rewritten one, then the
\* original one unless they are the same (retrievalQueriesForTurn).
Decisions == [search : BOOLEAN, tries : 1..2]

\* Without a retriever, or without a model, keywords decide; otherwise the
\* model decides, and keywords again when its reply is of no use.
EvaluateRetrieval ==
  /\ turn.at = "start"
  /\ \E d \in Decisions :
       turn' = [turn EXCEPT !.at = IF ~d.search THEN "answer" ELSE "search",
                            !.search = d.search, !.tries = d.tries]
  /\ UNCHANGED <<reranker, ask>>

\* RunTurn without a retriever at all: the status says so.
RetrieverUnavailable ==
  /\ turn.at = "search" /\ turn.chunks = <<>>
  /\ ~ask.retriever
  /\ turn' = [turn EXCEPT !.at = "answer", !.status = "unavailable"]
  /\ UNCHANGED <<reranker, ask>>

\* Neither a user nor a session: no search.
ScopeRequired ==
  /\ turn.at = "search"
  /\ ask.retriever
  /\ TurnScope(ask.user, ask.chat) = {}
  /\ turn' = [turn EXCEPT !.at = "answer", !.status = "scope_required"]
  /\ UNCHANGED <<reranker, ask>>

\* The embedding service or Qdrant fails: no chunks, whichever query it was.
SearchFails ==
  /\ turn.at = "search"
  /\ ask.retriever
  /\ TurnScope(ask.user, ask.chat) # {}
  /\ turn' = [turn EXCEPT !.at = "answer", !.status = "failed"]
  /\ UNCHANGED <<reranker, ask>>

\* What one retrieval returned: the next query is tried if it is empty.
Found(chunks) ==
  IF chunks # <<>>
  THEN [turn EXCEPT !.at = "answer", !.chunks = chunks, !.status = "retrieved"]
  ELSE IF turn.tries > 1
       THEN [turn EXCEPT !.tries = @ - 1]
       ELSE [turn EXCEPT !.at = "answer", !.status = "no_results"]

\* Qdrant answers.  With two hits or more they go to the reranker.
Search ==
  /\ turn.at = "search"
  /\ ask.retriever
  /\ \E scope \in TurnScope(ask.user, ask.chat) :
       \E points \in SearchReplies(scope, ask.sources) :
         LET hits == Hits(points)
         IN  turn' = IF Len(hits) > 1 THEN [turn EXCEPT !.at = "rerank", !.chunks = hits]
                     ELSE Found(FirstN(hits, TopK))
  /\ UNCHANGED <<reranker, ask>>

\* The service answers, or fails and the order of the vector search stands.
Rerank ==
  /\ turn.at = "rerank"
  /\ reranker = "healthy"
  /\ \/ \E reply \in RerankReplies(Len(turn.chunks)) :
          turn' = IF Reranked(turn.chunks, reply) # <<>> \/ turn.tries = 1
                  THEN [Found(Reranked(turn.chunks, reply)) EXCEPT !.chunks = Reranked(turn.chunks, reply)]
                  ELSE [turn EXCEPT !.at = "search", !.tries = @ - 1, !.chunks = <<>>]
     \/ turn' = Found(FirstN(turn.chunks, TopK))
  /\ UNCHANGED <<reranker, ask>>

\* main.go left the client nil because the service was not healthy at boot.
\* NewRetrieverWithConfig stores the nil *RerankClient in an interface, so that
\* the test against nil of RetrieveWithOptions passes, and the call
\* dereferences it.
RerankPanics ==
  /\ turn.at = "rerank"
  /\ reranker = "none"
  /\ turn' = [turn EXCEPT !.at = "panicked"]
  /\ UNCHANGED <<reranker, ask>>

\* evaluateAnswerGrounding: only snippets of the prompt count as cited.
Grounding(pack, cited) ==
  IF ~HasContext(pack) THEN IF turn.search THEN "insufficient_context" ELSE "not_applicable"
  ELSE IF cited # {} THEN "grounded" ELSE "missing_citations"

Complete(pack, answer, prompted, cited) ==
  turn' = [turn EXCEPT !.at = "done", !.answer = answer, !.prompted = prompted, !.pack = pack,
                       !.cited = cited, !.grounding = Grounding(pack, cited)]

Insufficient(pack) == turn.search /\ ~HasContext(pack)

\* AnswerWithOutcome: the fixed answer, the answer of the model, which may cite
\* any snippet number, or, without the model, the snippets themselves, whose
\* headers are numbered like citations.
AnswerTurn ==
  /\ turn.at = "answer"
  /\ LET pack    == PackContext(turn.chunks)
         numbers == {pack.snippets[i].number : i \in DOMAIN pack.snippets}
     IN  IF Insufficient(pack) THEN Complete(pack, "insufficient", FALSE, {})
         ELSE \/ \E named \in SUBSET (1..TopK + 1) :
                   Complete(pack, "model", TRUE, named \cap numbers)
              \/ Complete(pack, "fallback", FALSE, numbers)
  /\ UNCHANGED <<reranker, ask>>

TurnEnded == turn.at \in {"done", "panicked"}

\* The next turn of the same process.
NextTurn ==
  /\ TurnEnded
  /\ turn' = NewTurn
  /\ ask' \in [user : Askers \cup {NoAsker}, chat : ChatIds \cup {NoChatId},
               sources : {{}} \cup {{s} : s \in ChunkSources}, retriever : {ask.retriever}]
  /\ UNCHANGED reranker

-----------------------------------------------------------------------------
TurnInit ==
  /\ reranker \in {"healthy", "none"}
  /\ ask \in [user : Askers \cup {NoAsker}, chat : ChatIds \cup {NoChatId},
              sources : {{}} \cup {{s} : s \in ChunkSources}, retriever : BOOLEAN]
  /\ turn = NewTurn

TurnStep ==
  EvaluateRetrieval \/ RetrieverUnavailable \/ ScopeRequired \/ SearchFails \/ Search
    \/ Rerank \/ RerankPanics \/ AnswerTurn

TurnNext == TurnStep \/ NextTurn

TurnSpec == TurnInit /\ [][TurnNext]_turnVars /\ WF_turnVars(TurnStep)

-----------------------------------------------------------------------------
(* Properties.                                                             *)

TurnTypeOK ==
  /\ reranker \in {"healthy", "none"}
  /\ turn.at \in {"start", "search", "rerank", "answer", "done", "panicked"}
  /\ turn.chunks \in Seq(Chunks)
  /\ turn.cited \subseteq Nat

\* The text of the prompt stays within its budget, no content is in it twice,
\* and the snippets are numbered from one without a gap, so that a number in
\* the answer names one chunk ("ContextCitation links a prompt snippet number
\* back to the source chunk that reached the answer context").
PromptIsSound ==
  LET snippets == turn.pack.snippets
  IN  /\ turn.pack.used <= BudgetRunes
      /\ \A i \in DOMAIN snippets : snippets[i].number = i
      /\ \A i, j \in DOMAIN snippets :
           snippets[i].chunk.content = snippets[j].chunk.content => i = j

\* Nothing but the chunks that the scope of the request may see, and only
\* relevant ones, reach the prompt, whatever the services in between answer.
OwnKnowledgeOnly ==
  \A i \in DOMAIN turn.pack.snippets :
    LET c == turn.pack.snippets[i].chunk
    IN  /\ c.relevant
        /\ \/ ask.user # NoAsker /\ c.user = ask.user
           \/ ask.user = NoAsker /\ ask.chat # NoChatId /\ c.chat = ask.chat
        /\ ask.sources # {} => c.source \in ask.sources

\* The outcome tells what happened: a turn that needed the knowledge base and
\* got nothing into its prompt never asks the model, an answer counts as
\* grounded exactly when it cites a snippet of its prompt, and the status says
\* "retrieved" exactly when the answer had chunks to work with.
OutcomeIsHonest ==
  turn.at = "done" =>
    /\ turn.search /\ turn.pack.snippets = <<>> =>
         turn.answer = "insufficient" /\ ~turn.prompted
    /\ turn.grounding = "grounded" <=>
         \E n \in turn.cited : \E i \in DOMAIN turn.pack.snippets : turn.pack.snippets[i].number = n
    /\ turn.status = "retrieved" <=> turn.chunks # <<>>

TurnInv == TurnTypeOK /\ PromptIsSound /\ OwnKnowledgeOnly /\ OutcomeIsHonest

\* A turn ends with an answer ("rerank unavailable; vector search only",
\* capability.go): without a reranker it does not.
VectorSearchOnly == turn.at # "panicked"

=============================================================================
