------------------------------ MODULE WebSearch ------------------------------
(***************************************************************************)
(* How one web search is computed: Service.Search of                       *)
(* internal/search/service.go after a miss of the cache (SearchCache),     *)
(* with its rewriter, router, providers, crawler, extractor, reranker and  *)
(* compressor.                                                             *)
(*                                                                         *)
(* The question is rewritten into queries; every provider is asked each of *)
(* them, in turn, until enough items came; the pages behind the items are  *)
(* fetched (in parallel: module WorkerPools) and replace the snippets; the *)
(* documents are ranked and cut.  Any of these services may fail or answer *)
(* anything, and the search makes the best of it.  One answer it does not  *)
(* mend: a rerank service that names a document twice.                     *)
(*                                                                         *)
(* An item is a link, or no usable one, with or without a snippet.  A      *)
(* document is a link with the text of its page or of its snippet.         *)
(***************************************************************************)
EXTENDS Naturals, Sequences, SequencesExt, Lists

CONSTANTS
  Links,                \* canonical URLs of public hosts
  NoLink,               \* canonicalURLKey of anything else: ""
  MaxProviderResults,
  MaxDocuments,         \* of the compressor
  MaxQueries,           \* queries the rewriter returns, the question included
  Providers,            \* the number of providers in the router
  ReplySize,            \* bound of the model: items of one provider's answer
  RerankSize            \* bound of the model: results of one rerank in range

ASSUME SearchConstants ==
  /\ NoLink \notin Links
  /\ {MaxProviderResults, MaxDocuments, MaxQueries, Providers, ReplySize, RerankSize}
       \subseteq Nat \ {0}

VARIABLES
  stage,    \* where the search is
  asking,   \* provider calls that are left
  errors,   \* whether a provider failed
  found,    \* the items, as searchProviders collects them
  docs,     \* the documents
  pages,    \* history: the links whose page was extracted
  repeated  \* history: whether the rerank service named a document twice

webVars == <<stage, asking, errors, found, docs, pages, repeated>>

-----------------------------------------------------------------------------
Item == [link : Links \cup {NoLink}, snippet : BOOLEAN]

Doc == [link : Links \cup {NoLink}, text : {"page", "snippet"}]

LinksOf(s) == {s[i].link : i \in DOMAIN s} \ {NoLink}

-----------------------------------------------------------------------------
\* The router's order of the providers, for every query.
Asked(queries) == queries * Providers

\* The rewriter fails and the search with it, or gives queries to which the
\* question itself is added (normalizeQueries); Route puts the providers into
\* an order and fails only without any.
Rewrite ==
  /\ stage = "rewrite"
  /\ \/ stage' = "failed" /\ UNCHANGED asking
     \/ \E n \in 1..MaxQueries : stage' = "providers" /\ asking' = Asked(n)
  /\ UNCHANGED <<errors, found, docs, pages, repeated>>

\* An item whose link was seen is skipped; enough is enough.
Collect(items, item) ==
  IF Len(items) >= MaxProviderResults \/ item.link \in LinksOf(items) THEN items
  ELSE Append(items, item)

\* The items of one reply are collected in turn.
Collected(items, reply) ==
  Looped([p \in Seq(Item) \X Item |-> Collect(p[1], p[2])], items, reply)

\* What Bing, Tavily or DuckDuckGo may answer: a title alone is an item, and
\* nothing keeps a link from coming twice.
Replies == SeqOf(Item, ReplySize)

\* A provider answers with items, or with an error that is kept for the end.
AskProvider ==
  /\ stage = "providers" /\ asking > 0
  /\ \/ /\ \E reply \in Replies :
             found' = Collected(found, reply)
        /\ asking' = IF Len(found') >= MaxProviderResults THEN 0 ELSE asking - 1
        /\ UNCHANGED errors
     \/ /\ errors' = TRUE
        /\ asking' = asking - 1
        /\ UNCHANGED found
  /\ UNCHANGED <<stage, docs, pages, repeated>>

\* The search fails if a provider did and none found anything.
Gather ==
  /\ stage = "providers" /\ asking = 0
  /\ stage' = IF errors /\ found = <<>> THEN "failed" ELSE "crawl"
  /\ UNCHANGED <<asking, errors, found, docs, pages, repeated>>

\* documentsFromProviderSnippets
Snippets ==
  LET with == Only(found, {item \in Item : item.snippet})
  IN  [i \in DOMAIN with |-> [link |-> with[i].link, text |-> "snippet"]]

\* filterSearchURLs
Urls ==
  LET linked == Only(found, {item \in Item : item.link # NoLink})
  IN  [i \in DOMAIN linked |-> linked[i].link]

\* Variant: the snippets stay beside their pages.
MergeDocumentsAll(s) == s \o Snippets

\* mergeDocuments: the first document of a link stays.
MergeDocuments(s) ==
  s \o Only(Snippets, {d \in Doc : d.link \notin LinksOf(s)})

\* The pages the extractor finds text in.
Extracted(fetched) == SUBSET fetched

\* The crawler returns the pages it could fetch, and the extractor drops those
\* without text; without a page at all the snippets stay as they are.  The
\* extractor fails when the request is cancelled.
Crawl ==
  /\ stage = "crawl"
  /\ \/ /\ \E fetched \in SUBSET LinksOf(found) :
             \E text \in Extracted(fetched) :
               /\ pages' = text
               /\ LET kept == Only(Urls, text)
                  IN  docs' = IF fetched = {} THEN Snippets
                              ELSE MergeDocuments([i \in DOMAIN kept |->
                                                     [link |-> kept[i], text |-> "page"]])
        /\ stage' = "rank"
     \/ /\ Urls # <<>>
        /\ stage' = "failed"
        /\ UNCHANGED <<docs, pages>>
  /\ UNCHANGED <<asking, errors, found, repeated>>

\* KeywordReranker, alone or when the rerank service fails or names nothing:
\* the orders it may put n documents in.
ByKeywords(n) == {p \in [1..n -> 1..n] : IsInjective(p)}

\* What the rerank service may answer for n documents, best first, without the
\* indexes out of range, which are skipped.  Nothing keeps it from naming a
\* document twice.
RerankResults(n) == SeqOf(1..n, RerankSize) \ {<<>>}

\* Variant: the documents that were named follow as well.
FollowedByAll(named, n) == named \o [i \in 1..n |-> i]

\* The documents that were not named follow as they were.
FollowedByRest(named, n) == named \o Only([i \in 1..n |-> i], (1..n) \ ToSet(named))

DocsAt(p) == [i \in DOMAIN p |-> docs[p[i]]]

\* RankWithContext: every result is a document, a second one of an index too;
\* the service is not asked about a single document.
Rank ==
  /\ stage = "rank"
  /\ \/ /\ \E p \in ByKeywords(Len(docs)) : docs' = DocsAt(p)
        /\ UNCHANGED repeated
     \/ /\ Len(docs) > 1
        /\ \E named \in RerankResults(Len(docs)) :
             /\ docs' = DocsAt(FollowedByRest(named, Len(docs)))
             /\ repeated' = ~IsInjective(named)
  /\ stage' = "compress"
  /\ UNCHANGED <<asking, errors, found, pages>>

\* The first n documents.
Compressed(n) == SubSeq(docs, 1, n)

\* Compress keeps MaxDocuments, or fewer, when the budget of runes runs out;
\* never none.
Compress ==
  /\ stage = "compress"
  /\ \E n \in 0..MaxDocuments :
       /\ n <= Len(docs) /\ (docs # <<>> => n > 0)
       /\ docs' = Compressed(n)
  /\ stage' = "done"
  /\ UNCHANGED <<asking, errors, found, pages, repeated>>

-----------------------------------------------------------------------------
WebInit ==
  /\ stage = "rewrite" /\ asking = 0 /\ errors = FALSE
  /\ found = <<>> /\ docs = <<>> /\ pages = {} /\ repeated = FALSE

WebStep == Rewrite \/ AskProvider \/ Gather \/ Crawl \/ Rank \/ Compress

WebEnded == stage \in {"done", "failed"}

WebNext == WebStep

WebSpec == WebInit /\ [][WebNext]_webVars

-----------------------------------------------------------------------------
(* Properties.                                                             *)

WebTypeOK ==
  /\ stage \in {"rewrite", "providers", "crawl", "rank", "compress", "done", "failed"}
  /\ asking \in 0..MaxQueries * Providers
  /\ found \in Seq(Item) /\ Len(found) <= MaxProviderResults
  /\ docs \in Seq(Doc)
  /\ repeated \in BOOLEAN

\* No two sources of an answer have the same link, whichever providers named
\* it and whether its page came or not, unless the rerank service names one
\* document twice, which the code does not look for; what stands for a link is
\* its page if there is one; and every source was found by a provider.
SourcesAreSound ==
  stage = "done" =>
    /\ Len(docs) <= MaxDocuments
    /\ \A i, j \in DOMAIN docs :
         docs[i].link = docs[j].link /\ docs[i].link # NoLink => i = j \/ repeated
    /\ \A i \in DOMAIN docs :
         IF docs[i].text = "page" THEN docs[i].link \in pages
         ELSE /\ docs[i].link \notin pages
              /\ [link |-> docs[i].link, snippet |-> TRUE] \in ToSet(found)

\* A service that fails costs quality, not the answer: if a provider found
\* anything with a snippet, or with a page that could be read, the answer has
\* sources ("search.provider_partial_failure", "search.crawl_failed"); and the
\* search fails for its providers only when they found nothing.
AnswersWhatItFound ==
  /\ stage = "done" /\ (Snippets # <<>> \/ pages # {}) => docs # <<>>
  /\ stage = "failed" => Urls # <<>> \/ found = <<>>

WebInv == WebTypeOK /\ SourcesAreSound /\ AnswersWhatItFound

=============================================================================
