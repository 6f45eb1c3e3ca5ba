--------------------------- MODULE Answers_proofs ---------------------------
(***************************************************************************)
(* What an answer is made from: the chunks of the knowledge base that one  *)
(* turn puts into its prompt, the sources that a web search collects, the  *)
(* answers of earlier searches that the cache returns, and the sources in  *)
(* the knowledge base, which requests index and delete.                    *)
(***************************************************************************)
EXTENDS KnowledgeSources, KnowledgeTurn, WebSearch, SearchCache, MapTheorems, FiniteSetTheorems,
        SequenceTheorems, TLAPS

-----------------------------------------------------------------------------
(* KnowledgeTurn: what gets into the prompt of a turn.                     *)

\* A prompt whose snippets are of C.
PackSound(pack, C) ==
  /\ pack.used <= BudgetRunes
  /\ \A i \in DOMAIN pack.snippets :
       pack.snippets[i].number = i /\ pack.snippets[i].chunk \in C
  /\ \A i, j \in DOMAIN pack.snippets :
       pack.snippets[i].chunk.content = pack.snippets[j].chunk.content => i = j
  /\ ~pack.truncated => pack.number = Len(pack.snippets)

LEMMA EmptyPackSound == EmptyPack \in Packs /\ \A C : PackSound(EmptyPack, C)
BY TurnConstants DEF EmptyPack, Packs, PackSound

LEMMA RemainingTyped ==
  ASSUME NEW pack \in Packs
  PROVE  Remaining(pack) \in Nat /\ Prefix(pack) \in Nat
<1>1. PICK p \in Nat : p = pack.used + Prefix(pack)
  BY TurnConstants DEF Prefix, Packs
<1>2. Remaining(pack) = IF BudgetRunes > p THEN BudgetRunes - p ELSE 0
  BY <1>1 DEF Remaining
<1>3. Prefix(pack) \in Nat /\ BudgetRunes \in Nat
  BY TurnConstants DEF Prefix
<1> QED BY <1>2, <1>3

LEMMA EntryTyped ==
  ASSUME NEW c \in Chunks
  PROVE  EntryRunes(c) \in Nat /\ EntryRunes(c) > 0
BY TurnConstants DEF EntryRunes

LEMMA CitedTyped ==
  ASSUME NEW pack \in Packs, NEW c \in Chunks, NEW size \in Nat
  PROVE  Cited(pack, c, size) \in Packs
<1>1. /\ pack.snippets \in Seq([number : Nat, chunk : Chunks]) /\ pack.used \in Nat
      /\ pack.number \in Nat
  BY DEF Packs
<1>2. PICK next \in Nat : next = pack.number + 1
  BY <1>1
<1>3. PICK s \in [number : Nat, chunk : Chunks] : s = [number |-> next, chunk |-> c]
  OBVIOUS
<1>4. PICK snippets \in Seq([number : Nat, chunk : Chunks]) : snippets = Append(pack.snippets, s)
  <2>1. Append(pack.snippets, s) \in Seq([number : Nat, chunk : Chunks])
    BY <1>1, AppendProperties
  <2> QED BY <2>1, Zenon
<1>5. PICK used \in Nat : used = pack.used + Prefix(pack) + size
  <2>1. Prefix(pack) \in Nat
    BY RemainingTyped
  <2>2. PICK p \in Nat : p = Prefix(pack)
    BY <2>1
  <2>3. PICK u \in Nat : u = pack.used
    BY <1>1
  <2>4. PICK v \in Nat : v = u + p + size
    OBVIOUS
  <2>5. v = pack.used + Prefix(pack) + size
    BY <2>2, <2>3, <2>4, Zenon
  <2> QED BY <2>5, Zenon
<1>6. PICK truncated \in BOOLEAN : truncated = (EntryRunes(c) > Remaining(pack))
  <2>1. (EntryRunes(c) > Remaining(pack)) \in BOOLEAN
    BY EntryTyped, RemainingTyped
  <2> QED BY <2>1, Zenon
<1>7. Cited(pack, c, size) =
        [snippets |-> snippets, used |-> used, number |-> next, truncated |-> truncated]
  BY <1>2, <1>3, <1>4, <1>5, <1>6 DEF Cited
<1> QED BY <1>7 DEF Packs

LEMMA PackTyped ==
  ASSUME NEW pack \in Packs, NEW c \in Chunks
  PROVE  Pack(pack, c) \in Packs
<1>1. PICK next \in Nat : next = pack.number + 1
  BY DEF Packs
<1>2. [pack EXCEPT !.number = next, !.truncated = TRUE] \in Packs
  BY DEF Packs
<1>3. [pack EXCEPT !.number = @ + 1, !.truncated = TRUE] \in Packs
  BY <1>1, <1>2
<1> QED BY <1>3, CitedTyped, EntryTyped, RemainingTyped DEF Pack

LEMMA CitedSound ==
  ASSUME NEW C \in SUBSET Chunks, NEW pack \in Packs, PackSound(pack, C), ~pack.truncated,
         NEW c \in C, ~SaidAlready(pack, c), NEW size \in Nat, size <= Remaining(pack), size > 0
  PROVE  Cited(pack, c, size) \in Packs /\ PackSound(Cited(pack, c, size), C)
<1>1. /\ pack.snippets \in Seq([number : Nat, chunk : Chunks]) /\ pack.used \in Nat
      /\ pack.number \in Nat /\ pack.truncated \in BOOLEAN
  BY DEF Packs
<1>2. PICK n \in Nat : n = Len(pack.snippets) /\ n = pack.number
  BY <1>1 DEF PackSound
<1>3. PICK next \in Nat : next = pack.number + 1 /\ next = n + 1
  BY <1>2
<1>4. PICK s \in [number : Nat, chunk : Chunks] : s = [number |-> next, chunk |-> c]
  OBVIOUS
<1>5. s.number = next /\ s.chunk = c
  BY <1>4
<1>6. PICK snippets \in Seq([number : Nat, chunk : Chunks]) : snippets = Append(pack.snippets, s)
  <2>1. Append(pack.snippets, s) \in Seq([number : Nat, chunk : Chunks])
    BY <1>1, AppendProperties
  <2> QED BY <2>1, Zenon
<1>7. /\ Len(snippets) = n + 1 /\ snippets[n + 1] = s
      /\ \A i \in 1..n : snippets[i] = pack.snippets[i]
  <2>1. /\ Len(snippets) = Len(pack.snippets) + 1 /\ snippets[Len(pack.snippets) + 1] = s
        /\ \A i \in 1..Len(pack.snippets) : snippets[i] = pack.snippets[i]
    BY <1>1, <1>6, AppendProperties
  <2> QED BY <1>2, <2>1, Zenon
<1>8. /\ DOMAIN snippets = 1..n + 1 /\ DOMAIN pack.snippets = 1..n
      /\ \A i \in 1..n + 1 : i \in 1..n \/ i = n + 1
  BY <1>1, <1>2, <1>6, <1>7
<1>9. Prefix(pack) \in Nat /\ BudgetRunes \in Nat
  BY TurnConstants DEF Prefix
<1>10. PICK used \in Nat : used = pack.used + Prefix(pack) + size /\ used <= BudgetRunes
  <2>1. PICK p \in Nat : p = Prefix(pack)
    BY <1>9
  <2>2. PICK u \in Nat : u = pack.used
    BY <1>1
  <2>3. BudgetRunes > u + p /\ size <= BudgetRunes - (u + p)
    BY <2>1, <2>2 DEF Remaining
  <2>4. PICK v \in Nat : v = u + p + size
    OBVIOUS
  <2>5. v <= BudgetRunes
    BY <1>9, <2>3, <2>4
  <2>6. v = pack.used + Prefix(pack) + size
    BY <2>1, <2>2, <2>4, Zenon
  <2> QED BY <2>5, <2>6, Zenon
<1>11. PICK truncated \in BOOLEAN : truncated = (EntryRunes(c) > Remaining(pack))
  <2>1. (EntryRunes(c) > Remaining(pack)) \in BOOLEAN
    BY EntryTyped, RemainingTyped
  <2> QED BY <2>1, Zenon
<1>12. PICK q : q = Cited(pack, c, size)
  OBVIOUS
<1>13. q = [snippets |-> snippets, used |-> used, number |-> next, truncated |-> truncated]
  BY <1>3, <1>4, <1>6, <1>10, <1>11, <1>12 DEF Cited
<1>14. q \in Packs
  BY <1>13 DEF Packs
<1>15. q.snippets = snippets /\ q.used = used /\ q.number = next
  BY <1>13
<1>16. ASSUME NEW i \in 1..n + 1
       PROVE  snippets[i].number = i /\ snippets[i].chunk \in C
  <2>1. CASE i \in 1..n
    BY <1>7, <1>8, <2>1 DEF PackSound
  <2>2. CASE i = n + 1
    BY <1>3, <1>5, <1>7, <2>2
  <2> QED BY <1>8, <2>1, <2>2
<1>17. \A i \in 1..n : pack.snippets[i].chunk.content # c.content
  BY <1>8 DEF SaidAlready
<1>18. ASSUME NEW i \in 1..n + 1, NEW j \in 1..n + 1,
              snippets[i].chunk.content = snippets[j].chunk.content
       PROVE  i = j
  <2>1. CASE i \in 1..n /\ j \in 1..n
    BY <1>7, <1>8, <1>18, <2>1 DEF PackSound
  <2>2. CASE i = n + 1 /\ j \in 1..n
    BY <1>5, <1>7, <1>17, <1>18, <2>2
  <2>3. CASE i \in 1..n /\ j = n + 1
    BY <1>5, <1>7, <1>17, <1>18, <2>3
  <2> QED BY <1>8, <2>1, <2>2, <2>3
<1>19. PackSound(q, C)
  BY <1>3, <1>7, <1>8, <1>10, <1>15, <1>16, <1>18 DEF PackSound
<1> QED BY <1>12, <1>14, <1>19

LEMMA PackKeeps ==
  ASSUME NEW C \in SUBSET Chunks, NEW pack \in Packs, PackSound(pack, C), NEW c \in C
  PROVE  Pack(pack, c) \in Packs /\ PackSound(Pack(pack, c), C)
<1>1. CASE pack.truncated \/ SaidAlready(pack, c)
  BY <1>1 DEF Pack
<1>2. /\ pack.snippets \in Seq([number : Nat, chunk : Chunks]) /\ pack.used \in Nat
      /\ pack.number \in Nat /\ pack.truncated \in BOOLEAN
  BY DEF Packs
<1>3. /\ EntryRunes(c) \in Nat /\ EntryRunes(c) > 0
      /\ HeaderRunes \in Nat /\ SuffixRunes \in Nat /\ BudgetRunes \in Nat
  BY TurnConstants DEF EntryRunes
<1>4. Remaining(pack) \in Nat
  <2>1. PICK p \in Nat : p = pack.used + Prefix(pack)
    BY <1>2, TurnConstants DEF Prefix
  <2>2. Remaining(pack) = IF BudgetRunes > p THEN BudgetRunes - p ELSE 0
    BY <2>1 DEF Remaining
  <2> QED BY <1>3, <2>2
<1>5. CASE ~(pack.truncated \/ SaidAlready(pack, c)) /\ EntryRunes(c) <= Remaining(pack)
  <2>1. Pack(pack, c) = Cited(pack, c, EntryRunes(c))
    BY <1>5 DEF Pack
  <2> QED BY <1>3, <1>5, <2>1, CitedSound
<1>6. CASE /\ ~(pack.truncated \/ SaidAlready(pack, c)) /\ ~(EntryRunes(c) <= Remaining(pack))
           /\ Remaining(pack) > HeaderRunes + 1 + SuffixRunes
  <2>1. Pack(pack, c) = Cited(pack, c, Remaining(pack))
    BY <1>6 DEF Pack
  <2>2. Remaining(pack) > 0 /\ Remaining(pack) <= Remaining(pack)
    BY <1>3, <1>4, <1>6
  <2> QED BY <1>4, <1>6, <2>1, <2>2, CitedSound
<1>7. CASE /\ ~(pack.truncated \/ SaidAlready(pack, c)) /\ ~(EntryRunes(c) <= Remaining(pack))
           /\ ~(Remaining(pack) > HeaderRunes + 1 + SuffixRunes)
  <2>0. PICK next \in Nat : next = pack.number + 1
    BY <1>2
  <2>1. PICK q : q = [pack EXCEPT !.number = next, !.truncated = TRUE]
    OBVIOUS
  <2>2. Pack(pack, c) = q
    BY <1>7, <2>0, <2>1 DEF Pack
  <2>3. q \in Packs /\ q.snippets = pack.snippets /\ q.used = pack.used /\ q.truncated = TRUE
    BY <1>2, <2>1 DEF Packs
  <2>4. PackSound(q, C)
    BY <2>3 DEF PackSound
  <2> QED BY <2>2, <2>3, <2>4
<1> QED BY <1>1, <1>5, <1>6, <1>7

\* The prompt that is packed from chunks of C.
LEMMA PackContextSound ==
  ASSUME NEW C \in SUBSET Chunks, NEW hits \in Seq(C)
  PROVE  PackContext(hits) \in Packs /\ PackSound(PackContext(hits), C)
<1> DEFINE step == [p \in Packs \X Chunks |-> Pack(p[1], p[2])]
           I == [n \in 0..Len(hits) |-> {p \in Packs : PackSound(p, C)}]
<1>1. hits \in Seq(Chunks)
  OBVIOUS
<1>2. PackContext(hits) = Looped(step, EmptyPack, hits)
  BY DEF PackContext
<1>3. step \in [Packs \X Chunks -> Packs]
  BY PackTyped
<1>4. \A p \in Packs : \A c \in Chunks : step[<<p, c>>] = Pack(p, c)
  OBVIOUS
<1>5. EmptyPack \in Packs /\ EmptyPack \in I[0]
  BY EmptyPackSound
<1>6. \A n \in 0..Len(hits) : \A p \in Packs : p \in I[n] <=> PackSound(p, C)
  OBVIOUS
<1> HIDE DEF step, I
<1>7. ASSUME NEW i \in 1..Len(hits), NEW p \in Packs, p \in I[i - 1]
      PROVE  step[<<p, hits[i]>>] \in I[i]
  <2>1. i - 1 \in 0..Len(hits) /\ i \in 0..Len(hits) /\ hits[i] \in C
    OBVIOUS
  <2>2. PackSound(p, C)
    BY <1>6, <1>7, <2>1, Zenon
  <2>3. Pack(p, hits[i]) \in Packs /\ PackSound(Pack(p, hits[i]), C)
    BY <2>1, <2>2, PackKeeps
  <2>4. step[<<p, hits[i]>>] = Pack(p, hits[i])
    BY <1>4, <2>1
  <2> QED BY <1>6, <2>1, <2>3, <2>4, Zenon
<1>8. Looped(step, EmptyPack, hits) \in Packs /\ Looped(step, EmptyPack, hits) \in I[Len(hits)]
  BY <1>1, <1>3, <1>5, <1>7, LoopKeeps, Zenon
<1>9. Len(hits) \in 0..Len(hits)
  OBVIOUS
<1> QED BY <1>2, <1>6, <1>8, <1>9, Zenon

-----------------------------------------------------------------------------
(* KnowledgeTurn: the turn.                                                *)

\* The chunks that a request may see and that are worth showing.
Visible(r) ==
  {c \in Chunks :
     /\ c.relevant
     /\ \/ r.user # NoAsker /\ c.user = r.user
        \/ r.user = NoAsker /\ r.chat # NoChatId /\ c.chat = r.chat
     /\ r.sources # {} => c.source \in r.sources}

Turns ==
  [at : {"start", "search", "rerank", "answer", "done", "panicked"}, search : BOOLEAN,
   tries : Nat, chunks : Seq(Chunks),
   status : {"not_needed", "unavailable", "scope_required", "failed", "no_results", "retrieved"},
   answer : {"none", "insufficient", "model", "fallback"}, prompted : BOOLEAN, pack : Packs,
   cited : SUBSET Nat,
   grounding : {"none", "insufficient_context", "not_applicable", "grounded", "missing_citations"}]

\* What the status says of the chunks, in every phase.
StatusTells(t) ==
  /\ t.at \in {"start", "search"} => t.chunks = <<>>
  /\ t.at \in {"start", "search", "rerank"} => t.status = "not_needed"
  /\ t.at = "rerank" => t.chunks # <<>>
  /\ t.at \in {"search", "rerank"} => t.tries > 0
  /\ t.at \in {"answer", "done"} => (t.status = "retrieved" <=> t.chunks # <<>>)

OutcomeTells(t) ==
  t.at = "done" =>
    /\ t.search /\ t.pack.snippets = <<>> => t.answer = "insufficient" /\ ~t.prompted
    /\ t.grounding = "grounded" <=>
         \E n \in t.cited : \E i \in DOMAIN t.pack.snippets : t.pack.snippets[i].number = n

\* A turn of request r.
TurnSound(t, r) ==
  /\ t \in Turns
  /\ t.chunks \in Seq(Visible(r))
  /\ PackSound(t.pack, Visible(r))
  /\ StatusTells(t)
  /\ OutcomeTells(t)

TurnIndInv ==
  /\ reranker \in {"healthy", "none"}
  /\ TurnSound(turn, ask)

\* A step that leaves prompt and outcome alone.
LEMMA MovesSound ==
  ASSUME NEW r, NEW t, TurnSound(t, r), t.at # "done",
         NEW u \in Turns, u.at # "done", u.pack = t.pack, u.chunks \in Seq(Visible(r)), StatusTells(u)
  PROVE  TurnSound(u, r)
BY DEF TurnSound, OutcomeTells

LEMMA BareMovesSound ==
  ASSUME NEW r, NEW t, TurnSound(t, r), t.at # "done",
         NEW u \in Turns, u.at # "done", u.pack = t.pack, u.chunks = <<>>, StatusTells(u)
  PROVE  TurnSound(u, r)
<1>1. u.chunks \in Seq(Visible(r))
  BY EmptySeq
<1> QED BY <1>1, MovesSound

LEMMA NewTurnSound ==
  ASSUME NEW r
  PROVE  TurnSound(NewTurn, r)
<1>1. NewTurn.pack = EmptyPack /\ NewTurn.chunks = <<>> /\ NewTurn.at = "start"
      /\ NewTurn.status = "not_needed"
  BY DEF NewTurn
<1>2. EmptyPack \in Packs /\ PackSound(EmptyPack, Visible(r))
  BY EmptyPackSound
<1>3. NewTurn \in Turns
  BY <1>2 DEF NewTurn, Turns
<1>4. StatusTells(NewTurn) /\ OutcomeTells(NewTurn)
  BY <1>1 DEF StatusTells, OutcomeTells
<1>5. NewTurn.chunks \in Seq(Visible(r))
  BY <1>1
<1> QED BY <1>1, <1>2, <1>3, <1>4, <1>5 DEF TurnSound

\* What the reply of Qdrant leaves is visible to the request.
LEMMA HitsVisible ==
  ASSUME NEW r, NEW scope \in TurnScope(r.user, r.chat),
         NEW matched \in SearchReplies(scope, r.sources)
  PROVE  Hits(matched) \in Seq(Visible(r))
<1> DEFINE Passing == {c \in Chunks : Passes(c, scope, r.sources)}
           Relevant == {c \in Chunks : c.relevant}
<1>1. matched \in SeqOf(Passing, SearchTopK)
  BY DEF SearchReplies
<1>2. matched \in Seq(Passing)
  <2>1. PICK m \in 0..SearchTopK : matched \in [1..m -> Passing]
    BY <1>1 DEF SeqOf
  <2> QED BY <2>1
<1>3. PICK hits : hits = Only(matched, Relevant)
  OBVIOUS
<1> HIDE DEF Passing, Relevant
<1>4. hits \in Seq(Relevant) /\ \E g : Picks(hits, g, matched, Relevant, Len(matched))
  BY <1>2, <1>3, OnlyPicks
<1>5. PICK g : Picks(hits, g, matched, Relevant, Len(matched))
  BY <1>4
<1>6. ASSUME NEW i \in 1..Len(hits)
      PROVE  hits[i] \in Visible(r)
  <2>1. hits[i] \in Relevant
    BY <1>4, ElementOfSeq
  <2>2. hits[i] = matched[g[i]] /\ g[i] \in 1..Len(matched)
    BY <1>5 DEF Picks
  <2>3. hits[i] \in Passing
    BY <1>2, <2>2, ElementOfSeq
  <2>4. PICK c \in Chunks : c = hits[i] /\ c.relevant /\ Passes(c, scope, r.sources)
    BY <2>1, <2>3 DEF Passing, Relevant
  <2>5. \/ r.user # NoAsker /\ scope.user = r.user
        \/ r.user = NoAsker /\ r.chat # NoChatId /\ scope.chat = r.chat
    BY DEF TurnScope
  <2> QED BY <2>4, <2>5 DEF Passes, Visible
<1>7. Hits(matched) = hits
  BY <1>3 DEF Hits, Relevant
<1> QED BY <1>4, <1>6, <1>7

LEMMA FirstOf ==
  ASSUME NEW S, NEW s \in Seq(S), NEW n \in Nat \ {0}
  PROVE  FirstN(s, n) \in Seq(S) /\ (FirstN(s, n) = <<>> <=> s = <<>>)
<1>1. PICK l \in Nat : l = Len(s)
  OBVIOUS
<1>2. PICK m \in Nat : m = IF l < n THEN l ELSE n
  OBVIOUS
<1>3. FirstN(s, n) = SubSeq(s, 1, m) /\ m \in 0..l /\ (m = 0 <=> l = 0)
  BY <1>1, <1>2 DEF FirstN
<1>4. SubSeq(s, 1, m) \in Seq(S) /\ Len(SubSeq(s, 1, m)) = m
  <2>1. \A i \in 1..m : s[i] \in S
    BY <1>1, <1>3, ElementOfSeq
  <2>2. /\ SubSeq(s, 1, m) \in Seq(S)
        /\ Len(SubSeq(s, 1, m)) = IF 1 <= m THEN m - 1 + 1 ELSE 0
    BY <2>1, SubSeqProperties
  <2> QED BY <2>2
<1>5. s = <<>> <=> l = 0
  BY <1>1
<1>6. SubSeq(s, 1, m) = <<>> <=> m = 0
  <2>1. PICK q \in Seq(S) : q = SubSeq(s, 1, m) /\ Len(q) = m
    BY <1>4
  <2>2. q = <<>> <=> Len(q) = 0
    OBVIOUS
  <2> QED BY <2>1, <2>2
<1> QED BY <1>3, <1>4, <1>5, <1>6

\* Whatever the reranker answers, what is kept was found.
LEMMA RerankedOf ==
  ASSUME NEW S, NEW hits \in Seq(S), NEW n \in Nat, NEW reply \in RerankReplies(n)
  PROVE  Reranked(hits, reply) \in Seq(S)
<1>1. reply \in Seq(Nat)
  <2>1. PICK k \in 0..2 : reply \in [1..k -> 0..n]
    BY DEF RerankReplies
  <2> QED BY <2>1
<1> DEFINE T == {k \in Nat : k < Len(hits)}
<1>2. PICK valid : valid = Only(reply, T)
  OBVIOUS
<1>3. valid \in Seq(T)
  BY <1>1, <1>2, OnlyPicks
<1>4. PICK l \in Nat : l = Len(valid) /\ DOMAIN valid = 1..l
  BY <1>3
<1>5. \A i \in 1..l : valid[i] + 1 \in 1..Len(hits)
  <2> SUFFICES ASSUME NEW i \in 1..l PROVE valid[i] + 1 \in 1..Len(hits)
    OBVIOUS
  <2>1. valid[i] \in T
    BY <1>3, <1>4
  <2> QED BY <2>1
<1>6. PICK all : all = [i \in DOMAIN valid |-> hits[valid[i] + 1]]
  OBVIOUS
<1>7. all \in Seq(S)
  BY <1>4, <1>5, <1>6
<1>8. Reranked(hits, reply) = FirstN(all, TopK)
  BY <1>2, <1>6 DEF Reranked
<1> QED BY <1>7, <1>8, FirstOf, TurnConstants

\* The answer of one retrieval, from chunks the request may see.
LEMMA FoundSound ==
  ASSUME TurnSound(turn, ask), turn.at \in {"search", "rerank"}, NEW s \in Seq(Visible(ask)),
         turn.at = "search" \/ s # <<>>
  PROVE  TurnSound(Found(s), ask)
<1>1. turn \in Turns /\ turn.tries \in Nat /\ turn.tries > 0 /\ turn.status = "not_needed"
  BY DEF TurnSound, StatusTells, Turns
<1>2. s \in Seq(Chunks)
  BY DEF Visible
<1>3. CASE s # <<>>
  <2> DEFINE u == [turn EXCEPT !.at = "answer", !.chunks = s, !.status = "retrieved"]
  <2>1. /\ u \in Turns /\ u.at = "answer" /\ u.pack = turn.pack /\ u.chunks = s
        /\ u.status = "retrieved"
    BY <1>1, <1>2 DEF Turns
  <2>2. StatusTells(u)
    BY <1>3, <2>1 DEF StatusTells
  <2>3. Found(s) = u
    BY <1>3 DEF Found
  <2> HIDE DEF u
  <2>4. TurnSound(u, ask)
    BY <2>1, <2>2, MovesSound
  <2> QED BY <2>3, <2>4
<1>4. CASE s = <<>>
  <2>1. turn.at = "search" /\ turn.chunks = <<>>
    BY <1>4 DEF TurnSound, StatusTells
  <2>2. CASE turn.tries > 1
    <3>1. PICK k \in Nat : k = turn.tries - 1 /\ k > 0
      BY <1>1, <2>2
    <3> DEFINE u == [turn EXCEPT !.tries = k]
    <3>2. /\ u \in Turns /\ u.at = "search" /\ u.pack = turn.pack /\ u.chunks = <<>>
          /\ u.status = "not_needed" /\ u.tries = k
      BY <1>1, <2>1, <3>1 DEF Turns
    <3>3. StatusTells(u)
      BY <3>1, <3>2 DEF StatusTells
    <3>4. Found(s) = u
      BY <1>4, <2>2, <3>1 DEF Found
    <3> HIDE DEF u
    <3>5. TurnSound(u, ask)
      BY <2>1, <3>2, <3>3, BareMovesSound
    <3> QED BY <3>4, <3>5
  <2>3. CASE ~(turn.tries > 1)
    <3> DEFINE u == [turn EXCEPT !.at = "answer", !.status = "no_results"]
    <3>1. /\ u \in Turns /\ u.at = "answer" /\ u.pack = turn.pack /\ u.chunks = <<>>
          /\ u.status = "no_results"
      BY <1>1, <2>1 DEF Turns
    <3>2. StatusTells(u)
      BY <3>1 DEF StatusTells
    <3>3. Found(s) = u
      BY <1>4, <2>3 DEF Found
    <3> HIDE DEF u
    <3>4. TurnSound(u, ask)
      BY <3>1, <3>2, BareMovesSound
    <3> QED BY <3>3, <3>4
  <2> QED BY <2>2, <2>3
<1> QED BY <1>3, <1>4

-----------------------------------------------------------------------------
(* KnowledgeTurn: its steps.                                               *)

\* A step of the turn that does not complete it.
LEMMA StepSound ==
  ASSUME TurnIndInv, UNCHANGED <<reranker, ask>>, TurnSound(turn', ask)
  PROVE  TurnIndInv'
BY DEF TurnIndInv, TurnSound, Visible, PackSound, StatusTells, OutcomeTells

LEMMA EvaluateKeeps ==
  ASSUME TurnIndInv, EvaluateRetrieval
  PROVE  TurnIndInv'
<1>1. /\ TurnSound(turn, ask) /\ turn \in Turns /\ turn.at = "start" /\ turn.chunks = <<>>
      /\ turn.status = "not_needed"
  BY DEF TurnIndInv, TurnSound, StatusTells, EvaluateRetrieval
<1>2. PICK d \in Decisions :
        turn' = [turn EXCEPT !.at = IF ~d.search THEN "answer" ELSE "search",
                             !.search = d.search, !.tries = d.tries]
  BY DEF EvaluateRetrieval
<1>3. d.search \in BOOLEAN /\ d.tries \in Nat /\ d.tries > 0
  BY DEF Decisions
<1>4. /\ turn' \in Turns /\ turn'.at \in {"answer", "search"} /\ turn'.pack = turn.pack
      /\ turn'.chunks = <<>> /\ turn'.status = "not_needed" /\ turn'.tries > 0
  BY <1>1, <1>2, <1>3 DEF Turns
<1>5. StatusTells(turn')
  BY <1>4 DEF StatusTells
<1>6. TurnSound(turn', ask)
  BY <1>1, <1>4, <1>5, BareMovesSound
<1> QED BY <1>6, StepSound DEF EvaluateRetrieval

\* The turn goes on to its answer without a chunk.
LEMMA WithoutChunksSound ==
  ASSUME TurnSound(turn, ask), turn.at = "search",
         NEW status \in {"unavailable", "scope_required", "failed"}
  PROVE  TurnSound([turn EXCEPT !.at = "answer", !.status = status], ask)
<1> DEFINE u == [turn EXCEPT !.at = "answer", !.status = status]
<1>1. turn \in Turns /\ turn.chunks = <<>>
  BY DEF TurnSound, StatusTells
<1>2. /\ u \in Turns /\ u.at = "answer" /\ u.pack = turn.pack /\ u.chunks = <<>>
      /\ u.status = status
  BY <1>1 DEF Turns
<1>3. StatusTells(u)
  BY <1>2 DEF StatusTells
<1> HIDE DEF u
<1>4. TurnSound(u, ask)
  BY <1>2, <1>3, BareMovesSound
<1> QED BY <1>4 DEF u

LEMMA WithoutChunksKeeps ==
  ASSUME TurnIndInv, RetrieverUnavailable \/ ScopeRequired \/ SearchFails
  PROVE  TurnIndInv'
<1>1. TurnSound(turn, ask) /\ turn.at = "search" /\ UNCHANGED <<reranker, ask>>
  BY DEF TurnIndInv, RetrieverUnavailable, ScopeRequired, SearchFails
<1>2. PICK status \in {"unavailable", "scope_required", "failed"} :
        turn' = [turn EXCEPT !.at = "answer", !.status = status]
  BY DEF RetrieverUnavailable, ScopeRequired, SearchFails
<1>3. TurnSound(turn', ask)
  BY <1>1, <1>2, WithoutChunksSound
<1> QED BY <1>1, <1>3, StepSound

LEMMA SearchKeeps ==
  ASSUME TurnIndInv, Search
  PROVE  TurnIndInv'
<1>1. /\ TurnSound(turn, ask) /\ turn \in Turns /\ turn.at = "search" /\ turn.chunks = <<>>
      /\ turn.tries > 0 /\ turn.status = "not_needed" /\ UNCHANGED <<reranker, ask>>
  BY DEF TurnIndInv, TurnSound, StatusTells, Search
<1>2. PICK scope \in TurnScope(ask.user, ask.chat) :
        \E matched \in SearchReplies(scope, ask.sources) :
          turn' = IF Len(Hits(matched)) > 1
                  THEN [turn EXCEPT !.at = "rerank", !.chunks = Hits(matched)]
                  ELSE Found(FirstN(Hits(matched), TopK))
  BY DEF Search
<1>3. PICK matched \in SearchReplies(scope, ask.sources) :
        turn' = IF Len(Hits(matched)) > 1
                THEN [turn EXCEPT !.at = "rerank", !.chunks = Hits(matched)]
                ELSE Found(FirstN(Hits(matched), TopK))
  BY <1>2
<1>4. PICK hits \in Seq(Visible(ask)) : hits = Hits(matched)
  BY HitsVisible
<1>5. CASE Len(hits) > 1
  <2>1. hits # <<>> /\ hits \in Seq(Chunks)
    BY <1>4, <1>5 DEF Visible
  <2>2. turn' = [turn EXCEPT !.at = "rerank", !.chunks = hits]
    BY <1>3, <1>4, <1>5, Zenon
  <2>3. /\ turn' \in Turns /\ turn'.at = "rerank" /\ turn'.pack = turn.pack
        /\ turn'.chunks = hits /\ turn'.status = "not_needed" /\ turn'.tries > 0
    BY <1>1, <2>1, <2>2 DEF Turns
  <2>4. StatusTells(turn')
    BY <2>1, <2>3 DEF StatusTells
  <2>5. TurnSound(turn', ask)
    BY <1>1, <2>3, <2>4, MovesSound
  <2> QED BY <1>1, <2>5, StepSound
<1>6. CASE ~(Len(hits) > 1)
  <2>1. turn' = Found(FirstN(hits, TopK))
    BY <1>3, <1>4, <1>6, Zenon
  <2>2. FirstN(hits, TopK) \in Seq(Visible(ask))
    BY <1>4, FirstOf, TurnConstants
  <2>3. TurnSound(Found(FirstN(hits, TopK)), ask)
    BY <1>1, <2>2, FoundSound
  <2> QED BY <1>1, <2>1, <2>3, StepSound
<1> QED BY <1>5, <1>6

LEMMA RerankKeeps ==
  ASSUME TurnIndInv, Rerank
  PROVE  TurnIndInv'
<1>1. /\ TurnSound(turn, ask) /\ turn \in Turns /\ turn.at = "rerank" /\ turn.chunks # <<>>
      /\ turn.tries \in Nat /\ turn.tries > 0 /\ turn.status = "not_needed"
      /\ turn.chunks \in Seq(Visible(ask)) /\ UNCHANGED <<reranker, ask>>
  BY DEF TurnIndInv, TurnSound, StatusTells, Rerank, Turns
<1>2. CASE turn' = Found(FirstN(turn.chunks, TopK))
  <2>1. FirstN(turn.chunks, TopK) \in Seq(Visible(ask)) /\ FirstN(turn.chunks, TopK) # <<>>
    BY <1>1, FirstOf, TurnConstants
  <2>2. TurnSound(turn', ask)
    BY <1>1, <1>2, <2>1, FoundSound
  <2> QED BY <1>1, <2>2, StepSound
<1>3. CASE \E reply \in RerankReplies(Len(turn.chunks)) :
             turn' = IF Reranked(turn.chunks, reply) # <<>> \/ turn.tries = 1
                     THEN [Found(Reranked(turn.chunks, reply))
                             EXCEPT !.chunks = Reranked(turn.chunks, reply)]
                     ELSE [turn EXCEPT !.at = "search", !.tries = @ - 1, !.chunks = <<>>]
  <2>1. PICK reply \in RerankReplies(Len(turn.chunks)) :
             turn' = IF Reranked(turn.chunks, reply) # <<>> \/ turn.tries = 1
                     THEN [Found(Reranked(turn.chunks, reply))
                             EXCEPT !.chunks = Reranked(turn.chunks, reply)]
                     ELSE [turn EXCEPT !.at = "search", !.tries = @ - 1, !.chunks = <<>>]
    BY <1>3
  <2>2. Len(turn.chunks) \in Nat
    BY <1>1
  <2>3. PICK kept \in Seq(Visible(ask)) : kept = Reranked(turn.chunks, reply)
    BY <1>1, <2>2, RerankedOf
  <2>4. turn' = IF kept # <<>> \/ turn.tries = 1 THEN [Found(kept) EXCEPT !.chunks = kept]
                ELSE [turn EXCEPT !.at = "search", !.tries = @ - 1, !.chunks = <<>>]
    BY <2>1, <2>3
  <2>5. kept \in Seq(Chunks)
    BY <2>3 DEF Visible
  <2>6. CASE kept # <<>>
    <3>1. PICK now : now = Found(kept)
      OBVIOUS
    <3>2. TurnSound(now, ask) /\ now \in Turns
      BY <1>1, <2>3, <2>6, <3>1, FoundSound DEF TurnSound
    <3>3. now.chunks = kept
      BY <1>1, <2>6, <3>1 DEF Found, Turns
    <3>4. [now EXCEPT !.chunks = kept] = now
      BY <3>2, <3>3 DEF Turns
    <3>5. turn' = now
      BY <2>4, <2>6, <3>1, <3>4
    <3> QED BY <1>1, <3>2, <3>5, StepSound
  <2>7. CASE kept = <<>> /\ turn.tries = 1
    <3>1. turn' = [[turn EXCEPT !.at = "answer", !.status = "no_results"] EXCEPT !.chunks = <<>>]
      BY <1>1, <2>4, <2>7 DEF Found
    <3>2. PICK v : v = [turn EXCEPT !.at = "answer", !.status = "no_results"]
      OBVIOUS
    <3>3. v \in Turns /\ v.at = "answer" /\ v.status = "no_results" /\ v.pack = turn.pack
      BY <1>1, <3>2 DEF Turns
    <3>4. turn' = [v EXCEPT !.chunks = <<>>]
      BY <3>1, <3>2
    <3>5. /\ turn' \in Turns /\ turn'.at = "answer" /\ turn'.pack = turn.pack
          /\ turn'.chunks = <<>> /\ turn'.status = "no_results"
      BY <3>3, <3>4, EmptySeq DEF Turns
    <3>6. StatusTells(turn')
      BY <3>5 DEF StatusTells
    <3>7. TurnSound(turn', ask)
      BY <1>1, <3>5, <3>6, BareMovesSound
    <3> QED BY <1>1, <3>7, StepSound
  <2>8. CASE kept = <<>> /\ turn.tries # 1
    <3>1. PICK k \in Nat : k = turn.tries - 1 /\ k > 0
      BY <1>1, <2>8
    <3>2. turn' = [turn EXCEPT !.at = "search", !.tries = k, !.chunks = <<>>]
      BY <2>4, <2>8, <3>1
    <3>3. /\ turn' \in Turns /\ turn'.at = "search" /\ turn'.pack = turn.pack
          /\ turn'.chunks = <<>> /\ turn'.status = "not_needed" /\ turn'.tries = k
      BY <1>1, <3>2, EmptySeq DEF Turns
    <3>4. StatusTells(turn')
      BY <3>1, <3>3 DEF StatusTells
    <3>5. TurnSound(turn', ask)
      BY <1>1, <3>3, <3>4, BareMovesSound
    <3> QED BY <1>1, <3>5, StepSound
  <2> QED BY <2>6, <2>7, <2>8
<1> QED BY <1>2, <1>3 DEF Rerank

LEMMA PanicKeeps ==
  ASSUME TurnIndInv, RerankPanics
  PROVE  TurnIndInv'
<1>1. TurnSound(turn, ask) /\ turn \in Turns /\ turn.at = "rerank" /\ UNCHANGED <<reranker, ask>>
  BY DEF TurnIndInv, TurnSound, RerankPanics
<1>2. /\ turn' \in Turns /\ turn'.at = "panicked" /\ turn'.pack = turn.pack
      /\ turn'.chunks = turn.chunks
  BY <1>1 DEF RerankPanics, Turns
<1>3. StatusTells(turn')
  BY <1>2 DEF StatusTells
<1>4. TurnSound(turn', ask)
  BY <1>1, <1>2, <1>3, MovesSound DEF TurnSound
<1> QED BY <1>1, <1>4, StepSound

\* The answer: what it was prompted with, and what it cites.
LEMMA CompleteKeeps ==
  ASSUME TurnIndInv, turn.at = "answer", UNCHANGED <<reranker, ask>>,
         NEW pack \in Packs, PackSound(pack, Visible(ask)),
         NEW answer \in {"insufficient", "model", "fallback"}, NEW prompted \in BOOLEAN,
         NEW cited \in SUBSET {pack.snippets[i].number : i \in DOMAIN pack.snippets},
         Insufficient(pack) => answer = "insufficient" /\ ~prompted,
         Complete(pack, answer, prompted, cited)
  PROVE  TurnIndInv'
<1>1. TurnSound(turn, ask) /\ turn \in Turns /\ (turn.status = "retrieved" <=> turn.chunks # <<>>)
  BY DEF TurnIndInv, TurnSound, StatusTells
<1>2. pack.snippets \in Seq([number : Nat, chunk : Chunks])
  BY DEF Packs
<1>3. \A i \in DOMAIN pack.snippets : pack.snippets[i].number \in Nat
  <2> SUFFICES ASSUME NEW i \in DOMAIN pack.snippets PROVE pack.snippets[i].number \in Nat
    OBVIOUS
  <2>1. i \in 1..Len(pack.snippets)
    BY <1>2
  <2>2. pack.snippets[i] \in [number : Nat, chunk : Chunks]
    BY <1>2, <2>1, ElementOfSeq
  <2> QED BY <2>2
<1>4. cited \in SUBSET Nat
  BY <1>3
<1>5. PICK g \in {"insufficient_context", "not_applicable", "grounded", "missing_citations"} :
        g = Grounding(pack, cited)
  BY DEF Grounding
<1>6. turn' = [turn EXCEPT !.at = "done", !.answer = answer, !.prompted = prompted,
                           !.pack = pack, !.cited = cited, !.grounding = g]
  BY <1>5 DEF Complete
<1>7. /\ turn' \in Turns /\ turn'.at = "done" /\ turn'.pack = pack /\ turn'.chunks = turn.chunks
      /\ turn'.status = turn.status /\ turn'.search = turn.search /\ turn'.answer = answer
      /\ turn'.prompted = prompted /\ turn'.cited = cited /\ turn'.grounding = g
  BY <1>1, <1>4, <1>6 DEF Turns
<1>8. StatusTells(turn')
  BY <1>1, <1>7 DEF StatusTells
<1>9. OutcomeTells(turn')
  <2>1. turn'.search /\ pack.snippets = <<>> => answer = "insufficient" /\ ~prompted
    BY <1>7 DEF Insufficient, HasContext
  <2>2. g = "grounded" <=> cited # {}
    <3>1. CASE pack.snippets = <<>>
      <4>1. cited = {}
        BY <3>1
      <4>2. g # "grounded"
        BY <1>5, <3>1 DEF Grounding, HasContext
      <4> QED BY <4>1, <4>2
    <3>2. CASE pack.snippets # <<>>
      BY <1>5, <3>2 DEF Grounding, HasContext
    <3> QED BY <3>1, <3>2
  <2>3. cited # {} <=> \E n \in cited : \E i \in DOMAIN pack.snippets : pack.snippets[i].number = n
    OBVIOUS
  <2> QED BY <1>7, <2>1, <2>2, <2>3 DEF OutcomeTells
<1>10. turn'.chunks \in Seq(Visible(ask)) /\ PackSound(turn'.pack, Visible(ask))
  BY <1>1, <1>7 DEF TurnSound
<1>11. TurnSound(turn', ask)
  BY <1>7, <1>8, <1>9, <1>10 DEF TurnSound
<1> QED BY <1>11, StepSound

LEMMA AnswerKeeps ==
  ASSUME TurnIndInv, AnswerTurn
  PROVE  TurnIndInv'
<1>1. TurnSound(turn, ask) /\ turn.at = "answer" /\ UNCHANGED <<reranker, ask>>
      /\ turn.chunks \in Seq(Visible(ask))
  BY DEF TurnIndInv, TurnSound, AnswerTurn
<1>2. Visible(ask) \in SUBSET Chunks
  BY DEF Visible
<1>3. PICK pack \in Packs : pack = PackContext(turn.chunks) /\ PackSound(pack, Visible(ask))
  BY <1>1, <1>2, PackContextSound
<1>4. PICK numbers : numbers = {pack.snippets[i].number : i \in DOMAIN pack.snippets}
  OBVIOUS
<1>5. IF Insufficient(pack) THEN Complete(pack, "insufficient", FALSE, {})
      ELSE \/ \E named \in SUBSET (1..TopK + 1) : Complete(pack, "model", TRUE, named \cap numbers)
           \/ Complete(pack, "fallback", FALSE, numbers)
  BY <1>3, <1>4 DEF AnswerTurn
<1>7. CASE Insufficient(pack)
  BY <1>1, <1>3, <1>5, <1>7, CompleteKeeps
<1>8. CASE ~Insufficient(pack) /\ Complete(pack, "fallback", FALSE, numbers)
  BY <1>1, <1>3, <1>4, <1>8, CompleteKeeps
<1>9. CASE /\ ~Insufficient(pack)
           /\ \E named \in SUBSET (1..TopK + 1) : Complete(pack, "model", TRUE, named \cap numbers)
  <2>1. PICK named : Complete(pack, "model", TRUE, named \cap numbers)
    BY <1>9
  <2>2. PICK cited \in SUBSET numbers : Complete(pack, "model", TRUE, cited)
    BY <2>1
  <2> QED BY <1>1, <1>3, <1>4, <1>9, <2>2, CompleteKeeps
<1> QED BY <1>5, <1>7, <1>8, <1>9

LEMMA NextTurnKeeps ==
  ASSUME TurnIndInv, NextTurn
  PROVE  TurnIndInv'
<1>1. turn' = NewTurn /\ reranker' = reranker
  BY DEF NextTurn
<1>2. TurnSound(NewTurn, ask')
  BY NewTurnSound
<1>3. TurnSound(turn', ask')
  BY <1>1, <1>2
<1> QED BY <1>1, <1>3 DEF TurnIndInv, TurnSound, Visible, PackSound, StatusTells, OutcomeTells

LEMMA TurnIndTells ==
  ASSUME TurnIndInv
  PROVE  TurnInv
<1>1. /\ reranker \in {"healthy", "none"} /\ turn \in Turns /\ PackSound(turn.pack, Visible(ask))
      /\ StatusTells(turn) /\ OutcomeTells(turn)
  BY DEF TurnIndInv, TurnSound
<1>2. TurnTypeOK
  BY <1>1 DEF TurnTypeOK, Turns
<1>3. PromptIsSound
  BY <1>1 DEF PromptIsSound, PackSound
<1>4. OwnKnowledgeOnly
  BY <1>1 DEF OwnKnowledgeOnly, PackSound, Visible
<1>5. OutcomeIsHonest
  BY <1>1 DEF OutcomeIsHonest, OutcomeTells, StatusTells
<1> QED BY <1>2, <1>3, <1>4, <1>5 DEF TurnInv

\* Every turn of every request, whatever the services answer, keeps its prompt
\* within the budget and to the chunks of the request, and its outcome tells
\* what happened (RunTurn, RetrieveWithOptions, PackContext).
THEOREM TurnKeeps == TurnSpec => []TurnInv
<1>1. TurnInit => TurnIndInv
  <2> SUFFICES ASSUME TurnInit PROVE TurnIndInv
    OBVIOUS
  <2>1. turn = NewTurn /\ reranker \in {"healthy", "none"} /\ TurnSound(NewTurn, ask)
    BY NewTurnSound DEF TurnInit
  <2> QED BY <2>1 DEF TurnIndInv
<1>2. TurnIndInv /\ [TurnNext]_turnVars => TurnIndInv'
  <2> SUFFICES ASSUME TurnIndInv, [TurnNext]_turnVars PROVE TurnIndInv'
    OBVIOUS
  <2>1. CASE EvaluateRetrieval
    BY <2>1, EvaluateKeeps
  <2>2. CASE RetrieverUnavailable \/ ScopeRequired \/ SearchFails
    BY <2>2, WithoutChunksKeeps
  <2>3. CASE Search
    BY <2>3, SearchKeeps
  <2>4. CASE Rerank
    BY <2>4, RerankKeeps
  <2>5. CASE RerankPanics
    BY <2>5, PanicKeeps
  <2>6. CASE AnswerTurn
    BY <2>6, AnswerKeeps
  <2>7. CASE NextTurn
    BY <2>7, NextTurnKeeps
  <2>8. CASE UNCHANGED turnVars
    BY <2>8 DEF turnVars, TurnIndInv, TurnSound, Visible, PackSound, StatusTells, OutcomeTells
  <2> QED BY <2>1, <2>2, <2>3, <2>4, <2>5, <2>6, <2>7, <2>8 DEF TurnNext, TurnStep
<1>3. TurnIndInv => TurnInv
  BY TurnIndTells
<1> QED BY <1>1, <1>2, <1>3, PTL DEF TurnSpec

-----------------------------------------------------------------------------
(* WebSearch: the lists it makes.                                          *)

\* No link is in s twice.
LinkOnce(s) ==
  \A i, j \in DOMAIN s : s[i].link = s[j].link /\ s[i].link # NoLink => i = j

\* A page that was read, or the snippet of an item without one.
Source(d, read) ==
  /\ d \in Doc
  /\ IF d.text = "page" THEN d.link \in read
     ELSE d.link \notin read /\ [link |-> d.link, snippet |-> TRUE] \in ToSet(found)

\* The documents of a search that read these pages, where `again' allows one
\* document to be there twice.
DocsSound(ds, read, again) ==
  /\ ds \in Seq(Doc)
  /\ again = FALSE => LinkOnce(ds)
  /\ \A i \in DOMAIN ds : Source(ds[i], read)
  /\ Snippets # <<>> \/ read # {} => ds # <<>>

WebIndInv ==
  /\ WebTypeOK
  /\ LinkOnce(found)
  /\ stage = "rewrite" => found = <<>>
  /\ stage \notin {"compress", "done"} => repeated = FALSE
  /\ stage \in {"rank", "compress", "done"} => DocsSound(docs, pages, repeated)
  /\ stage = "done" => Len(docs) <= MaxDocuments
  /\ stage = "failed" => Urls # <<>> \/ found = <<>>

Items == {had \in Seq(Item) : Len(had) <= MaxProviderResults /\ LinkOnce(had)}

LEMMA CollectSound ==
  ASSUME NEW had \in Items, NEW item \in Item
  PROVE  Collect(had, item) \in Items
<1>1. had \in Seq(Item) /\ Len(had) <= MaxProviderResults /\ LinkOnce(had)
  BY DEF Items
<1>2. PICK n \in Nat : n = Len(had) /\ DOMAIN had = 1..n
  BY <1>1
<1>3. CASE n >= MaxProviderResults \/ item.link \in LinksOf(had)
  BY <1>2, <1>3 DEF Collect
<1>4. CASE ~(n >= MaxProviderResults) /\ item.link \notin LinksOf(had)
  <2>1. PICK q \in Seq(Item) : q = Append(had, item)
    BY <1>1, AppendProperties
  <2>2. /\ Len(q) = n + 1 /\ q[n + 1] = item /\ DOMAIN q = 1..n + 1
        /\ \A i \in 1..n : q[i] = had[i]
    BY <1>1, <1>2, <2>1, AppendProperties
  <2>3. n + 1 <= MaxProviderResults
    BY <1>2, <1>4, SearchConstants
  <2>4. ASSUME NEW i \in 1..n PROVE had[i].link # NoLink => had[i].link # item.link
    BY <1>2, <1>4 DEF LinksOf
  <2>5. LinkOnce(q)
    <3> SUFFICES ASSUME NEW i \in 1..n + 1, NEW j \in 1..n + 1,
                        q[i].link = q[j].link, q[i].link # NoLink
                 PROVE  i = j
      BY <2>2 DEF LinkOnce
    <3>1. (i \in 1..n \/ i = n + 1) /\ (j \in 1..n \/ j = n + 1)
      OBVIOUS
    <3>2. CASE i \in 1..n /\ j \in 1..n
      BY <1>1, <1>2, <2>2, <3>2 DEF LinkOnce
    <3>3. CASE i \in 1..n /\ j = n + 1
      BY <2>2, <2>4, <3>3
    <3>4. CASE i = n + 1 /\ j \in 1..n
      BY <2>2, <2>4, <3>4
    <3> QED BY <3>1, <3>2, <3>3, <3>4
  <2>6. q \in Items
    BY <2>1, <2>2, <2>3, <2>5 DEF Items
  <2>7. Collect(had, item) = q
    BY <1>2, <1>4, <2>1 DEF Collect
  <2> QED BY <2>6, <2>7
<1> QED BY <1>2, <1>3, <1>4

LEMMA CollectTyped ==
  ASSUME NEW had \in Seq(Item), NEW item \in Item
  PROVE  Collect(had, item) \in Seq(Item)
<1>1. Append(had, item) \in Seq(Item)
  BY AppendProperties
<1> QED BY <1>1 DEF Collect

\* The items of any number of replies are no more than enough, and of
\* different links.
LEMMA CollectedSound ==
  ASSUME NEW had \in Items, NEW reply \in Seq(Item)
  PROVE  Collected(had, reply) \in Items
<1> DEFINE step == [p \in Seq(Item) \X Item |-> Collect(p[1], p[2])]
           I == [n \in 0..Len(reply) |-> Items]
<1>1. Collected(had, reply) = Looped(step, had, reply)
  BY DEF Collected
<1>2. \A s \in Seq(Item) : \A x \in Item : step[<<s, x>>] = Collect(s, x)
  OBVIOUS
<1>3. step \in [Seq(Item) \X Item -> Seq(Item)]
  BY CollectTyped
<1>4. /\ \A n \in 0..Len(reply) : I[n] = Items
      /\ 0 \in 0..Len(reply) /\ Len(reply) \in 0..Len(reply)
  OBVIOUS
<1>5. had \in Seq(Item)
  BY DEF Items
<1> HIDE DEF step, I
<1>6. ASSUME NEW i \in 1..Len(reply), NEW s \in Seq(Item), s \in I[i - 1]
      PROVE  step[<<s, reply[i]>>] \in I[i]
  <2>1. i - 1 \in 0..Len(reply) /\ i \in 0..Len(reply)
    OBVIOUS
  <2>2. reply[i] \in Item
    BY ElementOfSeq
  <2>3. s \in Items
    BY <1>4, <1>6, <2>1
  <2>4. Collect(s, reply[i]) \in Items
    BY <2>2, <2>3, CollectSound
  <2> QED BY <1>2, <1>4, <2>1, <2>2, <2>4
<1>7. had \in I[0]
  BY <1>4
<1>8. Looped(step, had, reply) \in I[Len(reply)]
  BY <1>3, <1>5, <1>6, <1>7, LoopKeeps, Zenon
<1> QED BY <1>1, <1>4, <1>8

\* Picked elements are at different places.
LEMMA PickedApart ==
  ASSUME NEW r, NEW g, NEW s, NEW T, NEW n \in Nat, Len(r) \in Nat, Picks(r, g, s, T, n),
         NEW i \in 1..Len(r), NEW j \in 1..Len(r), g[i] = g[j]
  PROVE  i = j
<1>1. g[i] \in 1..n /\ ~(g[i] < g[j]) /\ ~(g[j] < g[i])
  BY DEF Picks
<1>2. ~(i < j) /\ ~(j < i)
  BY <1>1 DEF Picks
<1> QED BY <1>2

LEMMA SnippetsSound ==
  ASSUME found \in Seq(Item), LinkOnce(found)
  PROVE  /\ Snippets \in Seq(Doc) /\ LinkOnce(Snippets)
         /\ \A i \in DOMAIN Snippets :
              /\ Snippets[i].text = "snippet"
              /\ [link |-> Snippets[i].link, snippet |-> TRUE] \in ToSet(found)
<1> DEFINE T == {item \in Item : item.snippet}
<1>1. PICK with : with = Only(found, T)
  OBVIOUS
<1>2. with \in Seq(T) /\ \E g : Picks(with, g, found, T, Len(found))
  BY <1>1, OnlyPicks
<1>3. PICK g : Picks(with, g, found, T, Len(found))
  BY <1>2
<1>4. PICK n \in Nat : n = Len(with) /\ DOMAIN with = 1..n
  BY <1>2
<1>5. PICK s : s = [i \in 1..n |-> [link |-> with[i].link, text |-> "snippet"]]
  OBVIOUS
<1>6. Snippets = s
  BY <1>1, <1>4, <1>5 DEF Snippets
<1>7. ASSUME NEW i \in 1..n
      PROVE  /\ with[i] \in Item /\ with[i].snippet
             /\ with[i] = found[g[i]] /\ g[i] \in 1..Len(found)
  <2>1. with[i] \in T
    BY <1>2, <1>4, ElementOfSeq
  <2>2. with[i] = found[g[i]] /\ g[i] \in 1..Len(found)
    BY <1>3, <1>4 DEF Picks
  <2> QED BY <2>1, <2>2
<1>8. s \in Seq(Doc) /\ DOMAIN s = 1..n
  <2>1. \A i \in 1..n : with[i].link \in Links \cup {NoLink}
    BY <1>7 DEF Item
  <2> QED BY <1>5, <2>1 DEF Doc
<1>9. \A i \in 1..n : s[i].link = with[i].link /\ s[i].text = "snippet"
  BY <1>5
<1>10. LinkOnce(s)
  <2> SUFFICES ASSUME NEW i \in 1..n, NEW j \in 1..n, s[i].link = s[j].link, s[i].link # NoLink
               PROVE  i = j
    BY <1>8 DEF LinkOnce
  <2>1. found[g[i]].link = found[g[j]].link /\ found[g[i]].link # NoLink
    BY <1>7, <1>9
  <2>2. g[i] \in DOMAIN found /\ g[j] \in DOMAIN found
    BY <1>7
  <2>3. g[i] = g[j]
    BY <2>1, <2>2 DEF LinkOnce
  <2> QED BY <1>3, <1>4, <2>3, PickedApart
<1>11. ASSUME NEW i \in 1..n PROVE [link |-> s[i].link, snippet |-> TRUE] \in ToSet(found)
  <2>1. with[i] = [link |-> with[i].link, snippet |-> TRUE]
    BY <1>7 DEF Item
  <2>2. with[i] \in ToSet(found)
    BY <1>7 DEF ToSet
  <2> QED BY <1>9, <2>1, <2>2
<1> QED BY <1>6, <1>8, <1>9, <1>10, <1>11

LEMMA UrlsSound ==
  ASSUME found \in Seq(Item), LinkOnce(found)
  PROVE  /\ Urls \in Seq(Links)
         /\ \A i, j \in DOMAIN Urls : Urls[i] = Urls[j] => i = j
         /\ \A l \in LinksOf(found) : \E i \in DOMAIN Urls : Urls[i] = l
<1> DEFINE T == {item \in Item : item.link # NoLink}
<1>1. PICK linked : linked = Only(found, T)
  OBVIOUS
<1>2. linked \in Seq(T) /\ \E g : Picks(linked, g, found, T, Len(found))
  BY <1>1, OnlyPicks
<1>3. PICK g : Picks(linked, g, found, T, Len(found))
  BY <1>2
<1>4. PICK n \in Nat : n = Len(linked) /\ DOMAIN linked = 1..n
  BY <1>2
<1>5. PICK s : s = [i \in 1..n |-> linked[i].link]
  OBVIOUS
<1>6. Urls = s
  BY <1>1, <1>4, <1>5 DEF Urls
<1>7. ASSUME NEW i \in 1..n
      PROVE  /\ linked[i] \in Item /\ linked[i].link # NoLink
             /\ linked[i] = found[g[i]] /\ g[i] \in 1..Len(found)
  <2>1. linked[i] \in T
    BY <1>2, <1>4, ElementOfSeq
  <2>2. linked[i] = found[g[i]] /\ g[i] \in 1..Len(found)
    BY <1>3, <1>4 DEF Picks
  <2> QED BY <2>1, <2>2
<1>8. s \in Seq(Links) /\ DOMAIN s = 1..n /\ \A i \in 1..n : s[i] = linked[i].link
  <2>1. \A i \in 1..n : linked[i].link \in Links
    BY <1>7 DEF Item
  <2> QED BY <1>5, <2>1
<1>9. ASSUME NEW i \in 1..n, NEW j \in 1..n, s[i] = s[j] PROVE i = j
  <2>1. found[g[i]].link = found[g[j]].link /\ found[g[i]].link # NoLink
    BY <1>7, <1>8, <1>9
  <2>2. g[i] \in DOMAIN found /\ g[j] \in DOMAIN found
    BY <1>7
  <2>3. g[i] = g[j]
    BY <2>1, <2>2 DEF LinkOnce
  <2> QED BY <1>3, <1>4, <2>3, PickedApart
<1>10. ASSUME NEW l \in LinksOf(found) PROVE \E i \in 1..n : s[i] = l
  <2>1. PICK k \in DOMAIN found : found[k].link = l /\ l # NoLink
    BY DEF LinksOf
  <2>2. k \in 1..Len(found) /\ found[k] \in Item
    BY ElementOfSeq
  <2>3. found[k] \in T
    BY <2>1, <2>2
  <2>4. PICK i \in 1..n : g[i] = k
    BY <1>3, <1>4, <2>2, <2>3 DEF Picks
  <2>5. s[i] = l
    BY <1>7, <1>8, <2>1, <2>4
  <2> QED BY <2>5
<1> QED BY <1>6, <1>8, <1>9, <1>10

\* The pages that were read, as documents.
PageDocs(read) ==
  LET kept == Only(Urls, read)
  IN  [i \in DOMAIN kept |-> [link |-> kept[i], text |-> "page"]]

LEMMA PageDocsSound ==
  ASSUME found \in Seq(Item), LinkOnce(found), NEW read \in SUBSET LinksOf(found)
  PROVE  /\ PageDocs(read) \in Seq(Doc) /\ LinkOnce(PageDocs(read))
         /\ \A i \in DOMAIN PageDocs(read) :
              PageDocs(read)[i].text = "page" /\ PageDocs(read)[i].link \in read
         /\ LinksOf(PageDocs(read)) = read
         /\ read # {} => PageDocs(read) # <<>>
<1>1. /\ Urls \in Seq(Links)
      /\ \A i, j \in DOMAIN Urls : Urls[i] = Urls[j] => i = j
      /\ \A l \in LinksOf(found) : \E i \in DOMAIN Urls : Urls[i] = l
  BY UrlsSound
<1>2. PICK kept : kept = Only(Urls, read)
  OBVIOUS
<1>3. kept \in Seq(read) /\ \E g : Picks(kept, g, Urls, read, Len(Urls))
  BY <1>1, <1>2, OnlyPicks
<1>4. PICK g : Picks(kept, g, Urls, read, Len(Urls))
  BY <1>3
<1>5. PICK n \in Nat : n = Len(kept) /\ DOMAIN kept = 1..n
  BY <1>3
<1>6. PICK s : s = [i \in 1..n |-> [link |-> kept[i], text |-> "page"]]
  OBVIOUS
<1>7. PageDocs(read) = s
  BY <1>2, <1>5, <1>6 DEF PageDocs
<1>8. \A l \in read : l \in Links /\ l # NoLink /\ l \in LinksOf(found)
  <2>1. \A k \in DOMAIN found : found[k] \in Item
    BY ElementOfSeq
  <2>2. LinksOf(found) \in SUBSET Links
    BY <2>1 DEF LinksOf, Item
  <2> QED BY <2>2, SearchConstants
<1>9. \A i \in 1..n : kept[i] \in read /\ kept[i] = Urls[g[i]] /\ g[i] \in 1..Len(Urls)
  <2> SUFFICES ASSUME NEW i \in 1..n
               PROVE  kept[i] \in read /\ kept[i] = Urls[g[i]] /\ g[i] \in 1..Len(Urls)
    OBVIOUS
  <2>1. kept[i] \in read
    BY <1>3, <1>5, ElementOfSeq
  <2>2. kept[i] = Urls[g[i]] /\ g[i] \in 1..Len(Urls)
    BY <1>4, <1>5 DEF Picks
  <2> QED BY <2>1, <2>2
<1>10. /\ s \in Seq(Doc) /\ DOMAIN s = 1..n
       /\ \A i \in 1..n : s[i].text = "page" /\ s[i].link = kept[i]
  BY <1>6, <1>8, <1>9 DEF Doc
<1>11. LinkOnce(s)
  <2> SUFFICES ASSUME NEW i \in 1..n, NEW j \in 1..n, s[i].link = s[j].link PROVE i = j
    BY <1>10 DEF LinkOnce
  <2>1. Urls[g[i]] = Urls[g[j]] /\ g[i] \in DOMAIN Urls /\ g[j] \in DOMAIN Urls
    BY <1>1, <1>9, <1>10
  <2>2. g[i] = g[j]
    BY <1>1, <2>1
  <2>3. Len(Urls) \in Nat
    BY <1>1
  <2> QED BY <1>4, <1>5, <2>2, <2>3, PickedApart
<1>12. ASSUME NEW l \in read PROVE \E i \in 1..n : s[i].link = l
  <2>1. PICK k \in DOMAIN Urls : Urls[k] = l
    BY <1>1, <1>8
  <2>2. k \in 1..Len(Urls)
    BY <1>1
  <2>3. PICK i \in 1..n : g[i] = k
    BY <1>4, <1>5, <2>1, <2>2 DEF Picks
  <2> QED BY <1>9, <1>10, <2>1, <2>3
<1>13. LinksOf(s) = read
  BY <1>8, <1>9, <1>10, <1>12 DEF LinksOf
<1>14. read # {} => s # <<>>
  BY <1>10, <1>12
<1> QED BY <1>7, <1>9, <1>10, <1>11, <1>13, <1>14

LEMMA MergedSound ==
  ASSUME found \in Seq(Item), LinkOnce(found), NEW read \in SUBSET LinksOf(found)
  PROVE  DocsSound(MergeDocuments(PageDocs(read)), read, FALSE)
<1>1. PICK p \in Seq(Doc) :
        /\ p = PageDocs(read) /\ LinkOnce(p)
        /\ \A i \in DOMAIN p : p[i].text = "page" /\ p[i].link \in read
        /\ LinksOf(p) = read
        /\ read # {} => p # <<>>
  BY PageDocsSound
<1>2. PICK all \in Seq(Doc) :
        /\ all = Snippets /\ LinkOnce(all)
        /\ \A i \in DOMAIN all :
             /\ all[i].text = "snippet"
             /\ [link |-> all[i].link, snippet |-> TRUE] \in ToSet(found)
  BY SnippetsSound
<1> DEFINE T == {d \in Doc : d.link \notin LinksOf(p)}
<1>3. PICK rest : rest = Only(all, T)
  OBVIOUS
<1>4. rest \in Seq(T) /\ \E g : Picks(rest, g, all, T, Len(all))
  BY <1>3, OnlyPicks
<1>5. PICK g : Picks(rest, g, all, T, Len(all))
  BY <1>4
<1>6. rest \in Seq(Doc)
  BY <1>4
<1>7. PICK m \in Nat : m = Len(p) /\ DOMAIN p = 1..m
  BY <1>1
<1>8. PICK n \in Nat : n = Len(rest) /\ DOMAIN rest = 1..n
  BY <1>4
<1>9. PICK both \in Seq(Doc) : both = p \o rest
  BY <1>6, ConcatProperties
<1>10. Len(both) = m + n /\ \A i \in 1..m + n : both[i] = IF i <= m THEN p[i] ELSE rest[i - m]
  BY <1>6, <1>7, <1>8, <1>9, ConcatProperties
<1>11. DOMAIN both = 1..m + n
  BY <1>10
<1>12. \A i \in 1..m + n : \/ i \in 1..m /\ both[i] = p[i]
                           \/ i \notin 1..m /\ i - m \in 1..n /\ both[i] = rest[i - m]
  BY <1>10
<1>13. ASSUME NEW i \in 1..n
       PROVE  /\ rest[i] \in Doc /\ rest[i].link \notin read /\ rest[i].text = "snippet"
              /\ [link |-> rest[i].link, snippet |-> TRUE] \in ToSet(found)
              /\ rest[i] = all[g[i]] /\ g[i] \in DOMAIN all
  <2>1. rest[i] \in T
    BY <1>4, <1>8, ElementOfSeq
  <2>2. rest[i] = all[g[i]] /\ g[i] \in 1..Len(all)
    BY <1>5, <1>8 DEF Picks
  <2>3. g[i] \in DOMAIN all
    BY <2>2
  <2> QED BY <1>1, <1>2, <2>1, <2>2, <2>3
<1>14. ASSUME NEW i \in 1..m PROVE p[i] \in Doc /\ p[i].text = "page" /\ p[i].link \in read
  <2>1. p[i] \in Doc
    BY <1>1, <1>7, ElementOfSeq
  <2> QED BY <1>1, <1>7, <2>1
<1>15. \A i \in 1..m + n : Source(both[i], read)
  <2> SUFFICES ASSUME NEW i \in 1..m + n PROVE Source(both[i], read)
    OBVIOUS
  <2>1. CASE i \in 1..m /\ both[i] = p[i]
    BY <1>14, <2>1 DEF Source
  <2>2. CASE i - m \in 1..n /\ both[i] = rest[i - m]
    <3>1. PICK k \in 1..n : k = i - m
      BY <2>2
    <3>2. both[i] = rest[k]
      BY <2>2, <3>1
    <3> QED BY <1>13, <3>2 DEF Source
  <2> QED BY <1>12, <2>1, <2>2
<1>16. LinkOnce(both)
  <2> SUFFICES ASSUME NEW i \in 1..m + n, NEW j \in 1..m + n,
                      both[i].link = both[j].link, both[i].link # NoLink
               PROVE  i = j
    BY <1>11 DEF LinkOnce
  <2>1. CASE i \in 1..m /\ j \in 1..m
    <3>1. p[i].link = p[j].link /\ p[i].link # NoLink
      BY <1>12, <2>1
    <3> QED BY <1>1, <1>7, <2>1, <3>1 DEF LinkOnce
  <2>2. CASE i \in 1..m /\ j \notin 1..m
    <3>1. PICK k \in 1..n : k = j - m
      BY <1>12, <2>2
    <3>2. both[i] = p[i] /\ both[j] = rest[k]
      BY <1>12, <2>2, <3>1
    <3> QED BY <1>13, <1>14, <2>2, <3>2
  <2>3. CASE i \notin 1..m /\ j \in 1..m
    <3>1. PICK k \in 1..n : k = i - m
      BY <1>12, <2>3
    <3>2. both[j] = p[j] /\ both[i] = rest[k]
      BY <1>12, <2>3, <3>1
    <3> QED BY <1>13, <1>14, <2>3, <3>2
  <2>4. CASE i \notin 1..m /\ j \notin 1..m
    <3>1. PICK k \in 1..n : k = i - m /\ both[i] = rest[k]
      BY <1>12, <2>4
    <3>2. PICK l \in 1..n : l = j - m /\ both[j] = rest[l]
      BY <1>12, <2>4
    <3>3. /\ all[g[k]].link = all[g[l]].link /\ all[g[k]].link # NoLink
          /\ g[k] \in DOMAIN all /\ g[l] \in DOMAIN all
      BY <1>13, <3>1, <3>2
    <3>4. g[k] = g[l]
      BY <1>2, <3>3 DEF LinkOnce
    <3>5. Len(all) \in Nat
      OBVIOUS
    <3>6. k = l
      BY <1>5, <1>8, <3>4, <3>5, PickedApart
    <3> QED BY <3>1, <3>2, <3>6
  <2> QED BY <2>1, <2>2, <2>3, <2>4
<1>17. all # <<>> \/ read # {} => both # <<>>
  <2>1. CASE m > 0
    BY <1>11, <2>1
  <2>2. CASE m = 0 /\ all # <<>>
    <3>1. LinksOf(p) = {}
      BY <1>7, <2>2 DEF LinksOf
    <3>2. 1 \in 1..Len(all) /\ all[1] \in Doc
      BY <2>2, ElementOfSeq
    <3>3. all[1] \in T
      BY <3>1, <3>2
    <3>4. PICK i \in 1..n : g[i] = 1
      BY <1>5, <1>8, <3>2, <3>3 DEF Picks
    <3> QED BY <1>11, <3>4
  <2>3. m = 0 => p = <<>>
    BY <1>1, <1>7
  <2> QED BY <1>1, <1>7, <2>1, <2>2, <2>3
<1>18. MergeDocuments(PageDocs(read)) = both
  BY <1>1, <1>2, <1>3, <1>9 DEF MergeDocuments
<1> QED BY <1>2, <1>9, <1>11, <1>15, <1>16, <1>17, <1>18 DEF DocsSound

\* Without a page the snippets are the documents.
LEMMA SnippetsAlone ==
  ASSUME found \in Seq(Item), LinkOnce(found)
  PROVE  DocsSound(Snippets, {}, FALSE)
<1>1. PICK all \in Seq(Doc) :
        /\ all = Snippets /\ LinkOnce(all)
        /\ \A i \in DOMAIN all :
             /\ all[i].text = "snippet"
             /\ [link |-> all[i].link, snippet |-> TRUE] \in ToSet(found)
  BY SnippetsSound
<1>2. \A i \in DOMAIN all : all[i] \in Doc
  BY ElementOfSeq
<1>3. \A i \in DOMAIN all : Source(all[i], {})
  BY <1>1, <1>2 DEF Source
<1> QED BY <1>1, <1>3 DEF DocsSound

\* The documents that are not named, after those that are: every one is there,
\* and once if no name is repeated.
LEMMA FollowedSound ==
  ASSUME NEW n \in Nat, NEW named \in RerankResults(n)
  PROVE  /\ FollowedByRest(named, n) \in Seq(1..n)
         /\ FollowedByRest(named, n) # <<>>
         /\ IsInjective(named) => IsInjective(FollowedByRest(named, n))
<1> DEFINE all == [i \in 1..n |-> i]
           T == (1..n) \ ToSet(named)
<1>1. named \in Seq(1..n) /\ named # <<>>
  <2>1. PICK m \in 0..RerankSize : named \in [1..m -> 1..n]
    BY DEF RerankResults, SeqOf
  <2> QED BY <2>1 DEF RerankResults
<1>2. all \in Seq(1..n) /\ Len(all) = n
  OBVIOUS
<1>3. PICK rest : rest = Only(all, T)
  OBVIOUS
<1>4. rest \in Seq(T) /\ \E g : Picks(rest, g, all, T, n)
  BY <1>2, <1>3, OnlyPicks, Zenon
<1>5. PICK g : Picks(rest, g, all, T, n)
  BY <1>4
<1>6. PICK k \in Nat, l \in Nat :
        /\ Len(named) = k /\ DOMAIN named = 1..k
        /\ Len(rest) = l /\ DOMAIN rest = 1..l
  BY <1>1, <1>4
<1>7. \A i, j \in 1..l : rest[i] = rest[j] => i = j
  <2> SUFFICES ASSUME NEW i \in 1..l, NEW j \in 1..l, rest[i] = rest[j] PROVE i = j
    OBVIOUS
  <2>1. g[i] \in 1..n /\ g[j] \in 1..n /\ rest[i] = all[g[i]] /\ rest[j] = all[g[j]]
    BY <1>5, <1>6 DEF Picks
  <2>2. g[i] = g[j]
    BY <2>1
  <2>3. i \in 1..Len(rest) /\ j \in 1..Len(rest) /\ Len(rest) \in Nat
    BY <1>6
  <2> HIDE DEF all, T
  <2> QED BY <1>5, <2>2, <2>3, PickedApart
<1>8. \A i \in 1..l : rest[i] \in 1..n /\ \A j \in 1..k : rest[i] # named[j]
  <2>1. \A i \in 1..l : rest[i] \in T
    BY <1>4, <1>6, ElementOfSeq
  <2> QED BY <1>6, <2>1 DEF ToSet
<1>9. rest \in Seq(1..n)
  BY <1>6, <1>8, <1>4
<1>10. PICK both \in Seq(1..n) :
         /\ both = named \o rest
         /\ Len(both) = k + l
         /\ \A i \in 1..k : both[i] = named[i]
         /\ \A i \in 1..l : both[k + i] = rest[i]
  <2>1. named \o rest \in Seq(1..n) /\ Len(named \o rest) = k + l
    BY <1>1, <1>6, <1>9, ConcatProperties
  <2>2. \A i \in 1..k : i \in 1..k + l /\ (named \o rest)[i] = named[i]
    BY <1>1, <1>6, <1>9, ConcatProperties
  <2>3. \A i \in 1..l : (named \o rest)[k + i] = rest[i]
    <3> SUFFICES ASSUME NEW i \in 1..l PROVE (named \o rest)[k + i] = rest[i]
      OBVIOUS
    <3>1. k + i \in 1..k + l /\ ~(k + i <= k) /\ (k + i) - k = i
      BY <1>6
    <3> QED BY <1>1, <1>6, <1>9, <3>1, ConcatProperties
  <2> QED BY <2>1, <2>2, <2>3
<1>11. k > 0
  BY <1>1, <1>6
<1>12. both # <<>> /\ DOMAIN both = 1..k + l
  BY <1>6, <1>10, <1>11
<1>13. ASSUME IsInjective(named) PROVE IsInjective(both)
  <2>1. \A i, j \in 1..k : named[i] = named[j] => i = j
    BY <1>6, <1>13 DEF IsInjective
  <2> SUFFICES ASSUME NEW i \in 1..k + l, NEW j \in 1..k + l, both[i] = both[j] PROVE i = j
    BY <1>12 DEF IsInjective
  <2>2. \A x \in 1..k + l : x \in 1..k \/ \E y \in 1..l : x = k + y
    <3> SUFFICES ASSUME NEW x \in 1..k + l, x \notin 1..k PROVE \E y \in 1..l : x = k + y
      OBVIOUS
    <3>1. x - k \in 1..l /\ x = k + (x - k)
      BY <1>6
    <3> QED BY <3>1
  <2>3. CASE i \in 1..k /\ j \in 1..k
    BY <1>10, <2>1, <2>3
  <2>4. CASE \E x \in 1..l, y \in 1..l : i = k + x /\ j = k + y
    <3>1. PICK x \in 1..l, y \in 1..l : i = k + x /\ j = k + y
      BY <2>4
    <3>2. rest[x] = rest[y]
      BY <1>10, <3>1
    <3> QED BY <1>7, <3>1, <3>2
  <2>5. CASE i \in 1..k /\ \E y \in 1..l : j = k + y
    <3>1. PICK y \in 1..l : j = k + y
      BY <2>5
    <3>2. rest[y] = named[i]
      BY <1>10, <2>5, <3>1
    <3> QED BY <1>8, <2>5, <3>2
  <2>6. CASE j \in 1..k /\ \E x \in 1..l : i = k + x
    <3>1. PICK x \in 1..l : i = k + x
      BY <2>6
    <3>2. rest[x] = named[j]
      BY <1>10, <2>6, <3>1
    <3> QED BY <1>8, <2>6, <3>2
  <2> QED BY <2>2, <2>3, <2>4, <2>5, <2>6
<1>14. FollowedByRest(named, n) = both
  BY <1>3, <1>10 DEF FollowedByRest
<1> QED BY <1>12, <1>13, <1>14

\* The documents in the order of p, which may name one twice.
LEMMA OrderedSound ==
  ASSUME NEW read, DocsSound(docs, read, FALSE), NEW p \in Seq(1..Len(docs)),
         p # <<>> \/ docs = <<>>
  PROVE  /\ DocsSound(DocsAt(p), read, TRUE)
         /\ IsInjective(p) => DocsSound(DocsAt(p), read, FALSE)
<1>1. PICK n \in Nat : n = Len(docs) /\ DOMAIN docs = 1..n
  BY DEF DocsSound
<1>2. PICK m \in Nat : m = Len(p) /\ DOMAIN p = 1..m
  OBVIOUS
<1>3. PICK q : q = DocsAt(p)
  OBVIOUS
<1>4. \A i \in 1..m : p[i] \in 1..n
  BY <1>1, <1>2, ElementOfSeq
<1>5. \A i \in 1..n : docs[i] \in Doc
  BY <1>1, ElementOfSeq DEF DocsSound
<1>6. /\ q \in Seq(Doc) /\ DOMAIN q = 1..m /\ Len(q) = m
      /\ \A i \in 1..m : q[i] = docs[p[i]] /\ p[i] \in DOMAIN docs
  <2>1. q = [i \in 1..m |-> docs[p[i]]]
    BY <1>2, <1>3 DEF DocsAt
  <2> QED BY <1>1, <1>4, <1>5, <2>1
<1>7. IsInjective(p) => LinkOnce(q)
  <2> SUFFICES ASSUME IsInjective(p), NEW i \in 1..m, NEW j \in 1..m,
                      q[i].link = q[j].link, q[i].link # NoLink
               PROVE  i = j
    BY <1>6 DEF LinkOnce
  <2>1. p[i] = p[j]
    BY <1>6 DEF DocsSound, LinkOnce
  <2> QED BY <1>2, <2>1 DEF IsInjective
<1>8. \A i \in 1..m : Source(q[i], read)
  BY <1>6 DEF DocsSound
<1>9. docs # <<>> => q # <<>>
  BY <1>2, <1>6
<1>10. DocsSound(q, read, TRUE) /\ (IsInjective(p) => DocsSound(q, read, FALSE))
  BY <1>6, <1>7, <1>8, <1>9 DEF DocsSound
<1> QED BY <1>3, <1>10

\* The first documents.
LEMMA CutSound ==
  ASSUME NEW ds, NEW read, NEW again, DocsSound(ds, read, again), NEW n \in Nat,
         n <= Len(ds), ds # <<>> => n > 0
  PROVE  DocsSound(SubSeq(ds, 1, n), read, again) /\ Len(SubSeq(ds, 1, n)) = n
<1>1. PICK l \in Nat : l = Len(ds) /\ DOMAIN ds = 1..l
  BY DEF DocsSound
<1>2. \A i \in 1..n : ds[i] \in Doc /\ i \in DOMAIN ds
  BY <1>1, ElementOfSeq DEF DocsSound
<1>3. /\ SubSeq(ds, 1, n) \in Seq(Doc)
      /\ Len(SubSeq(ds, 1, n)) = IF 1 <= n THEN n - 1 + 1 ELSE 0
      /\ \A i \in 1..n - 1 + 1 : SubSeq(ds, 1, n)[i] = ds[1 + i - 1]
  <2>1. \A i \in 1..n : ds[i] \in Doc
    BY <1>2
  <2> QED BY <2>1, SubSeqProperties
<1>4. PICK q \in Seq(Doc) : q = SubSeq(ds, 1, n) /\ Len(q) = n /\ \A i \in 1..n : q[i] = ds[i]
  <2>1. SubSeq(ds, 1, n) \in Seq(Doc) /\ Len(SubSeq(ds, 1, n)) = n
    BY <1>3
  <2>2. \A i \in 1..n : i \in 1..n - 1 + 1 /\ 1 + i - 1 = i
    OBVIOUS
  <2>3. \A i \in 1..n : SubSeq(ds, 1, n)[i] = ds[i]
    BY <1>3, <2>2, Zenon
  <2> QED BY <2>1, <2>3
<1>5. DOMAIN q = 1..n
  BY <1>4
<1>6. (again = FALSE => LinkOnce(q)) /\ \A i \in 1..n : Source(q[i], read)
  <2>1. \A i \in 1..n : i \in DOMAIN ds /\ q[i] = ds[i]
    BY <1>2, <1>4
  <2>2. \A i \in 1..n : Source(q[i], read)
    BY <2>1 DEF DocsSound
  <2>3. again = FALSE => LinkOnce(q)
    BY <1>5, <2>1 DEF DocsSound, LinkOnce
  <2> QED BY <2>2, <2>3
<1>7. ds # <<>> => q # <<>>
  BY <1>4
<1> QED BY <1>4, <1>5, <1>6, <1>7 DEF DocsSound

-----------------------------------------------------------------------------
(* WebSearch: its steps.                                                   *)

\* A step that finds nothing new.
LEMMA SameFound ==
  ASSUME WebIndInv, found' = found, WebTypeOK',
         stage' = "rewrite" => stage = "rewrite",
         stage' \notin {"compress", "done"} => repeated' = FALSE,
         stage' \in {"rank", "compress", "done"} => DocsSound(docs', pages', repeated'),
         stage' = "done" => Len(docs') <= MaxDocuments,
         stage' = "failed" => Urls # <<>> \/ found = <<>>
  PROVE  WebIndInv'
<1>1. Snippets' = Snippets /\ Urls' = Urls
  BY DEF Snippets, Urls
<1>2. LinkOnce(found)'
  BY DEF WebIndInv, LinkOnce
<1>3. DocsSound(docs', pages', repeated') => DocsSound(docs, pages, repeated)'
  BY <1>1 DEF DocsSound, LinkOnce, Source
<1> QED BY <1>1, <1>2, <1>3 DEF WebIndInv

LEMMA RewriteKeeps ==
  ASSUME WebIndInv, Rewrite
  PROVE  WebIndInv'
<1>1. WebTypeOK /\ found = <<>> /\ stage = "rewrite"
      /\ UNCHANGED <<errors, found, docs, pages, repeated>> /\ repeated = FALSE
  BY DEF WebIndInv, Rewrite
<1>2. CASE stage' = "failed" /\ UNCHANGED asking
  <2>1. WebTypeOK'
    BY <1>1, <1>2 DEF WebTypeOK
  <2> QED BY <1>1, <1>2, <2>1, SameFound
<1>3. CASE \E n \in 1..MaxQueries : stage' = "providers" /\ asking' = Asked(n)
  <2>1. PICK n \in 1..MaxQueries : stage' = "providers" /\ asking' = n * Providers
    BY <1>3 DEF Asked
  <2>2. MaxQueries \in Nat /\ Providers \in Nat
    BY SearchConstants
  <2>3. n * Providers \in 0..MaxQueries * Providers
    BY <2>2
  <2>4. WebTypeOK'
    BY <1>1, <2>1, <2>3 DEF WebTypeOK
  <2> QED BY <1>1, <2>1, <2>4, SameFound
<1> QED BY <1>2, <1>3 DEF Rewrite

LEMMA AskProviderKeeps ==
  ASSUME WebIndInv, AskProvider
  PROVE  WebIndInv'
<1>1. /\ WebTypeOK /\ stage = "providers" /\ asking > 0 /\ UNCHANGED <<stage, docs, pages, repeated>>
      /\ repeated = FALSE /\ asking \in 0..MaxQueries * Providers /\ MaxQueries * Providers \in Nat
  BY SearchConstants DEF WebIndInv, WebTypeOK, AskProvider
<1>2. PICK bound \in Nat : bound = MaxQueries * Providers
  BY <1>1
<1>3. asking - 1 \in 0..bound /\ 0 \in 0..bound
  BY <1>1, <1>2
<1>4. CASE errors' = TRUE /\ asking' = asking - 1 /\ UNCHANGED found
  <2>1. WebTypeOK'
    BY <1>1, <1>2, <1>3, <1>4 DEF WebTypeOK
  <2> QED BY <1>1, <1>4, <2>1, SameFound
<1>5. CASE /\ \E reply \in Replies : found' = Collected(found, reply)
           /\ asking' = IF Len(found') >= MaxProviderResults THEN 0 ELSE asking - 1
  <2>1. PICK reply \in Replies : found' = Collected(found, reply)
    BY <1>5
  <2>2. reply \in Seq(Item)
    <3>1. PICK m \in 0..ReplySize : reply \in [1..m -> Item]
      BY DEF Replies, SeqOf
    <3> QED BY <3>1
  <2>3. found \in Items
    BY DEF WebIndInv, WebTypeOK, Items
  <2>4. found' \in Items
    BY <2>1, <2>2, <2>3, CollectedSound
  <2>5. asking' \in 0..bound
    BY <1>3, <1>5
  <2>6. WebTypeOK' /\ LinkOnce(found)'
    BY <1>1, <1>2, <2>4, <2>5 DEF WebTypeOK, Items, LinkOnce
  <2> QED BY <1>1, <2>6 DEF WebIndInv
<1> QED BY <1>4, <1>5 DEF AskProvider

LEMMA GatherKeeps ==
  ASSUME WebIndInv, Gather
  PROVE  WebIndInv'
<1>1. WebTypeOK /\ stage = "providers" /\ UNCHANGED <<asking, errors, found, docs, pages, repeated>>
      /\ repeated = FALSE /\ stage' = IF errors /\ found = <<>> THEN "failed" ELSE "crawl"
  BY DEF WebIndInv, Gather
<1>2. WebTypeOK'
  BY <1>1 DEF WebTypeOK
<1> QED BY <1>1, <1>2, SameFound

LEMMA CrawlKeeps ==
  ASSUME WebIndInv, Crawl
  PROVE  WebIndInv'
<1>1. /\ WebTypeOK /\ found \in Seq(Item) /\ LinkOnce(found) /\ stage = "crawl"
      /\ UNCHANGED <<asking, errors, found, repeated>> /\ repeated = FALSE
  BY DEF WebIndInv, WebTypeOK, Crawl
<1>2. CASE Urls # <<>> /\ stage' = "failed" /\ UNCHANGED <<docs, pages>>
  <2>1. WebTypeOK'
    BY <1>1, <1>2 DEF WebTypeOK
  <2> QED BY <1>1, <1>2, <2>1, SameFound
<1>3. CASE stage' = "rank" /\ ~(stage' = "failed")
  <2>1. PICK fetched \in SUBSET LinksOf(found) :
          \E text \in Extracted(fetched) :
            /\ pages' = text
            /\ docs' = IF fetched = {} THEN Snippets ELSE MergeDocuments(PageDocs(text))
    BY <1>3 DEF Crawl, PageDocs
  <2>2. PICK text \in SUBSET fetched :
            /\ pages' = text
            /\ docs' = IF fetched = {} THEN Snippets ELSE MergeDocuments(PageDocs(text))
    BY <2>1 DEF Extracted
  <2>3. DocsSound(docs', pages', FALSE)
    <3>1. CASE fetched = {}
      <4>1. docs' = Snippets /\ pages' = {}
        BY <2>2, <3>1
      <4> QED BY <1>1, <4>1, SnippetsAlone
    <3>2. CASE fetched # {}
      <4>1. docs' = MergeDocuments(PageDocs(text)) /\ pages' = text
        BY <2>2, <3>2
      <4>2. text \in SUBSET LinksOf(found)
        BY <2>1, <2>2
      <4> QED BY <1>1, <4>1, <4>2, MergedSound
    <3> QED BY <3>1, <3>2
  <2>4. docs' \in Seq(Doc)
    BY <2>3 DEF DocsSound
  <2>5. WebTypeOK'
    BY <1>1, <1>3, <2>4 DEF WebTypeOK
  <2> QED BY <1>1, <1>3, <2>3, <2>5, SameFound
<1> QED BY <1>2, <1>3 DEF Crawl

LEMMA RankKeeps ==
  ASSUME WebIndInv, Rank
  PROVE  WebIndInv'
<1>1. /\ WebTypeOK /\ stage = "rank" /\ stage' = "compress"
      /\ repeated = FALSE /\ DocsSound(docs, pages, FALSE)
      /\ UNCHANGED <<asking, errors, found, pages>>
  BY DEF WebIndInv, WebTypeOK, Rank
<1>2. PICK n \in Nat : n = Len(docs) /\ DOMAIN docs = 1..n
  BY <1>1 DEF DocsSound
<1>3. DocsSound(docs', pages', repeated') /\ repeated' \in BOOLEAN
  <2>1. CASE (\E p \in ByKeywords(Len(docs)) : docs' = DocsAt(p)) /\ UNCHANGED repeated
    <3>1. PICK p \in [1..n -> 1..n] : IsInjective(p) /\ docs' = DocsAt(p)
      BY <1>2, <2>1 DEF ByKeywords
    <3>2. p \in Seq(1..Len(docs)) /\ (p # <<>> \/ docs = <<>>)
      BY <1>1, <1>2 DEF DocsSound
    <3>3. DocsSound(DocsAt(p), pages, FALSE)
      BY <1>1, <3>1, <3>2, OrderedSound
    <3> QED BY <1>1, <2>1, <3>1, <3>3
  <2>2. CASE \E named \in RerankResults(Len(docs)) :
               /\ docs' = DocsAt(FollowedByRest(named, Len(docs)))
               /\ repeated' = ~IsInjective(named)
    <3>1. PICK named \in RerankResults(n) :
            /\ docs' = DocsAt(FollowedByRest(named, n))
            /\ repeated' = ~IsInjective(named)
      BY <1>2, <2>2
    <3>2. PICK p \in Seq(1..n) :
            /\ p = FollowedByRest(named, n) /\ p # <<>>
            /\ IsInjective(named) => IsInjective(p)
      BY FollowedSound
    <3>3. /\ DocsSound(DocsAt(p), pages, TRUE)
          /\ IsInjective(p) => DocsSound(DocsAt(p), pages, FALSE)
      <4>1. p \in Seq(1..Len(docs)) /\ (p # <<>> \/ docs = <<>>)
        BY <1>2, <3>2, Zenon
      <4>2. DocsSound(docs, pages, FALSE)
        BY <1>1
      <4> QED BY <4>1, <4>2, OrderedSound
    <3>4. docs' = DocsAt(p) /\ pages' = pages
      BY <1>1, <3>1, <3>2, Zenon
    <3>5. CASE IsInjective(named)
      <4>1. repeated' = FALSE /\ repeated' \in BOOLEAN
        BY <3>1, <3>5, Zenon
      <4>2. DocsSound(docs', pages', FALSE)
        BY <3>2, <3>3, <3>5, <3>4
      <4> QED BY <4>1, <4>2, Zenon
    <3>6. CASE ~IsInjective(named)
      <4>1. repeated' = TRUE /\ repeated' \in BOOLEAN
        BY <3>1, <3>6, Zenon
      <4>2. DocsSound(docs', pages', TRUE)
        BY <3>3, <3>4
      <4> QED BY <4>1, <4>2, Zenon
    <3> QED BY <3>5, <3>6
  <2> QED BY <2>1, <2>2 DEF Rank
<1>4. WebTypeOK'
  BY <1>1, <1>3 DEF WebTypeOK, DocsSound
<1> QED BY <1>1, <1>3, <1>4, SameFound

LEMMA CompressKeeps ==
  ASSUME WebIndInv, Compress
  PROVE  WebIndInv'
<1>1. /\ WebTypeOK /\ stage = "compress" /\ stage' = "done"
      /\ DocsSound(docs, pages, repeated) /\ UNCHANGED <<asking, errors, found, pages, repeated>>
  BY DEF WebIndInv, Compress
<1>2. PICK n \in 0..MaxDocuments :
        n <= Len(docs) /\ (docs # <<>> => n > 0) /\ docs' = SubSeq(docs, 1, n)
  BY DEF Compress, Compressed
<1>3. n \in Nat /\ n <= MaxDocuments
  BY SearchConstants
<1>4. DocsSound(docs', pages', repeated') /\ Len(docs') = n
  BY <1>1, <1>2, <1>3, CutSound
<1>5. WebTypeOK'
  BY <1>1, <1>4 DEF WebTypeOK, DocsSound
<1> QED BY <1>1, <1>3, <1>4, <1>5, SameFound

LEMMA WebIndTells ==
  ASSUME WebIndInv
  PROVE  WebInv
<1>1. WebTypeOK
  BY DEF WebIndInv
<1>2. SourcesAreSound
  BY DEF WebIndInv, SourcesAreSound, DocsSound, LinkOnce, Source
<1>3. AnswersWhatItFound
  BY DEF WebIndInv, AnswersWhatItFound, DocsSound
<1> QED BY <1>1, <1>2, <1>3 DEF WebInv

\* Every web search, with any number of queries, providers and results,
\* answers with sources that were found, the page where one was read, with
\* different ones unless the rerank service repeats itself, and has an answer
\* whenever it found something (Service.Search).
THEOREM WebKeeps == WebSpec => []WebInv
<1>1. WebInit => WebIndInv
  <2> SUFFICES ASSUME WebInit PROVE WebIndInv
    OBVIOUS
  <2>1. stage = "rewrite" /\ asking = 0 /\ found = <<>> /\ docs = <<>>
       /\ repeated = FALSE
    BY DEF WebInit
  <2>2. /\ MaxQueries * Providers \in Nat /\ MaxProviderResults \in Nat
        /\ <<>> \in Seq(Item) /\ <<>> \in Seq(Doc) /\ Len(found) = 0
    BY <2>1, SearchConstants, EmptySeq
  <2>3. WebTypeOK
    <3>1. repeated \in BOOLEAN
      BY <2>1, Zenon
    <3> QED BY <2>1, <2>2, <3>1 DEF WebTypeOK
  <2>4. LinkOnce(found)
    BY <2>1 DEF LinkOnce
  <2>5. stage \notin {"rank", "compress", "done", "failed"} /\ repeated = FALSE
    BY <2>1
  <2> QED BY <2>1, <2>3, <2>4, <2>5 DEF WebIndInv
<1>2. WebIndInv /\ [WebNext]_webVars => WebIndInv'
  <2> SUFFICES ASSUME WebIndInv, [WebNext]_webVars PROVE WebIndInv'
    OBVIOUS
  <2>1. CASE Rewrite
    BY <2>1, RewriteKeeps
  <2>2. CASE AskProvider
    BY <2>2, AskProviderKeeps
  <2>3. CASE Gather
    BY <2>3, GatherKeeps
  <2>4. CASE Crawl
    BY <2>4, CrawlKeeps
  <2>5. CASE Rank
    BY <2>5, RankKeeps
  <2>6. CASE Compress
    BY <2>6, CompressKeeps
  <2>7. CASE UNCHANGED webVars
    <3>1. UNCHANGED <<stage, asking, errors, found, docs, pages, repeated>>
      BY <2>7 DEF webVars
    <3>2. WebTypeOK'
      BY <3>1 DEF WebIndInv, WebTypeOK
    <3> QED BY <3>1, <3>2, SameFound DEF WebIndInv
  <2> QED BY <2>1, <2>2, <2>3, <2>4, <2>5, <2>6, <2>7 DEF WebNext, WebStep
<1>3. WebIndInv => WebInv
  BY WebIndTells
<1> QED BY <1>1, <1>2, <1>3, PTL DEF WebSpec

SearchRecord ==
  [at : {"idle", "check", "drop", "compute", "store", "ended"},
   for : WebQueries \cup {NoSearch}, read : Entry \cup {NoEntry},
   answer : Searches \cup {NoSearch}, when : Nat]

\* Entry e is what a search for q computed when it ended.
Genuine(e, q) ==
  /\ e.result \in Searches
  /\ search[e.result].at = "ended"
  /\ search[e.result].answer = e.result
  /\ search[e.result].for = q
  /\ e.expires = search[e.result].when + TTL

\* What is in the map, and what a search has read of it, is genuine; a search
\* has no answer until it has read or computed one.
ItemsGenuine == \A q \in DOMAIN items : Genuine(items[q], q)

ReadsGenuine ==
  \A s \in Searches : search[s].at = "check" => Genuine(search[s].read, search[s].for)

PhasesSound ==
  \A s \in Searches :
    /\ search[s].at \in {"check", "drop", "compute", "store"} => search[s].for \in WebQueries
    /\ search[s].at \in {"idle", "check", "drop", "compute"} => search[s].answer = NoSearch
    /\ search[s].at = "store" => search[s].answer = s

CacheIndInv ==
  /\ CacheInv
  /\ search \in [Searches -> SearchRecord]
  /\ IsFiniteSet(DOMAIN items)
  /\ ItemsGenuine
  /\ ReadsGenuine
  /\ PhasesSound

LEMMA CacheFacts ==
  ASSUME CacheIndInv
  PROVE  /\ items \in [DOMAIN items -> Entry] /\ DOMAIN items \subseteq WebQueries
         /\ order \in Seq(WebQueries) /\ DOMAIN items \subseteq ToSet(order)
         /\ IsFiniteSet(DOMAIN items) /\ Cardinality(DOMAIN items) <= MaxKeys
         /\ search \in [Searches -> SearchRecord] /\ time \in Nat
         /\ ItemsGenuine /\ ReadsGenuine /\ PhasesSound /\ HitsAreFresh
BY DEF CacheIndInv, CacheInv, CacheTypeOK, CacheBounded

-----------------------------------------------------------------------------
(* One search moves.                                                       *)

\* A search that has ended stays as it is, so what was genuine stays so.
LEMMA StaysGenuine ==
  ASSUME CacheIndInv, NEW s \in Searches, NEW f \in SearchRecord, search[s].at # "ended",
         Calls(s, f), NEW e, NEW q, Genuine(e, q)
  PROVE  Genuine(e, q)'
BY CacheFacts DEF Genuine, Calls

\* Search s goes on with f: its part of the invariant is enough.
LEMMA OneSearchMoves ==
  ASSUME CacheIndInv, NEW s \in Searches, NEW f \in SearchRecord, search[s].at # "ended",
         Calls(s, f), time' = time,
         f.at = "check" => Genuine(f.read, f.for),
         f.at \in {"check", "drop", "compute", "store"} => f.for \in WebQueries,
         f.at \in {"idle", "check", "drop", "compute"} => f.answer = NoSearch,
         f.at = "store" => f.answer = s,
         f.at = "ended" /\ f.answer \notin {NoSearch, s} =>
           /\ search[f.answer].at = "ended" /\ search[f.answer].answer = f.answer
           /\ search[f.answer].for = f.for
           /\ f.when <= search[f.answer].when + TTL
  PROVE  /\ search' \in [Searches -> SearchRecord]
         /\ \A t \in Searches : search'[t].read \in Entry \cup {NoEntry}
         /\ HitsAreFresh' /\ PhasesSound' /\ ReadsGenuine'
<1>1. search' \in [Searches -> SearchRecord]
      /\ \A t \in Searches : search'[t] = IF t = s THEN f ELSE search[t]
  BY CacheFacts DEF Calls
<1>2. \A t \in Searches : search'[t].read \in Entry \cup {NoEntry}
  BY <1>1 DEF SearchRecord
<1>3. PhasesSound'
  BY <1>1, CacheFacts DEF PhasesSound
<1>4. \A t \in Searches : search[t].answer \in Searches \cup {NoSearch}
  BY CacheFacts DEF SearchRecord
<1>5. HitsAreFresh'
  <2> SUFFICES ASSUME NEW t \in Searches, search'[t].at = "ended",
                      search'[t].answer \notin {NoSearch, t}
               PROVE  LET from == search'[t].answer
                      IN  /\ search'[from].at = "ended" /\ search'[from].answer = from
                          /\ search'[from].for = search'[t].for
                          /\ search'[t].when <= search'[from].when + TTL
    BY DEF HitsAreFresh
  <2>1. CASE t = s
    <3>1. f.answer \in Searches /\ f.answer # s
      BY <1>1, <2>1 DEF SearchRecord
    <3> QED BY <1>1, <2>1, <3>1
  <2>2. CASE t # s
    <3>1. search[t].answer \in Searches /\ search'[t] = search[t]
      BY <1>1, <1>4, <2>2
    <3>2. /\ search[search[t].answer].at = "ended"
          /\ search[search[t].answer].answer = search[t].answer
          /\ search[search[t].answer].for = search[t].for
          /\ search[t].when <= search[search[t].answer].when + TTL
      BY <3>1, CacheFacts DEF HitsAreFresh
    <3>3. search'[search[t].answer] = search[search[t].answer]
      BY <1>1, <3>1, <3>2
    <3> QED BY <3>1, <3>2, <3>3
  <2> QED BY <2>1, <2>2
<1>6. ReadsGenuine'
  <2> SUFFICES ASSUME NEW t \in Searches, search'[t].at = "check"
               PROVE  Genuine(search[t].read, search[t].for)'
    BY DEF ReadsGenuine
  <2> DEFINE e == search'[t].read
             q == search'[t].for
  <2>1. Genuine(e, q)
    BY <1>1, CacheFacts DEF ReadsGenuine
  <2>2. search'[e.result] = search[e.result]
    BY <1>1, <2>1 DEF Genuine
  <2> QED BY <2>1, <2>2 DEF Genuine
<1> QED BY <1>1, <1>2, <1>3, <1>5, <1>6

\* A search moves and the map stays.
LEMMA SearchMovesAlone ==
  ASSUME CacheIndInv, NEW s \in Searches, NEW f \in SearchRecord, search[s].at # "ended",
         Calls(s, f), UNCHANGED <<items, order, time>>,
         f.at = "check" => Genuine(f.read, f.for),
         f.at \in {"check", "drop", "compute", "store"} => f.for \in WebQueries,
         f.at \in {"idle", "check", "drop", "compute"} => f.answer = NoSearch,
         f.at = "store" => f.answer = s,
         f.at = "ended" /\ f.answer \notin {NoSearch, s} =>
           /\ search[f.answer].at = "ended" /\ search[f.answer].answer = f.answer
           /\ search[f.answer].for = f.for
           /\ f.when <= search[f.answer].when + TTL
  PROVE  CacheIndInv'
<1>1. /\ search' \in [Searches -> SearchRecord]
      /\ \A t \in Searches : search'[t].read \in Entry \cup {NoEntry}
      /\ HitsAreFresh' /\ PhasesSound' /\ ReadsGenuine'
  BY OneSearchMoves
<1>2. \A q \in DOMAIN items : Genuine(items[q], q)'
  BY CacheFacts, StaysGenuine DEF ItemsGenuine, Genuine
<1>3. ItemsGenuine'
  BY <1>2 DEF ItemsGenuine
<1>4. CacheTypeOK' /\ CacheBounded'
  BY <1>1, CacheFacts DEF CacheTypeOK, CacheBounded
<1> QED BY <1>1, <1>3, <1>4, CacheFacts DEF CacheIndInv, CacheInv

LEMMA CacheInvInit == CacheInit => CacheIndInv
<1> SUFFICES ASSUME CacheInit PROVE CacheIndInv
  OBVIOUS
<1>1. search \in [Searches -> SearchRecord]
  BY DEF CacheInit, SearchRecord
<1>2. CacheTypeOK
  BY DEF CacheInit, CacheTypeOK
<1>3. CacheBounded
  BY FS_EmptySet, CacheConstants DEF CacheInit, CacheBounded
<1>4. HitsAreFresh /\ ItemsGenuine /\ ReadsGenuine /\ PhasesSound
  BY DEF CacheInit, HitsAreFresh, ItemsGenuine, ReadsGenuine, PhasesSound
<1>5. IsFiniteSet(DOMAIN items)
  BY FS_EmptySet DEF CacheInit
<1> QED BY <1>1, <1>2, <1>3, <1>4, <1>5 DEF CacheIndInv, CacheInv

LEMMA CacheInvLooksUp ==
  ASSUME CacheIndInv, NEW s \in Searches, NEW q \in WebQueries, LookUp(s, q)
  PROVE  CacheIndInv'
<1>1. search[s] \in SearchRecord /\ search[s].answer = NoSearch
  BY CacheFacts DEF LookUp, PhasesSound
<1>2. CASE q \in DOMAIN items
  <2> DEFINE f == [search[s] EXCEPT !.at = "check", !.for = q, !.read = items[q]]
  <2>1. f \in SearchRecord /\ f.at = "check" /\ f.for = q /\ f.read = items[q]
        /\ f.answer = NoSearch
    BY <1>1, <1>2, CacheFacts DEF SearchRecord
  <2>2. Genuine(f.read, f.for)
    BY <1>2, <2>1, CacheFacts DEF ItemsGenuine
  <2> HIDE DEF f
  <2>3. search[s].at # "ended" /\ Calls(s, f) /\ UNCHANGED <<items, order, time>>
    BY <1>2 DEF LookUp, f
  <2> QED BY <2>1, <2>2, <2>3, SearchMovesAlone
<1>3. CASE q \notin DOMAIN items
  <2> DEFINE f == [search[s] EXCEPT !.at = "compute", !.for = q]
  <2>1. f \in SearchRecord /\ f.at = "compute" /\ f.for = q /\ f.answer = NoSearch
    BY <1>1 DEF SearchRecord
  <2> HIDE DEF f
  <2>2. search[s].at # "ended" /\ Calls(s, f) /\ UNCHANGED <<items, order, time>>
    BY <1>3 DEF LookUp, f
  <2> QED BY <2>1, <2>2, SearchMovesAlone
<1> QED BY <1>2, <1>3

\* What is answered from the cache is genuine and not older than TTL.
LEMMA CacheInvChecks ==
  ASSUME CacheIndInv, NEW s \in Searches, CheckAge(s)
  PROVE  CacheIndInv'
<1>1. /\ search[s] \in SearchRecord /\ search[s].answer = NoSearch /\ search[s].at = "check"
      /\ search[s].for \in WebQueries /\ Genuine(search[s].read, search[s].for)
  BY CacheFacts DEF CheckAge, PhasesSound, ReadsGenuine
<1>2. CASE time > search[s].read.expires
  <2> DEFINE f == [search[s] EXCEPT !.at = "drop"]
  <2>1. f \in SearchRecord /\ f.at = "drop" /\ f.for \in WebQueries /\ f.answer = NoSearch
    BY <1>1 DEF SearchRecord
  <2> HIDE DEF f
  <2>2. Calls(s, f) /\ UNCHANGED <<items, order, time>>
    BY <1>2 DEF CheckAge, f
  <2> QED BY <1>1, <2>1, <2>2, SearchMovesAlone
<1>3. CASE ~(time > search[s].read.expires)
  <2> DEFINE from == search[s].read.result
             f == [search[s] EXCEPT !.at = "ended", !.answer = from, !.when = time]
  <2>1. from \in Searches /\ search[from] \in SearchRecord
    BY <1>1, CacheFacts DEF Genuine
  <2>2. f \in SearchRecord /\ f.at = "ended" /\ f.for = search[s].for /\ f.answer = from
        /\ f.when = time
    BY <1>1, <2>1, CacheFacts DEF SearchRecord
  <2>3. time <= search[from].when + TTL
    BY <1>1, <1>3, <2>1, CacheFacts, CacheConstants DEF Genuine, SearchRecord
  <2>4. /\ search[from].at = "ended" /\ search[from].answer = from
        /\ search[from].for = search[s].for
    BY <1>1 DEF Genuine
  <2>5. Calls(s, f) /\ UNCHANGED <<items, order, time>>
    BY <1>3 DEF CheckAge
  <2> HIDE DEF f, from
  <2> QED BY <1>1, <2>2, <2>3, <2>4, <2>5, SearchMovesAlone
<1> QED BY <1>2, <1>3

LEMMA CacheInvComputes ==
  ASSUME CacheIndInv, NEW s \in Searches, Compute(s)
  PROVE  CacheIndInv'
<1>1. /\ search[s] \in SearchRecord /\ search[s].answer = NoSearch /\ search[s].at = "compute"
      /\ search[s].for \in WebQueries /\ time \in Nat
  BY CacheFacts DEF Compute, PhasesSound
<1> DEFINE f == [search[s] EXCEPT !.at = "store", !.answer = s]
           g == [search[s] EXCEPT !.at = "ended", !.when = time]
<1>2. f \in SearchRecord /\ f.at = "store" /\ f.for \in WebQueries /\ f.answer = s
  BY <1>1 DEF SearchRecord
<1>3. g \in SearchRecord /\ g.at = "ended" /\ g.answer = NoSearch
  BY <1>1 DEF SearchRecord
<1>4. (Calls(s, f) \/ Calls(s, g)) /\ UNCHANGED <<items, order, time>>
  BY DEF Compute
<1> HIDE DEF f, g
<1>5. CASE Calls(s, f)
  BY <1>1, <1>2, <1>4, <1>5, SearchMovesAlone
<1>6. CASE Calls(s, g)
  BY <1>1, <1>3, <1>4, <1>6, SearchMovesAlone
<1> QED BY <1>4, <1>5, <1>6

-----------------------------------------------------------------------------
(* The map changes.                                                        *)

LEMMA CacheInvDrops ==
  ASSUME CacheIndInv, NEW s \in Searches, DropStale(s)
  PROVE  CacheIndInv'
<1> DEFINE f == [search[s] EXCEPT !.at = "compute", !.read = NoEntry]
<1>1. /\ search[s] \in SearchRecord /\ search[s].answer = NoSearch /\ search[s].at = "drop"
      /\ search[s].for \in WebQueries
  BY CacheFacts DEF DropStale, PhasesSound
<1>2. f \in SearchRecord /\ f.at = "compute" /\ f.for \in WebQueries /\ f.answer = NoSearch
  BY <1>1 DEF SearchRecord
<1>3. Calls(s, f) /\ order' = order /\ time' = time
  BY DEF DropStale
<1> HIDE DEF f
<1>4. /\ DOMAIN items' \subseteq DOMAIN items
      /\ \A q \in DOMAIN items' : items'[q] = items[q]
      /\ items' \in [DOMAIN items' -> Entry]
  BY CacheFacts DEF DropStale, Drop, Restrict
<1>5. IsFiniteSet(DOMAIN items') /\ Cardinality(DOMAIN items') <= MaxKeys
  <2>1. IsFiniteSet(DOMAIN items') /\ Cardinality(DOMAIN items') <= Cardinality(DOMAIN items)
    BY <1>4, CacheFacts, FS_Subset
  <2>2. Cardinality(DOMAIN items') \in Nat /\ Cardinality(DOMAIN items) \in Nat
    BY <2>1, CacheFacts, FS_CardinalityType
  <2> QED BY <2>1, <2>2, CacheFacts, CacheConstants
<1>6. /\ search' \in [Searches -> SearchRecord]
      /\ \A t \in Searches : search'[t].read \in Entry \cup {NoEntry}
      /\ HitsAreFresh' /\ PhasesSound' /\ ReadsGenuine'
  BY <1>1, <1>2, <1>3, OneSearchMoves
<1>7. ItemsGenuine'
  <2>1. \A q \in DOMAIN items : Genuine(items[q], q) /\ items[q].result # s
    BY <1>1, CacheFacts DEF ItemsGenuine, Genuine
  <2>2. \A q \in DOMAIN items : search'[items[q].result] = search[items[q].result]
    BY <1>3, <2>1, CacheFacts DEF Calls, Genuine
  <2>3. \A q \in DOMAIN items' :
          /\ items'[q].result \in Searches
          /\ search'[items'[q].result].at = "ended"
          /\ search'[items'[q].result].answer = items'[q].result
          /\ search'[items'[q].result].for = q
          /\ items'[q].expires = search'[items'[q].result].when + TTL
    BY <1>4, <2>1, <2>2 DEF Genuine
  <2> QED BY <2>3 DEF ItemsGenuine, Genuine
<1>8. CacheTypeOK' /\ CacheBounded'
  BY <1>3, <1>4, <1>5, <1>6, CacheFacts DEF CacheTypeOK, CacheBounded
<1> QED BY <1>5, <1>6, <1>7, <1>8 DEF CacheIndInv, CacheInv

\* Eviction makes the map fit, as `order` lists every key, and leaves listed
\* what it leaves.
LEMMA EvictionFits ==
  ASSUME NEW map, NEW keys \in Seq(WebQueries), DOMAIN map \subseteq ToSet(keys),
         IsFiniteSet(DOMAIN map), EvictLocked(map, keys)
  PROVE  /\ DOMAIN items' \subseteq DOMAIN map
         /\ \A q \in DOMAIN items' : items'[q] = map[q]
         /\ IsFiniteSet(DOMAIN items') /\ Cardinality(DOMAIN items') <= MaxKeys
         /\ order' \in Seq(WebQueries) /\ DOMAIN items' \subseteq ToSet(order')
<1> DEFINE Gone(n) == {keys[i] : i \in 1..n}
           Kept(n) == Drop(map, Gone(n))
<1>1. PICK n \in 0..Len(keys) :
        /\ Cardinality(DOMAIN Kept(n)) > MaxKeys => n = Len(keys)
        /\ items' = Kept(n)
        /\ order' = SubSeq(keys, n + 1, Len(keys))
  BY DEF EvictLocked
<1>2. DOMAIN items' = DOMAIN map \ Gone(n) /\ \A q \in DOMAIN items' : items'[q] = map[q]
  BY <1>1 DEF Drop, Restrict
<1>3. IsFiniteSet(DOMAIN items') /\ Cardinality(DOMAIN items') \in Nat
  BY <1>2, FS_Subset, FS_CardinalityType
<1>4. Cardinality(DOMAIN items') <= MaxKeys
  <2>1. CASE n = Len(keys)
    <3>1. DOMAIN items' = {}
      BY <1>2, <2>1 DEF ToSet
    <3> QED BY <3>1, FS_EmptySet, CacheConstants
  <2>2. CASE n # Len(keys)
    BY <1>1, <1>3, <2>2, CacheConstants
  <2> QED BY <2>1, <2>2
<1>5. order' \in Seq(WebQueries) /\ Len(order') = Len(keys) - n
      /\ \A k \in 1..Len(order') : order'[k] = keys[k + n]
  BY <1>1
<1>6. ASSUME NEW q \in DOMAIN items' PROVE q \in ToSet(order')
  <2>1. PICK k \in 1..Len(keys) : q = keys[k] /\ ~(k <= n)
    BY <1>2, <1>6 DEF ToSet
  <2>2. k - n \in 1..Len(order') /\ order'[k - n] = q
    BY <1>5, <2>1
  <2> QED BY <1>5, <2>2 DEF ToSet
<1> QED BY <1>2, <1>3, <1>4, <1>5, <1>6

LEMMA CacheInvSets ==
  ASSUME CacheIndInv, NEW s \in Searches, Set(s)
  PROVE  CacheIndInv'
<1> DEFINE q == search[s].for
           e == [result |-> s, expires |-> time + TTL]
           map == Put(items, q, e)
           keys == IF q \in DOMAIN items THEN order ELSE Append(order, q)
           f == [search[s] EXCEPT !.at = "ended", !.when = time]
<1>1. /\ search[s] \in SearchRecord /\ search[s].answer = s /\ search[s].at = "store"
      /\ q \in WebQueries /\ time \in Nat
  BY CacheFacts DEF Set, PhasesSound
<1>2. f \in SearchRecord /\ f.at = "ended" /\ f.answer = s /\ f.for = q /\ f.when = time
  BY <1>1 DEF SearchRecord
<1>3. e \in Entry
  BY <1>1, CacheConstants DEF Entry
<1>4. Calls(s, f) /\ EvictLocked(map, keys) /\ time' = time
  BY DEF Set
<1> HIDE DEF f
<1>5. /\ DOMAIN map = DOMAIN items \cup {q} /\ map[q] = e
      /\ \A x \in DOMAIN items \ {q} : map[x] = items[x]
  BY DEF Put
<1>6. IsFiniteSet(DOMAIN map)
  BY <1>5, CacheFacts, FS_AddElement
<1>7. keys \in Seq(WebQueries) /\ DOMAIN map \subseteq ToSet(keys)
  <2>1. CASE q \in DOMAIN items
    BY <1>5, <2>1, CacheFacts
  <2>2. CASE q \notin DOMAIN items
    <3>1. keys = Append(order, q) /\ keys \in Seq(WebQueries) /\ Len(keys) = Len(order) + 1
          /\ keys[Len(keys)] = q /\ \A i \in 1..Len(order) : keys[i] = order[i]
      <4>1. q \in WebQueries /\ order \in Seq(WebQueries) /\ keys = Append(order, q)
        BY <1>1, <2>2, CacheFacts
      <4> HIDE DEF q, keys
      <4>2. PICK more \in Seq(WebQueries) : more = Append(order, q)
        BY <4>1, AppendProperties
      <4>3. /\ Len(more) = Len(order) + 1 /\ more[Len(more)] = q
            /\ \A i \in 1..Len(order) : more[i] = order[i]
        BY <4>1, <4>2, AppendProperties
      <4>4. keys = more
        BY <4>1, <4>2, Zenon
      <4> QED BY <4>1, <4>2, <4>3, <4>4, Zenon
    <3>2. ToSet(order) \subseteq ToSet(keys) /\ q \in ToSet(keys)
      <4>1. PICK n \in Nat : n = Len(order) /\ DOMAIN order = 1..n
        BY CacheFacts, LenProperties
      <4>2. DOMAIN keys = 1..(n + 1) /\ keys[n + 1] = q /\ \A i \in 1..n : keys[i] = order[i]
        BY <3>1, <4>1, LenProperties
      <4> HIDE DEF q, keys
      <4>3. \A x \in ToSet(order) : x \in ToSet(keys)
        BY <4>1, <4>2 DEF ToSet
      <4>4. n + 1 \in DOMAIN keys
        BY <4>1, <4>2
      <4> QED BY <4>2, <4>3, <4>4 DEF ToSet
    <3> QED BY <1>5, <3>1, <3>2, CacheFacts
  <2> QED BY <2>1, <2>2
<1> HIDE DEF map, keys
<1>8. /\ DOMAIN items' \subseteq DOMAIN map
      /\ \A x \in DOMAIN items' : items'[x] = map[x]
      /\ IsFiniteSet(DOMAIN items') /\ Cardinality(DOMAIN items') <= MaxKeys
      /\ order' \in Seq(WebQueries) /\ DOMAIN items' \subseteq ToSet(order')
  BY <1>4, <1>6, <1>7, EvictionFits
<1>9. /\ search' \in [Searches -> SearchRecord]
      /\ \A t \in Searches : search'[t].read \in Entry \cup {NoEntry}
      /\ HitsAreFresh' /\ PhasesSound' /\ ReadsGenuine'
  BY <1>1, <1>2, <1>4, OneSearchMoves
<1>10. ItemsGenuine'
  <2>1. \A x \in DOMAIN items : Genuine(items[x], x)
    BY CacheFacts DEF ItemsGenuine
  <2>2. search' = [search EXCEPT ![s] = f]
    BY <1>4 DEF Calls
  <2>3. \A x \in DOMAIN items' :
          /\ items'[x].result \in Searches
          /\ search'[items'[x].result].at = "ended"
          /\ search'[items'[x].result].answer = items'[x].result
          /\ search'[items'[x].result].for = x
          /\ items'[x].expires = search'[items'[x].result].when + TTL
    <3> TAKE x \in DOMAIN items'
    <3>1. CASE x = q
      <4>1. items'[x] = e /\ search'[s] = f
        BY <1>5, <1>8, <2>2, <3>1, CacheFacts
      <4> QED BY <1>2, <3>1, <4>1
    <3>2. CASE x # q
      <4>1. x \in DOMAIN items /\ items'[x] = items[x]
        BY <1>5, <1>8, <3>2
      <4>2. items[x].result # s
        BY <1>1, <2>1, <4>1 DEF Genuine
      <4>3. search'[items[x].result] = search[items[x].result]
        BY <2>1, <2>2, <4>1, <4>2, CacheFacts DEF Genuine
      <4> QED BY <2>1, <4>1, <4>3 DEF Genuine
    <3> QED BY <3>1, <3>2
  <2> QED BY <2>3 DEF ItemsGenuine, Genuine
<1>11. items' \in [DOMAIN items' -> Entry] /\ DOMAIN items' \subseteq WebQueries
  <2>1. \A x \in DOMAIN items' : items'[x] \in Entry /\ x \in WebQueries
    BY <1>1, <1>3, <1>5, <1>8, CacheFacts
  <2>2. items' = [x \in DOMAIN items' |-> items'[x]]
    BY <1>4 DEF EvictLocked, Drop, Restrict
  <2> QED BY <2>1, <2>2
<1>12. CacheTypeOK' /\ CacheBounded'
  BY <1>1, <1>4, <1>8, <1>9, <1>11 DEF CacheTypeOK, CacheBounded
<1> QED BY <1>8, <1>9, <1>10, <1>12 DEF CacheIndInv, CacheInv

LEMMA CacheInvTicks ==
  ASSUME CacheIndInv, UNCHANGED <<items, order, search>>, time' \in Nat
  PROVE  CacheIndInv'
BY DEF CacheIndInv, CacheInv, CacheTypeOK, CacheBounded, HitsAreFresh, ItemsGenuine,
       ReadsGenuine, PhasesSound, Genuine

LEMMA CacheInvNext == CacheIndInv /\ [CacheNext]_cacheVars => CacheIndInv'
<1> SUFFICES ASSUME CacheIndInv, [CacheNext]_cacheVars PROVE CacheIndInv'
  OBVIOUS
<1>1. CASE TimePasses \/ UNCHANGED cacheVars
  BY <1>1, CacheFacts, CacheInvTicks DEF TimePasses, cacheVars
<1>2. ASSUME NEW s \in Searches, NEW q \in WebQueries, LookUp(s, q) PROVE CacheIndInv'
  BY <1>2, CacheInvLooksUp
<1>3. ASSUME NEW s \in Searches, SearchStep(s) PROVE CacheIndInv'
  BY <1>3, CacheInvChecks, CacheInvDrops, CacheInvComputes, CacheInvSets DEF SearchStep
<1> QED BY <1>1, <1>2, <1>3 DEF CacheNext

\* The cache never outgrows its capacity, eviction can reach every key of it,
\* and what it answers was computed for the same query and is no older than
\* TTL, however the unlocked looks at ages, removals and stores interleave.
THEOREM CacheKeeps == CacheSpec => []CacheInv
<1>1. CacheIndInv => CacheInv
  BY DEF CacheIndInv
<1> QED BY <1>1, CacheInvInit, CacheInvNext, PTL DEF CacheSpec

-----------------------------------------------------------------------------
(* KnowledgeSources: scopes and chunks.                                    *)

Slots == [1..MaxChunks -> Chunk \cup {None}]

NoGap(chunks) == \A i \in 2..MaxChunks : chunks[i] # None => chunks[i - 1] # None

OwnedBy(chunks, owner) == \A i \in 1..MaxChunks : chunks[i] # None => chunks[i].owner = owner

Active == [at : Phases, source : Sources, filter : Scope, text : Texts \cup {None},
           alone : BOOLEAN]

Everything == [user |-> None, session |-> None]

LEMMA OwnersAreScopes == Owners \subseteq Scope
BY DEF Owners, Scope, ResolveScope

LEMMA SourceScope ==
  ASSUME NEW s \in Sources
  PROVE  s.scope \in Owners /\ s.scope \in Scope
BY OwnersAreScopes DEF Sources

LEMMA ChunkIsNotNone ==
  ASSUME NEW c \in Chunk
  PROVE  c # None
<1>1. c = [text |-> c.text, owner |-> [user |-> c.owner.user, session |-> c.owner.session]]
  BY OwnersAreScopes DEF Chunk, Scope
<1>2. c.text \in Texts /\ c.owner.user \in Users \cup {None} /\ c.owner.session \in Sessions \cup {None}
  BY OwnersAreScopes DEF Chunk, Scope
<1> QED BY <1>1, <1>2, SourceConstants

LEMMA MatchesItself ==
  ASSUME NEW o \in Scope
  PROVE  Matches(o, o) /\ Matches(o, Everything)
BY DEF Matches, Everything

LEMMA ActiveRequest ==
  ASSUME NEW q \in Request, q # Idle
  PROVE  q \in Active
BY DEF Request, Active, Idle

LEMMA BusyRequest ==
  ASSUME NEW q \in Request, q.at # "idle"
  PROVE  q # Idle
BY DEF Idle

LEMMA ActiveIsRequest ==
  ASSUME NEW q \in Active
  PROVE  q \in Request /\ q # Idle /\ q.at # "idle"
BY DEF Active, Request, Idle, Phases

LEMMA IdleIsRequest == Idle \in Request /\ Idle.at = "idle"
BY DEF Request, Idle

\* A text has its chunks in the first places, and some if Size says so.
LEMMA ChunksOfText ==
  ASSUME NEW text \in Texts, NEW owner \in Owners
  PROVE  /\ ChunksOf(text, owner) \in Slots
         /\ NoGap(ChunksOf(text, owner))
         /\ OwnedBy(ChunksOf(text, owner), owner)
         /\ Size[text] > 0 => ChunksOf(text, owner) # NoChunks
<1> DEFINE c == [text |-> text, owner |-> owner]
<1>1. c \in Chunk /\ c # None /\ c.owner = owner
  BY ChunkIsNotNone DEF Chunk
<1>2. \A i \in 1..MaxChunks : ChunksOf(text, owner)[i] = IF i <= Size[text] THEN c ELSE None
  BY DEF ChunksOf
<1>3. Size[text] \in 0..MaxChunks /\ MaxChunks \in Nat
  BY SourceConstants
<1>4. ChunksOf(text, owner) \in Slots
  BY <1>1 DEF ChunksOf, Slots
<1>5. NoGap(ChunksOf(text, owner))
  <2> SUFFICES ASSUME NEW i \in 2..MaxChunks, ChunksOf(text, owner)[i] # None
               PROVE  ChunksOf(text, owner)[i - 1] # None
    BY DEF NoGap
  <2>1. i \in 1..MaxChunks /\ i - 1 \in 1..MaxChunks /\ i <= Size[text] /\ i - 1 <= Size[text]
    BY <1>2, <1>3
  <2> QED BY <2>1, <1>1, <1>2
<1>6. OwnedBy(ChunksOf(text, owner), owner)
  BY <1>1, <1>2 DEF OwnedBy
<1>7. ASSUME Size[text] > 0
      PROVE  ChunksOf(text, owner) # NoChunks
  <2>1. 1 \in 1..MaxChunks /\ 1 <= Size[text]
    BY <1>3, <1>7
  <2>2. ChunksOf(text, owner)[1] = c
    BY <2>1, <1>2
  <2>3. NoChunks[1] = None
    BY <2>1 DEF NoChunks
  <2> QED BY <2>2, <2>3, <1>1
<1> QED BY <1>4, <1>5, <1>6, <1>7

LEMMA NoChunksAreChunks == NoChunks \in Slots /\ NoGap(NoChunks) /\ \A o : OwnedBy(NoChunks, o)
<1>1. \A i \in 1..MaxChunks : NoChunks[i] = None
  BY DEF NoChunks
<1>2. \A i \in 2..MaxChunks : i \in 1..MaxChunks
  BY SourceConstants
<1> QED BY <1>1, <1>2 DEF NoChunks, Slots, NoGap, OwnedBy

LEMMA UpsertChunks ==
  ASSUME NEW old \in Slots, NEW new \in Slots, NoGap(old), NoGap(new),
         NEW owner, OwnedBy(old, owner), OwnedBy(new, owner)
  PROVE  /\ Upsert(old, new) \in Slots
         /\ NoGap(Upsert(old, new))
         /\ OwnedBy(Upsert(old, new), owner)
         /\ old = NoChunks => Upsert(old, new) = new
<1>1. \A i \in 1..MaxChunks : Upsert(old, new)[i] = IF new[i] # None THEN new[i] ELSE old[i]
  BY DEF Upsert
<1>2. Upsert(old, new) \in Slots
  BY DEF Upsert, Slots
<1>3. NoGap(Upsert(old, new))
  <2> SUFFICES ASSUME NEW i \in 2..MaxChunks, Upsert(old, new)[i] # None
               PROVE  Upsert(old, new)[i - 1] # None
    BY DEF NoGap
  <2>1. i \in 1..MaxChunks /\ i - 1 \in 1..MaxChunks
    BY SourceConstants
  <2>2. new[i - 1] # None \/ old[i - 1] # None
    BY <1>1, <2>1 DEF NoGap
  <2> QED BY <1>1, <2>1, <2>2
<1>4. OwnedBy(Upsert(old, new), owner)
  BY <1>1 DEF OwnedBy
<1>5. ASSUME old = NoChunks
      PROVE  Upsert(old, new) = new
  <2>1. \A i \in 1..MaxChunks : old[i] = None
    BY <1>5 DEF NoChunks
  <2>2. \A i \in 1..MaxChunks : (IF new[i] # None THEN new[i] ELSE old[i]) = new[i]
    BY <2>1
  <2>3. new = [i \in 1..MaxChunks |-> new[i]]
    BY DEF Slots
  <2> QED BY <2>2, <2>3 DEF Upsert
<1> QED BY <1>2, <1>3, <1>4, <1>5

-----------------------------------------------------------------------------
(* What a call of Qdrant does to the points.                               *)

PointsOK == /\ points \in [Sources -> Slots]
            /\ visible \in [Sources -> Slots]
            /\ \A s \in Sources : NoGap(points[s]) /\ OwnedBy(points[s], s.scope)

\* At most the chunks of source s change.
OnlySource(s) == \A t \in Sources \ {s} : points'[t] = points[t]

LEMMA PointsTyped ==
  ASSUME SourceInv
  PROVE  PointsOK
BY DEF SourceInv, TypeOK, ChunksOwned, PointsOK, Slots, NoGap, OwnedBy

LEMMA PointsReplaced ==
  ASSUME PointsOK, NEW s \in Sources, NEW chunks \in Slots, NoGap(chunks),
         OwnedBy(chunks, s.scope), points' = [points EXCEPT ![s] = chunks],
         visible' = visible \/ visible' = points'
  PROVE  PointsOK' /\ OnlySource(s) /\ points'[s] = chunks
<1>1. points' \in [Sources -> Slots] /\ points'[s] = chunks
  BY DEF PointsOK
<1>2. \A t \in Sources \ {s} : points'[t] = points[t]
  BY DEF PointsOK
<1>3. \A t \in Sources : NoGap(points'[t]) /\ OwnedBy(points'[t], t.scope)
  BY <1>1, <1>2 DEF PointsOK
<1>4. visible' \in [Sources -> Slots]
  BY <1>1 DEF PointsOK
<1> QED BY <1>1, <1>2, <1>3, <1>4 DEF PointsOK, OnlySource

LEMMA DeleteEffect ==
  ASSUME PointsOK, NEW s \in Sources, NEW filter, Delete(s, filter)
  PROVE  /\ PointsOK' /\ OnlySource(s)
         /\ Matches(s.scope, filter) => points'[s] = NoChunks
         /\ ~Matches(s.scope, filter) => points'[s] = points[s]
<1> DEFINE old == points[s]
           left == [i \in 1..MaxChunks |->
                      IF old[i] # None /\ Matches(old[i].owner, filter) THEN None ELSE old[i]]
<1>1. old \in Slots /\ NoGap(old) /\ OwnedBy(old, s.scope)
  BY DEF PointsOK
<1>2. points' = [points EXCEPT ![s] = left] /\ visible' = points'
  BY DEF Delete, PointsOK
<1>3. CASE Matches(s.scope, filter)
  <2>1. \A i \in 1..MaxChunks :
          (IF old[i] # None /\ Matches(old[i].owner, filter) THEN None ELSE old[i]) = None
    BY <1>1, <1>3 DEF OwnedBy
  <2>2. left = NoChunks
    BY <2>1 DEF NoChunks
  <2>3. points' = [points EXCEPT ![s] = NoChunks]
    BY <2>2, <1>2
  <2> QED BY <2>3, <1>2, <1>3, NoChunksAreChunks, PointsReplaced
<1>4. CASE ~Matches(s.scope, filter)
  <2>1. \A i \in 1..MaxChunks :
          (IF old[i] # None /\ Matches(old[i].owner, filter) THEN None ELSE old[i]) = old[i]
    BY <1>1, <1>4 DEF OwnedBy
  <2>2. old = [i \in 1..MaxChunks |-> old[i]]
    BY <1>1 DEF Slots
  <2>3. left = old
    BY <2>1, <2>2
  <2>4. points' = [points EXCEPT ![s] = old]
    BY <2>3, <1>2
  <2> QED BY <2>4, <1>1, <1>2, <1>4, PointsReplaced
<1> QED BY <1>3, <1>4

LEMMA UpsertEffect ==
  ASSUME PointsOK, NEW s \in Sources, NEW text \in Texts,
         UpsertPoints(s, ChunksOf(text, s.scope))
  PROVE  /\ PointsOK' /\ OnlySource(s)
         /\ points[s] = NoChunks => points'[s] = ChunksOf(text, s.scope)
<1> DEFINE new == ChunksOf(text, s.scope)
<1>1. points[s] \in Slots /\ NoGap(points[s]) /\ OwnedBy(points[s], s.scope)
  BY DEF PointsOK
<1>2. new \in Slots /\ NoGap(new) /\ OwnedBy(new, s.scope)
  BY ChunksOfText, SourceScope
<1>3. points' = [points EXCEPT ![s] = Upsert(points[s], new)] /\ visible' = visible
  BY DEF UpsertPoints
<1> HIDE DEF new
<1>4. /\ Upsert(points[s], new) \in Slots
      /\ NoGap(Upsert(points[s], new))
      /\ OwnedBy(Upsert(points[s], new), s.scope)
      /\ points[s] = NoChunks => Upsert(points[s], new) = new
  BY <1>1, <1>2, UpsertChunks
<1>5. PointsOK' /\ OnlySource(s) /\ points'[s] = Upsert(points[s], new)
  BY <1>3, <1>4, PointsReplaced
<1>6. points[s] = NoChunks => points'[s] = new
  BY <1>4, <1>5
<1> QED BY <1>5, <1>6 DEF new

LEMMA PointsUnchanged ==
  ASSUME PointsOK, NEW s, UNCHANGED <<points, visible>>
  PROVE  PointsOK' /\ OnlySource(s)
BY DEF PointsOK, OnlySource

-----------------------------------------------------------------------------
(* A step of one request changes its own source, and no other request.     *)

RestOK ==
  /\ registry \in [Sources -> Status]
  /\ clashed \subseteq Sources
  /\ told \in [Sources -> Answers]
  /\ given \in [Sources -> Answers \ BlankTexts]
  /\ unrecorded \subseteq Sources
  /\ starts \in 0..MaxStarts

\* A step that leaves everything but source s as it is.
Confined(s) ==
  /\ PointsOK' /\ RestOK'
  /\ OnlySource(s)
  /\ \A t \in Sources \ {s} :
       /\ registry'[t] = registry[t]
       /\ told'[t] = told[t] /\ given'[t] = given[t]
       /\ t \in clashed' <=> t \in clashed
       /\ t \in unrecorded' <=> t \in unrecorded

\* What the invariant says of source s when the request that changed it was alone.
Settled(s) ==
  /\ s \notin clashed => Whole(s)
  /\ s \notin clashed \cup unrecorded => Registered(s)

LEMMA InvParts ==
  SourceInv <=>
    /\ PointsOK /\ RestOK /\ request \in [Requests -> Request]
    /\ IndexesOwn /\ AloneIsAlone /\ UnclashedAlone /\ PhaseFacts
    /\ WholeAsEnded /\ RegisteredAsEnded
BY DEF SourceInv, TypeOK, ChunksOwned, PointsOK, RestOK, Slots, NoGap, OwnedBy

LEMMA InvPartsNext ==
  ASSUME PointsOK', RestOK', request' \in [Requests -> Request], IndexesOwn', AloneIsAlone',
         UnclashedAlone', PhaseFacts', WholeAsEnded', RegisteredAsEnded'
  PROVE  SourceInv'
BY DEF SourceInv, TypeOK, ChunksOwned, PointsOK, RestOK, Slots, NoGap, OwnedBy

LEMMA RestTyped ==
  ASSUME SourceInv
  PROVE  PointsOK /\ RestOK /\ request \in [Requests -> Request]
BY InvParts

\* A request under way is in a phase, on a source.
LEMMA BusyIsActive ==
  ASSUME SourceInv, NEW r \in Requests, request[r] # Idle
  PROVE  request[r] \in Active /\ request[r].source \in Sources /\ request[r].at \in Phases
<1>1. request[r] \in Request
  BY RestTyped
<1>2. request[r] \in Active
  BY <1>1, ActiveRequest
<1> QED BY <1>2 DEF Active

LEMMA InPhaseIsBusy ==
  ASSUME NEW r \in Requests, request[r].at \in Phases
  PROVE  request[r] # Idle
BY DEF Phases, Idle

\* A request alone on its source, which has not begun to change it, finds what
\* the last request left.
LEMMA AloneSettled ==
  ASSUME SourceInv, NEW r \in Requests, request[r] # Idle, request[r].alone,
         request[r].at \in {"chunking", "clearing", "deleting"} \/ ~Reaches(r)
  PROVE  Settled(request[r].source)
<1> DEFINE s == request[r].source
<1>1. s \in Sources
  BY BusyIsActive
<1>2. \A q \in Busy(s) : q = r
  BY DEF SourceInv, AloneIsAlone, Busy
<1>3. AsEnded(s)
  BY <1>2 DEF AsEnded
<1> QED BY <1>1, <1>3 DEF SourceInv, WholeAsEnded, RegisteredAsEnded, Settled

\* A request that is not alone is on a source that clashed.
LEMMA NotAloneClashed ==
  ASSUME SourceInv, NEW r \in Requests, request[r] # Idle, ~request[r].alone
  PROVE  request[r].source \in clashed
BY DEF SourceInv, UnclashedAlone

\* What a step on source s leaves of the other requests and sources.
LEMMA OthersKept ==
  ASSUME SourceInv, NEW r \in Requests, NEW s \in Sources, Confined(s),
         request[r] # Idle, request[r].source = s,
         \A q \in Requests \ {r} : request'[q] = request[q],
         request'[r] # Idle => request'[r].source = s
  PROVE  \A t \in Sources \ {s} :
           /\ t \notin clashed' => (AsEnded(t)' => Whole(t)')
           /\ t \notin clashed' \cup unrecorded' => (AsEnded(t)' => Registered(t)')
<1> TAKE t \in Sources \ {s}
<1>1. points'[t] = points[t] /\ registry'[t] = registry[t]
      /\ told'[t] = told[t] /\ given'[t] = given[t]
      /\ (t \in clashed' <=> t \in clashed) /\ (t \in unrecorded' <=> t \in unrecorded)
  BY DEF Confined, OnlySource
<1>2. \A q \in Busy(t) : q # r /\ request'[q] = request[q] /\ q \in Busy(t)'
  BY DEF Busy
<1>3. AsEnded(t)' => AsEnded(t)
  BY <1>2 DEF AsEnded, Reaches
<1>4. Whole(t) => Whole(t)'
  BY <1>1 DEF Whole
<1>5. Registered(t) => Registered(t)'
  BY <1>1 DEF Registered
<1> QED BY <1>1, <1>3, <1>4, <1>5 DEF SourceInv, WholeAsEnded, RegisteredAsEnded

\* A request that ends keeps the invariant, if it leaves its source settled or clashed.
LEMMA EndsKeeps ==
  ASSUME SourceInv, NEW r \in Requests, NEW s \in Sources,
         request[r] # Idle, request[r].source = s,
         Confined(s), Ends(r),
         ~request[r].alone => s \in clashed',
         request[r].alone => Settled(s)'
  PROVE  SourceInv'
<1>1. request' = [request EXCEPT ![r] = Idle] /\ request \in [Requests -> Request]
  BY RestTyped DEF Ends
<1>2. request'[r] = Idle /\ \A q \in Requests \ {r} : request'[q] = request[q]
  BY <1>1
<1>3. request' \in [Requests -> Request]
  BY <1>1, IdleIsRequest
<1>4. IndexesOwn'
  BY <1>2, IdleIsRequest DEF SourceInv, IndexesOwn, Indexing
<1>5. AloneIsAlone'
  BY <1>2 DEF SourceInv, AloneIsAlone
<1>6. UnclashedAlone'
  <2> SUFFICES ASSUME NEW q \in Requests, request'[q] # Idle, ~request'[q].alone
               PROVE  request'[q].source \in clashed'
    BY DEF UnclashedAlone
  <2>1. q # r /\ request'[q] = request[q]
    BY <1>2
  <2>2. request[q].source \in clashed /\ request[q].source \in Sources
    BY <2>1, NotAloneClashed, BusyIsActive
  <2>3. CASE request[q].source # s
    BY <2>1, <2>2, <2>3 DEF Confined
  <2>4. CASE request[q].source = s
    BY <2>1, <2>4 DEF SourceInv, AloneIsAlone
  <2> QED BY <2>3, <2>4
<1>7. PhaseFacts'
  <2> SUFFICES ASSUME NEW q \in Requests, request'[q] # Idle, request'[q].alone
               PROVE  /\ request'[q].at = "upserting" => points'[request'[q].source] = NoChunks
                      /\ request'[q].at = "recording" =>
                           points'[request'[q].source] = ChunksOf(request'[q].text, request'[q].source.scope)
                      /\ request'[q].at = "marking" /\ Reaches(q)' => points'[request'[q].source] = NoChunks
    BY DEF PhaseFacts
  <2>1. q # r /\ request'[q] = request[q]
    BY <1>2
  <2>2. request[q].source # s
    BY <2>1 DEF SourceInv, AloneIsAlone
  <2>3. points'[request[q].source] = points[request[q].source]
    BY <2>1, <2>2, BusyIsActive DEF Confined, OnlySource
  <2> QED BY <2>1, <2>3 DEF SourceInv, PhaseFacts, Reaches
<1>8. /\ \A t \in Sources \ {s} : t \notin clashed' => (AsEnded(t)' => Whole(t)')
      /\ \A t \in Sources \ {s} : t \notin clashed' \cup unrecorded' => (AsEnded(t)' => Registered(t)')
  BY <1>2, OthersKept
<1>9. WholeAsEnded' /\ RegisteredAsEnded'
  BY <1>8 DEF WholeAsEnded, RegisteredAsEnded, Settled
<1> QED BY <1>3, <1>4, <1>5, <1>6, <1>7, <1>9, InvPartsNext DEF Confined

\* So does a request that moves on, if the facts of its new phase hold.
LEMMA MovesKeeps ==
  ASSUME SourceInv, NEW r \in Requests, NEW s \in Sources, NEW at \in Phases,
         request[r] # Idle, request[r].source = s,
         Confined(s), Moves(r, at), clashed' = clashed,
         at \in Indexing =>
           /\ request[r].filter = s.scope
           /\ request[r].text \in Texts
           /\ at # "chunking" => Size[request[r].text] > 0,
         request[r].alone =>
           /\ at = "upserting" => points'[s] = NoChunks
           /\ at = "recording" => points'[s] = ChunksOf(request[r].text, s.scope)
           /\ at = "marking" /\ Reaches(r) => points'[s] = NoChunks
           /\ at \in {"chunking", "clearing", "deleting"} \/ ~Reaches(r) => Settled(s)'
  PROVE  SourceInv'
<1> DEFINE new == [request[r] EXCEPT !.at = at]
<1>1. request' = [request EXCEPT ![r] = new] /\ request \in [Requests -> Request]
  BY RestTyped DEF Moves
<1>2. request'[r] = new /\ \A q \in Requests \ {r} : request'[q] = request[q]
  BY <1>1
<1>3. request[r] \in Active
  BY BusyIsActive
<1>4. /\ new \in Active /\ new.at = at /\ new.source = s
      /\ new.filter = request[r].filter /\ new.text = request[r].text
      /\ new.alone = request[r].alone
  BY <1>3 DEF Active
<1> HIDE DEF new
<1>5. new \in Request /\ new # Idle
  BY <1>4, ActiveIsRequest
<1>6. request' \in [Requests -> Request]
  BY <1>1, <1>5
<1>7. IndexesOwn'
  <2> SUFFICES ASSUME NEW q \in Requests, request'[q].at \in Indexing
               PROVE  /\ request'[q].filter = request'[q].source.scope
                      /\ request'[q].text \in Texts
                      /\ request'[q].at # "chunking" => Size[request'[q].text] > 0
    BY DEF IndexesOwn
  <2>1. CASE q = r
    BY <2>1, <1>2, <1>4
  <2>2. CASE q # r
    BY <2>2, <1>2 DEF SourceInv, IndexesOwn
  <2> QED BY <2>1, <2>2
<1>8. \A q \in Requests : /\ request'[q] # Idle <=> request[q] # Idle
                          /\ request'[q].source = request[q].source
                          /\ request'[q].alone = request[q].alone
  BY <1>2, <1>4, <1>5
<1>9. AloneIsAlone'
  BY <1>8 DEF SourceInv, AloneIsAlone
<1>10. UnclashedAlone'
  BY <1>8 DEF SourceInv, UnclashedAlone
<1>11. PhaseFacts'
  <2> SUFFICES ASSUME NEW q \in Requests, request'[q] # Idle, request'[q].alone
               PROVE  /\ request'[q].at = "upserting" => points'[request'[q].source] = NoChunks
                      /\ request'[q].at = "recording" =>
                           points'[request'[q].source] = ChunksOf(request'[q].text, request'[q].source.scope)
                      /\ request'[q].at = "marking" /\ Reaches(q)' => points'[request'[q].source] = NoChunks
    BY DEF PhaseFacts
  <2>1. CASE q = r
    BY <2>1, <1>2, <1>4 DEF Reaches
  <2>2. CASE q # r
    <3>1. request'[q] = request[q] /\ request[q] # Idle /\ request[q].alone
      BY <2>2, <1>2
    <3>2. request[q].source # s
      BY <3>1, <2>2 DEF SourceInv, AloneIsAlone
    <3>3. points'[request[q].source] = points[request[q].source]
      BY <3>1, <3>2, BusyIsActive DEF Confined, OnlySource
    <3> QED BY <3>1, <3>3 DEF SourceInv, PhaseFacts, Reaches
  <2> QED BY <2>1, <2>2
<1>12. /\ \A t \in Sources \ {s} : t \notin clashed' => (AsEnded(t)' => Whole(t)')
       /\ \A t \in Sources \ {s} : t \notin clashed' \cup unrecorded' => (AsEnded(t)' => Registered(t)')
  BY <1>2, <1>4, OthersKept
<1>13. ASSUME s \notin clashed', AsEnded(s)'
       PROVE  Settled(s)'
  <2>1. request[r].alone
    BY <1>13, NotAloneClashed
  <2>2. r \in Busy(s)'
    BY <1>2, <1>4, <1>5 DEF Busy
  <2>3. at \in {"chunking", "clearing", "deleting"} \/ ~Reaches(r)'
    BY <1>13, <2>2, <1>2, <1>4 DEF AsEnded
  <2>4. Reaches(r)' <=> Reaches(r)
    BY <1>2, <1>4 DEF Reaches
  <2> QED BY <2>1, <2>3, <2>4
<1>14. WholeAsEnded'
  BY <1>12, <1>13 DEF WholeAsEnded, Settled
<1>15. RegisteredAsEnded'
  BY <1>12, <1>13 DEF RegisteredAsEnded, Settled
<1> QED BY <1>6, <1>7, <1>9, <1>10, <1>11, <1>14, <1>15, InvPartsNext DEF Confined

-----------------------------------------------------------------------------
(* The steps of a request.                                                 *)

LEMMA ConfinedBy ==
  ASSUME SourceInv, NEW s \in Sources, PointsOK', OnlySource(s),
         registry' = registry \/ \E st \in Status : registry' = [registry EXCEPT ![s] = st],
         told' = told \/ \E h \in Answers : told' = [told EXCEPT ![s] = h],
         given' = given \/ \E h \in Answers \ BlankTexts : given' = [given EXCEPT ![s] = h],
         clashed' = clashed \/ clashed' = clashed \ {s},
         unrecorded' = unrecorded \/ unrecorded' = unrecorded \cup {s}
           \/ unrecorded' = unrecorded \ {s},
         starts' = starts
  PROVE  Confined(s)
<1>1. RestOK
  BY RestTyped
<1>2. registry' \in [Sources -> Status] /\ \A t \in Sources \ {s} : registry'[t] = registry[t]
  BY <1>1 DEF RestOK
<1>3. /\ told' \in [Sources -> Answers] /\ given' \in [Sources -> Answers \ BlankTexts]
      /\ \A t \in Sources \ {s} : told'[t] = told[t] /\ given'[t] = given[t]
  BY <1>1 DEF RestOK
<1>4. /\ clashed' \subseteq Sources /\ unrecorded' \subseteq Sources
      /\ \A t \in Sources \ {s} : t \in clashed' <=> t \in clashed
      /\ \A t \in Sources \ {s} : t \in unrecorded' <=> t \in unrecorded
  BY <1>1 DEF RestOK
<1>5. starts' \in 0..MaxStarts
  BY <1>1 DEF RestOK
<1> QED BY <1>2, <1>3, <1>4, <1>5 DEF Confined, RestOK

LEMMA IndexFacts ==
  ASSUME SourceInv, NEW r \in Requests, request[r].at \in Indexing
  PROVE  /\ request[r] # Idle
         /\ request[r].source \in Sources
         /\ request[r].filter = request[r].source.scope
         /\ Reaches(r)
         /\ request[r].text \in Texts
         /\ request[r].at # "chunking" => Size[request[r].text] > 0
<1>1. request[r] # Idle
  BY InPhaseIsBusy DEF Indexing, Phases
<1>2. request[r].source \in Sources
  BY <1>1, BusyIsActive
<1>3. request[r].filter = request[r].source.scope
  BY DEF SourceInv, IndexesOwn
<1>4. Reaches(r)
  BY <1>2, <1>3, SourceScope, MatchesItself DEF Reaches
<1> QED BY <1>1, <1>2, <1>3, <1>4 DEF SourceInv, IndexesOwn

LEMMA SettledKept ==
  ASSUME NEW s \in Sources, Settled(s), points'[s] = points[s],
         UNCHANGED <<registry, told, given, clashed, unrecorded>>
  PROVE  Settled(s)'
BY DEF Settled, Whole, Registered

\* A request that ends, and has not begun to change its source.
LEMMA InvEndsEarly ==
  ASSUME SourceInv, NEW r \in Requests, request[r].at = "chunking", Ends(r),
         UNCHANGED <<points, visible, registry, history, starts>>
  PROVE  SourceInv'
<1>1. PICK s \in Sources : s = request[r].source /\ request[r] # Idle
  BY IndexFacts DEF Indexing
<1>2. PointsOK' /\ OnlySource(s)
  BY RestTyped, PointsUnchanged
<1>3. Confined(s)
  BY <1>2, ConfinedBy DEF history
<1>4. ~request[r].alone => s \in clashed'
  BY <1>1, NotAloneClashed DEF history
<1>5. request[r].alone => Settled(s)'
  BY <1>1, AloneSettled, SettledKept DEF history
<1> QED BY <1>1, <1>3, <1>4, <1>5, EndsKeeps

LEMMA InvIndexChunks ==
  ASSUME SourceInv, NEW r \in Requests, IndexChunks(r)
  PROVE  SourceInv'
<1>1. request[r].at = "chunking" /\ UNCHANGED <<points, visible, registry, history, starts>>
  BY DEF IndexChunks
<1>2. PICK s \in Sources : s = request[r].source /\ request[r] # Idle
  BY <1>1, IndexFacts DEF Indexing
<1>3. PointsOK' /\ OnlySource(s)
  BY <1>1, RestTyped, PointsUnchanged
<1>4. Confined(s)
  BY <1>1, <1>3, ConfinedBy DEF history
<1>5. request[r].filter = s.scope /\ request[r].text \in Texts
  BY <1>1, <1>2, IndexFacts DEF Indexing
<1>6. Size[request[r].text] > 0
  BY <1>5, SourceConstants DEF IndexChunks, BlankTexts
<1>7. request[r].alone => Settled(s)'
  BY <1>1, <1>2, AloneSettled, SettledKept DEF history
<1>8. Moves(r, "clearing")
  BY DEF IndexChunks
<1> QED BY <1>1, <1>2, <1>4, <1>5, <1>6, <1>7, <1>8, MovesKeeps DEF Phases, history

\* A text without chunks: what the source held before is still whole.
LEMMA InvIndexBlank ==
  ASSUME SourceInv, NEW r \in Requests, IndexBlank(r)
  PROVE  SourceInv'
<1>1. /\ request[r].at = "chunking" /\ request[r].text \in BlankTexts /\ Ends(r)
      /\ UNCHANGED <<points, visible, registry, clashed, given, unrecorded, starts>>
  BY DEF IndexBlank
<1>2. PICK s \in Sources : s = request[r].source /\ request[r] # Idle
  BY <1>1, IndexFacts DEF Indexing
<1>3. told' = [told EXCEPT ![s] = request[r].text] /\ request[r].text \in Answers
  BY <1>1, <1>2 DEF IndexBlank, BlankTexts, Answers
<1>4. PointsOK' /\ OnlySource(s)
  BY <1>1, RestTyped, PointsUnchanged
<1>5. Confined(s)
  BY <1>1, <1>3, <1>4, ConfinedBy
<1>6. ~request[r].alone => s \in clashed'
  BY <1>1, <1>2, NotAloneClashed
<1>7. request[r].alone => Settled(s)
  BY <1>1, <1>2, AloneSettled
<1>8. told'[s] \in BlankTexts
  BY <1>1, <1>3, RestTyped DEF RestOK
<1>9. request[r].alone => Settled(s)'
  BY <1>1, <1>7, <1>8 DEF Settled, Whole, Registered
<1> QED BY <1>1, <1>2, <1>5, <1>6, <1>9, EndsKeeps

LEMMA InvIndexClears ==
  ASSUME SourceInv, NEW r \in Requests, IndexClears(r)
  PROVE  SourceInv'
<1>1. request[r].at = "clearing" /\ UNCHANGED <<registry, history, starts>>
  BY DEF IndexClears
<1>2. PICK s \in Sources : s = request[r].source /\ request[r] # Idle
  BY <1>1, IndexFacts DEF Indexing
<1>3. /\ request[r].filter = s.scope /\ request[r].text \in Texts
      /\ Size[request[r].text] > 0 /\ Reaches(r)
  BY <1>1, <1>2, IndexFacts DEF Indexing
<1>4. Delete(s, Everything) /\ Moves(r, "upserting")
  BY <1>2 DEF IndexClears, Everything
<1>5. Matches(s.scope, Everything)
  BY SourceScope, MatchesItself
<1>6. PointsOK' /\ OnlySource(s) /\ points'[s] = NoChunks
  BY <1>4, <1>5, RestTyped, DeleteEffect
<1>7. Confined(s)
  BY <1>1, <1>6, ConfinedBy DEF history
<1> QED BY <1>1, <1>2, <1>3, <1>4, <1>6, <1>7, MovesKeeps DEF Phases, history

LEMMA InvIndexUpserts ==
  ASSUME SourceInv, NEW r \in Requests, IndexUpserts(r)
  PROVE  SourceInv'
<1>1. request[r].at = "upserting" /\ UNCHANGED <<registry, history, starts>>
  BY DEF IndexUpserts
<1>2. PICK s \in Sources : s = request[r].source /\ request[r] # Idle
  BY <1>1, IndexFacts DEF Indexing
<1>3. /\ request[r].filter = s.scope /\ request[r].text \in Texts
      /\ Size[request[r].text] > 0 /\ Reaches(r)
  BY <1>1, <1>2, IndexFacts DEF Indexing
<1>4. UpsertPoints(s, ChunksOf(request[r].text, s.scope)) /\ Moves(r, "recording")
  BY <1>2, <1>3 DEF IndexUpserts
<1>5. /\ PointsOK' /\ OnlySource(s)
      /\ points[s] = NoChunks => points'[s] = ChunksOf(request[r].text, s.scope)
  BY <1>3, <1>4, RestTyped, UpsertEffect
<1>6. request[r].alone => points[s] = NoChunks
  BY <1>1, <1>2 DEF SourceInv, PhaseFacts
<1>7. Confined(s)
  BY <1>1, <1>5, ConfinedBy DEF history
<1> QED BY <1>1, <1>2, <1>3, <1>4, <1>5, <1>6, <1>7, MovesKeeps DEF Phases, history

LEMMA InvDeletePoints ==
  ASSUME SourceInv, NEW r \in Requests, DeletePoints(r)
  PROVE  SourceInv'
<1>1. request[r].at = "deleting" /\ UNCHANGED <<registry, history, starts>>
  BY DEF DeletePoints
<1>2. request[r] # Idle
  BY <1>1, InPhaseIsBusy DEF Phases
<1>3. PICK s \in Sources : s = request[r].source
  BY <1>2, BusyIsActive
<1>4. Delete(s, request[r].filter) /\ Moves(r, "marking")
  BY <1>3 DEF DeletePoints
<1>5. /\ PointsOK' /\ OnlySource(s)
      /\ Reaches(r) => points'[s] = NoChunks
      /\ ~Reaches(r) => points'[s] = points[s]
  BY <1>3, <1>4, RestTyped, DeleteEffect DEF Reaches
<1>6. Confined(s)
  BY <1>1, <1>5, ConfinedBy DEF history
<1>7. request[r].alone /\ ~Reaches(r) => Settled(s)'
  BY <1>1, <1>2, <1>3, <1>5, AloneSettled, SettledKept DEF history
<1> QED BY <1>1, <1>2, <1>3, <1>4, <1>5, <1>6, <1>7, MovesKeeps DEF Phases, Indexing, history

\* A request that returns success: what it was told holds of the points, and
\* so does what it recorded in the registry.
LEMMA InvSucceeds ==
  ASSUME SourceInv, NEW r \in Requests, NEW s \in Sources, request[r] # Idle,
         request[r].source = s, request[r].at \notin {"chunking", "clearing", "deleting"},
         UNCHANGED <<points, visible, starts>>, Ends(r),
         registry' = registry \/ \E st \in Status : registry' = [registry EXCEPT ![s] = st],
         ~Reaches(r) => UNCHANGED <<registry, told, given, clashed, unrecorded>>,
         NEW content \in Answers \ BlankTexts,
         Reaches(r) => told' = [told EXCEPT ![s] = content],
         Reaches(r) => given' = [given EXCEPT ![s] = content],
         Reaches(r) => clashed' = IF request[r].alone THEN clashed \ {s} ELSE clashed,
         Reaches(r) => unrecorded' = unrecorded \cup {s} \/ unrecorded' = unrecorded \ {s},
         Reaches(r) /\ request[r].alone =>
           /\ content \in Texts => points[s] = ChunksOf(content, s.scope)
           /\ content = "nothing" => points[s] = NoChunks
           /\ s \in unrecorded' \/ (registry'[s] = "active" <=> points[s] # NoChunks)
  PROVE  SourceInv'
<1>1. PointsOK' /\ OnlySource(s)
  BY RestTyped, PointsUnchanged
<1>2. ~request[r].alone => s \in clashed
  BY NotAloneClashed
<1>3. CASE ~Reaches(r)
  <2>1. UNCHANGED <<registry, told, given, clashed, unrecorded>>
    BY <1>3
  <2>2. Confined(s)
    BY <1>1, <2>1, ConfinedBy
  <2>3. request[r].alone => Settled(s)'
    BY <1>3, <2>1, AloneSettled, SettledKept
  <2> QED BY <1>2, <2>1, <2>2, <2>3, EndsKeeps
<1>4. CASE Reaches(r)
  <2>1. Confined(s)
    BY <1>1, <1>4, ConfinedBy
  <2>2. ~request[r].alone => s \in clashed'
    BY <1>2, <1>4
  <2>3. told'[s] = content /\ given'[s] = content
    BY <1>4, RestTyped DEF RestOK
  <2>4. request[r].alone => Whole(s)'
    BY <1>4, <2>3 DEF Whole
  <2>5. request[r].alone /\ s \notin unrecorded' => Registered(s)'
    BY <1>4 DEF Registered
  <2>6. request[r].alone => Settled(s)'
    BY <2>4, <2>5 DEF Settled
  <2> QED BY <2>1, <2>2, <2>6, EndsKeeps
<1> QED BY <1>3, <1>4

LEMMA InvRecorded ==
  ASSUME SourceInv, NEW r \in Requests, request[r].at = "recording",
         UNCHANGED <<points, visible, starts>>,
         \/ /\ Succeeds(r, request[r].text, TRUE)
            /\ registry' = [registry EXCEPT ![request[r].source] = "active"]
         \/ Succeeds(r, request[r].text, FALSE) /\ registry' = registry
  PROVE  SourceInv'
<1>1. PICK s \in Sources : s = request[r].source /\ request[r] # Idle
  BY IndexFacts DEF Indexing
<1>2. request[r].text \in Texts /\ Size[request[r].text] > 0 /\ Reaches(r)
  BY <1>1, IndexFacts DEF Indexing
<1>3. request[r].alone => points[s] = ChunksOf(request[r].text, s.scope)
  BY <1>1 DEF SourceInv, PhaseFacts
<1>4. request[r].alone => points[s] # NoChunks
  BY <1>2, <1>3, ChunksOfText, SourceScope
<1>5. request[r].text \in Answers \ BlankTexts /\ request[r].text # "nothing"
  BY <1>2, SourceConstants DEF Answers, BlankTexts
<1>6. registry' = registry \/ \E st \in Status : registry' = [registry EXCEPT ![s] = st]
  BY <1>1 DEF Status
<1>7. /\ Ends(r)
      /\ told' = [told EXCEPT ![s] = request[r].text]
      /\ given' = [given EXCEPT ![s] = request[r].text]
      /\ clashed' = IF request[r].alone THEN clashed \ {s} ELSE clashed
      /\ unrecorded' = unrecorded \cup {s} \/ unrecorded' = unrecorded \ {s}
  BY <1>1, <1>2 DEF Succeeds
<1>8. s \in unrecorded' \/ registry'[s] = "active"
  BY <1>1, <1>2, RestTyped DEF Succeeds, RestOK
<1> QED BY <1>1, <1>2, <1>3, <1>4, <1>5, <1>6, <1>7, <1>8, InvSucceeds

LEMMA InvMarked ==
  ASSUME SourceInv, NEW r \in Requests, request[r].at = "marking",
         UNCHANGED <<points, visible, starts>>,
         \/ /\ Succeeds(r, "nothing", TRUE)
            /\ registry' = IF Reaches(r) /\ registry[request[r].source] # "none"
                           THEN [registry EXCEPT ![request[r].source] = "deleted"]
                           ELSE registry
         \/ Succeeds(r, "nothing", FALSE) /\ registry' = registry
  PROVE  SourceInv'
<1>1. request[r] # Idle
  BY InPhaseIsBusy DEF Phases
<1>2. PICK s \in Sources : s = request[r].source
  BY <1>1, BusyIsActive
<1>3. request[r].alone /\ Reaches(r) => points[s] = NoChunks
  BY <1>1, <1>2 DEF SourceInv, PhaseFacts
<1>4. "nothing" \in Answers \ BlankTexts /\ "nothing" \notin Texts
  BY SourceConstants DEF Answers, BlankTexts
<1>5. registry' = registry \/ \E st \in Status : registry' = [registry EXCEPT ![s] = st]
  BY <1>2 DEF Status
<1>6. /\ Ends(r)
      /\ ~Reaches(r) => UNCHANGED <<registry, told, given, clashed, unrecorded>>
  BY DEF Succeeds, history
<1>7. Reaches(r) =>
        /\ told' = [told EXCEPT ![s] = "nothing"]
        /\ given' = [given EXCEPT ![s] = "nothing"]
        /\ clashed' = IF request[r].alone THEN clashed \ {s} ELSE clashed
        /\ unrecorded' = unrecorded \cup {s} \/ unrecorded' = unrecorded \ {s}
  BY <1>2 DEF Succeeds
<1>8. Reaches(r) => s \in unrecorded' \/ registry'[s] # "active"
  BY <1>2, RestTyped DEF Succeeds, RestOK
<1> QED BY <1>1, <1>2, <1>3, <1>4, <1>5, <1>6, <1>7, <1>8, InvSucceeds

LEMMA InvRecord ==
  ASSUME SourceInv, NEW r \in Requests, Record(r)
  PROVE  SourceInv'
BY InvRecorded DEF Record

LEMMA InvMarkDeleted ==
  ASSUME SourceInv, NEW r \in Requests, MarkDeleted(r)
  PROVE  SourceInv'
BY InvMarked DEF MarkDeleted

LEMMA InvRegistryFails ==
  ASSUME SourceInv, NEW r \in Requests, RegistryFails(r)
  PROVE  SourceInv'
<1>1. CASE request[r].at = "recording" /\ Succeeds(r, request[r].text, FALSE)
  BY <1>1, InvRecorded DEF RegistryFails
<1>2. CASE request[r].at = "marking" /\ Succeeds(r, "nothing", FALSE)
  BY <1>2, InvMarked DEF RegistryFails
<1> QED BY <1>1, <1>2 DEF RegistryFails

\* What a call of Qdrant that fails may have done.
LEMMA FailureEffect ==
  ASSUME SourceInv, NEW r \in Requests, NEW s \in Sources, request[r].source = s,
         QdrantFails(r)
  PROVE  PointsOK' /\ OnlySource(s) /\ (~Reaches(r) => points'[s] = points[s])
<1>1. PointsOK
  BY RestTyped
<1>2. ASSUME request[r].at \in {"clearing", "upserting"}
      PROVE  Reaches(r) /\ request[r].filter = s.scope /\ request[r].text \in Texts
  BY <1>2, IndexFacts DEF Indexing
<1>3. CASE request[r].at = "clearing" /\ Delete(s, Everything)
  BY <1>1, <1>2, <1>3, DeleteEffect
<1>4. CASE request[r].at = "upserting" /\ UpsertPoints(s, ChunksOf(request[r].text, s.scope))
  BY <1>1, <1>2, <1>4, UpsertEffect
<1>5. CASE request[r].at = "deleting" /\ Delete(s, request[r].filter)
  BY <1>1, <1>5, DeleteEffect DEF Reaches
<1>6. CASE UNCHANGED <<points, visible>>
  BY <1>1, <1>6, PointsUnchanged
<1>7. \/ request[r].at = "clearing" /\ Delete(s, Everything)
      \/ request[r].at = "upserting" /\ UpsertPoints(s, ChunksOf(request[r].text, s.scope))
      \/ request[r].at = "deleting" /\ Delete(s, request[r].filter)
      \/ UNCHANGED <<points, visible>>
  BY <1>2 DEF QdrantFails, Everything
<1> QED BY <1>3, <1>4, <1>5, <1>6, <1>7

LEMMA InvQdrantFails ==
  ASSUME SourceInv, NEW r \in Requests, QdrantFails(r)
  PROVE  SourceInv'
<1>1. request[r].at \in {"clearing", "upserting", "deleting"} /\ Fails(r)
      /\ UNCHANGED <<registry, starts>>
  BY DEF QdrantFails
<1>2. request[r] # Idle
  BY <1>1, InPhaseIsBusy DEF Phases
<1>3. PICK s \in Sources : s = request[r].source
  BY <1>2, BusyIsActive
<1>4. PointsOK' /\ OnlySource(s) /\ (~Reaches(r) => points'[s] = points[s])
  BY <1>3, FailureEffect
<1>5. Ends(r) /\ clashed' = clashed
  BY <1>1 DEF Fails
<1>6. ~request[r].alone => s \in clashed'
  BY <1>2, <1>3, <1>5, NotAloneClashed
<1>7. CASE ~Reaches(r)
  <2>1. UNCHANGED <<told, given, unrecorded>>
    BY <1>1, <1>7 DEF Fails
  <2>2. Confined(s)
    BY <1>1, <1>4, <1>5, <2>1, ConfinedBy
  <2>3. request[r].alone => Settled(s)'
    BY <1>1, <1>2, <1>3, <1>4, <1>5, <1>7, <2>1, AloneSettled, SettledKept
  <2> QED BY <1>2, <1>3, <1>5, <1>6, <2>2, <2>3, EndsKeeps
<1>8. CASE Reaches(r)
  <2>1. /\ told' = [told EXCEPT ![s] = "unknown"] /\ given' = [given EXCEPT ![s] = "unknown"]
        /\ unrecorded' = unrecorded \cup {s}
    BY <1>1, <1>3, <1>8 DEF Fails
  <2>2. "unknown" \in Answers \ BlankTexts /\ "unknown" \notin Texts
    BY SourceConstants DEF Answers, BlankTexts
  <2>3. Confined(s)
    BY <1>1, <1>4, <1>5, <2>1, <2>2, ConfinedBy
  <2>4. told'[s] = "unknown" /\ given'[s] = "unknown"
    BY <2>1, RestTyped DEF RestOK
  <2>5. Settled(s)'
    BY <2>1, <2>2, <2>4 DEF Settled, Whole
  <2> QED BY <1>2, <1>3, <1>5, <1>6, <2>3, <2>5, EndsKeeps
<1> QED BY <1>7, <1>8

-----------------------------------------------------------------------------
(* Starts, the end of the process, Qdrant, and every step.                 *)

LEMMA InvStart ==
  ASSUME SourceInv, NEW r \in Requests, NEW s \in Sources, NEW filter \in Scope,
         NEW text \in Texts \cup {None}, NEW at \in {"chunking", "deleting"},
         Start(r, s, filter, text, at),
         at = "chunking" => filter = s.scope /\ text \in Texts
  PROVE  SourceInv'
<1> DEFINE alone == Busy(s) = {}
           new == [at |-> at, source |-> s, filter |-> filter, text |-> text, alone |-> alone]
           joined(q) == [request[q] EXCEPT !.alone = FALSE]
<1>1. /\ request[r] = Idle
      /\ request' = [q \in Requests |-> IF q = r THEN new
                       ELSE IF q \in Busy(s) THEN joined(q) ELSE request[q]]
      /\ clashed' = IF alone THEN clashed ELSE clashed \cup {s}
      /\ UNCHANGED <<points, visible, registry, told, given, unrecorded>>
      /\ starts < MaxStarts /\ starts' = starts + 1
  BY DEF Start
<1>2. alone \in BOOLEAN
  OBVIOUS
<1> HIDE DEF alone
<1>3. new \in Active
  BY <1>2 DEF Active, Phases
<1>4. /\ new \in Request /\ new # Idle /\ new.at = at /\ new.source = s
      /\ new.filter = filter /\ new.text = text /\ new.alone = alone
  BY <1>3, ActiveIsRequest
<1>5. \A q \in Busy(s) : q \in Requests /\ request[q] # Idle /\ request[q].source = s /\ q # r
  BY <1>1 DEF Busy
<1>6. ASSUME NEW q \in Busy(s)
      PROVE  /\ joined(q) \in Request /\ joined(q) # Idle /\ joined(q).at = request[q].at
             /\ joined(q).source = s /\ joined(q).filter = request[q].filter
             /\ joined(q).text = request[q].text /\ joined(q).alone = FALSE
  <2>1. request[q] \in Active
    BY <1>5, BusyIsActive
  <2>2. /\ joined(q) \in Active /\ joined(q).at = request[q].at
        /\ joined(q).source = request[q].source /\ joined(q).filter = request[q].filter
        /\ joined(q).text = request[q].text /\ joined(q).alone = FALSE
    BY <2>1 DEF Active
  <2> QED BY <2>2, <1>5, ActiveIsRequest
<1> HIDE DEF new, joined
<1>7. /\ request'[r] = new
      /\ \A q \in Requests \ {r} : q \in Busy(s) => request'[q] = joined(q)
      /\ \A q \in Requests \ {r} : q \notin Busy(s) => request'[q] = request[q]
  BY <1>1
<1>8. request' \in [Requests -> Request]
  BY <1>1, <1>4, <1>6, RestTyped
<1>9. PointsOK' /\ RestOK'
  <2>1. PointsOK'
    BY <1>1, RestTyped DEF PointsOK
  <2>2. clashed' \subseteq Sources /\ starts' \in 0..MaxStarts
    BY <1>1, RestTyped, SourceConstants DEF RestOK
  <2>3. /\ registry' \in [Sources -> Status] /\ unrecorded' \subseteq Sources
        /\ told' \in [Sources -> Answers] /\ given' \in [Sources -> Answers \ BlankTexts]
    BY <1>1, RestTyped DEF RestOK
  <2> QED BY <2>1, <2>2, <2>3 DEF RestOK
<1>10. \A q \in Requests \ {r} :
         /\ request'[q] # Idle <=> request[q] # Idle
         /\ request'[q] # Idle =>
              /\ request'[q].at = request[q].at /\ request'[q].source = request[q].source
              /\ request'[q].filter = request[q].filter /\ request'[q].text = request[q].text
              /\ request'[q].alone = (request[q].alone /\ q \notin Busy(s))
  <2> SUFFICES ASSUME NEW q \in Requests \ {r}
               PROVE  /\ request'[q] # Idle <=> request[q] # Idle
                      /\ request'[q] # Idle =>
                           /\ request'[q].at = request[q].at /\ request'[q].source = request[q].source
                           /\ request'[q].filter = request[q].filter /\ request'[q].text = request[q].text
                           /\ request'[q].alone = (request[q].alone /\ q \notin Busy(s))
    OBVIOUS
  <2>1. CASE q \in Busy(s)
    BY <2>1, <1>5, <1>6, <1>7
  <2>2. CASE q \notin Busy(s)
    <3>1. request'[q] = request[q]
      BY <2>2, <1>7
    <3>2. request[q] # Idle => request[q].alone \in BOOLEAN
      BY BusyIsActive DEF Active
    <3> QED BY <3>1, <3>2, <2>2
  <2> QED BY <2>1, <2>2
<1>11. IndexesOwn'
  <2> SUFFICES ASSUME NEW q \in Requests, request'[q].at \in Indexing
               PROVE  /\ request'[q].filter = request'[q].source.scope
                      /\ request'[q].text \in Texts
                      /\ request'[q].at # "chunking" => Size[request'[q].text] > 0
    BY DEF IndexesOwn
  <2>1. CASE q = r
    BY <2>1, <1>4, <1>7 DEF Indexing
  <2>2. CASE q # r
    <3>1. request'[q] # Idle
      BY InPhaseIsBusy DEF Indexing, Idle
    <3> QED BY <2>2, <3>1, <1>10 DEF SourceInv, IndexesOwn
  <2> QED BY <2>1, <2>2
<1>12. AloneIsAlone'
  <2> SUFFICES ASSUME NEW q \in Requests, NEW p \in Requests, request'[q] # Idle,
                      request'[p] # Idle, q # p, request'[q].source = request'[p].source
               PROVE  ~request'[q].alone
    BY DEF AloneIsAlone
  <2>1. CASE q = r
    <3>1. p # r /\ request[p] # Idle /\ request[p].source = s
      BY <2>1, <1>4, <1>7, <1>10
    <3>2. p \in Busy(s)
      BY <3>1 DEF Busy
    <3> QED BY <2>1, <3>2, <1>4, <1>7 DEF alone
  <2>2. CASE q # r /\ p = r
    <3>1. q \in Busy(s)
      BY <2>2, <1>4, <1>7, <1>10 DEF Busy
    <3> QED BY <2>2, <3>1, <1>10
  <2>3. CASE q # r /\ p # r
    <3>1. request[q] # Idle /\ request[p] # Idle /\ request[q].source = request[p].source
      BY <2>3, <1>10
    <3>2. ~request[q].alone
      BY <3>1 DEF SourceInv, AloneIsAlone
    <3> QED BY <2>3, <3>2, <1>10
  <2> QED BY <2>1, <2>2, <2>3
<1>13. UnclashedAlone'
  <2> SUFFICES ASSUME NEW q \in Requests, request'[q] # Idle, ~request'[q].alone
               PROVE  request'[q].source \in clashed'
    BY DEF UnclashedAlone
  <2>1. CASE q = r
    BY <2>1, <1>1, <1>4, <1>7
  <2>2. CASE q # r /\ q \in Busy(s)
    <3>1. ~alone /\ request'[q].source = s
      BY <2>2, <1>5, <1>10 DEF alone
    <3> QED BY <3>1, <1>1
  <2>3. CASE q # r /\ q \notin Busy(s)
    <3>1. request'[q].source \in clashed
      BY <2>3, <1>10, NotAloneClashed
    <3> QED BY <3>1, <1>1
  <2> QED BY <2>1, <2>2, <2>3
<1>14. PhaseFacts'
  <2> SUFFICES ASSUME NEW q \in Requests, request'[q] # Idle, request'[q].alone
               PROVE  /\ request'[q].at = "upserting" => points'[request'[q].source] = NoChunks
                      /\ request'[q].at = "recording" =>
                           points'[request'[q].source] = ChunksOf(request'[q].text, request'[q].source.scope)
                      /\ request'[q].at = "marking" /\ Reaches(q)' => points'[request'[q].source] = NoChunks
    BY DEF PhaseFacts
  <2>1. CASE q = r
    BY <2>1, <1>4, <1>7
  <2>2. CASE q # r
    <3>1. q \notin Busy(s) /\ request'[q] = request[q]
      BY <2>2, <1>7, <1>10
    <3> QED BY <3>1, <1>1 DEF SourceInv, PhaseFacts, Reaches
  <2> QED BY <2>1, <2>2
<1>15. ASSUME NEW t \in Sources, t \notin clashed', AsEnded(t)'
       PROVE  t \notin clashed /\ AsEnded(t)
  <2>1. t \notin clashed
    BY <1>1, <1>15
  <2>2. \A q \in Busy(t) : q # r /\ q \in Busy(t)' /\ request'[q].at = request[q].at
                          /\ (Reaches(q)' <=> Reaches(q))
    BY <1>1, <1>10 DEF Busy, Reaches
  <2>3. AsEnded(t)
    BY <1>15, <2>2 DEF AsEnded
  <2> QED BY <2>1, <2>3
<1>16. \A t \in Sources : (Whole(t) => Whole(t)') /\ (Registered(t) => Registered(t)')
  BY <1>1 DEF Whole, Registered
<1>17. WholeAsEnded' /\ RegisteredAsEnded'
  <2>1. WholeAsEnded /\ RegisteredAsEnded
    BY DEF SourceInv
  <2>2. WholeAsEnded'
    BY <1>15, <1>16, <2>1 DEF WholeAsEnded
  <2>3. RegisteredAsEnded'
    BY <1>1, <1>15, <1>16, <2>1 DEF RegisteredAsEnded
  <2> QED BY <2>2, <2>3
<1> QED BY <1>8, <1>9, <1>11, <1>12, <1>13, <1>14, <1>17, InvPartsNext

LEMMA InvIndexStarts ==
  ASSUME SourceInv, NEW r \in Requests, NEW user \in Users \cup {None},
         NEW session \in Sessions \cup {None}, NEW name \in Names, NEW text \in Texts,
         IndexStarts(r, user, session, name, text)
  PROVE  SourceInv'
<1> DEFINE scope == ResolveScope(user, session)
<1>1. /\ scope \in Owners
      /\ Start(r, SourceOf(scope, name), scope, text, "chunking")
  BY DEF IndexStarts
<1> HIDE DEF scope
<1>2. SourceOf(scope, name) \in Sources /\ SourceOf(scope, name).scope = scope
  BY <1>1 DEF SourceOf, Sources
<1>3. scope \in Scope
  BY <1>1, OwnersAreScopes
<1> QED BY <1>1, <1>2, <1>3, InvStart

LEMMA InvDeleteStarts ==
  ASSUME SourceInv, NEW r \in Requests, NEW s \in Sources, NEW caller \in {"http", "agent"},
         NEW user \in Users \cup {None}, NEW session \in Sessions \cup {None},
         DeleteStarts(r, s, caller, user, session)
  PROVE  SourceInv'
<1> DEFINE filter == DeleteFilter(caller, user, session)
<1>1. Start(r, s, filter, None, "deleting")
  BY DEF DeleteStarts
<1>2. filter \in Scope
  BY DEF DeleteFilter, ResolveScope, Scope
<1> HIDE DEF filter
<1> QED BY <1>1, <1>2, InvStart

\* The gateway ends: what requests had begun to change is unknown.
LEMMA InvCrash ==
  ASSUME SourceInv, Crash
  PROVE  SourceInv'
<1> DEFINE cut == {request[r].source : r \in {q \in Requests : request[q] # Idle /\ Reaches(q)}}
<1>1. /\ request' = [r \in Requests |-> Idle]
      /\ told' = [s \in Sources |-> IF s \in cut THEN "unknown" ELSE told[s]]
      /\ given' = [s \in Sources |-> IF s \in cut THEN "unknown" ELSE given[s]]
      /\ unrecorded' = unrecorded \cup cut
      /\ UNCHANGED <<points, visible, registry, clashed, starts>>
  BY DEF Crash
<1>2. cut \subseteq Sources
  BY BusyIsActive
<1>3. \A s \in Sources \ cut : AsEnded(s)
  BY DEF AsEnded, Busy
<1> HIDE DEF cut
<1>4. \A r \in Requests : request'[r] = Idle
  BY <1>1
<1>5. PointsOK' /\ RestOK'
  <2>1. PointsOK'
    BY <1>1, RestTyped DEF PointsOK
  <2>2. "unknown" \in Answers \ BlankTexts
    BY SourceConstants DEF Answers, BlankTexts
  <2>3. told' \in [Sources -> Answers] /\ given' \in [Sources -> Answers \ BlankTexts]
    BY <1>1, <2>2, RestTyped DEF RestOK
  <2> QED BY <1>1, <1>2, <2>1, <2>3, RestTyped DEF RestOK
<1>6. request' \in [Requests -> Request]
  BY <1>1, IdleIsRequest
<1>7. IndexesOwn' /\ AloneIsAlone' /\ UnclashedAlone' /\ PhaseFacts'
  BY <1>4, IdleIsRequest DEF IndexesOwn, Indexing, AloneIsAlone, UnclashedAlone, PhaseFacts
<1>8. WholeAsEnded'
  <2> SUFFICES ASSUME NEW s \in Sources, s \notin clashed'
               PROVE  Whole(s)'
    BY DEF WholeAsEnded
  <2>1. CASE s \in cut
    BY <1>1, <2>1, SourceConstants DEF Whole
  <2>2. CASE s \notin cut
    BY <1>1, <1>3, <2>2 DEF SourceInv, WholeAsEnded, Whole
  <2> QED BY <2>1, <2>2
<1>9. RegisteredAsEnded'
  <2> SUFFICES ASSUME NEW s \in Sources, s \notin clashed' \cup unrecorded'
               PROVE  Registered(s)'
    BY DEF RegisteredAsEnded
  <2> QED BY <1>1, <1>3 DEF SourceInv, RegisteredAsEnded, Registered
<1> QED BY <1>5, <1>6, <1>7, <1>8, <1>9, InvPartsNext

\* A step that changes at most what searches see.
LEMMA InvVisible ==
  ASSUME SourceInv, visible' \in [Sources -> Slots],
         UNCHANGED <<points, registry, request, history, starts>>
  PROVE  SourceInv'
<1>1. PointsOK' /\ RestOK' /\ request' \in [Requests -> Request]
  BY RestTyped DEF PointsOK, RestOK, history
<1>2. IndexesOwn' /\ AloneIsAlone' /\ UnclashedAlone' /\ PhaseFacts'
  BY DEF SourceInv, IndexesOwn, AloneIsAlone, UnclashedAlone, PhaseFacts, Reaches, history
<1>3. \A s : AsEnded(s)' <=> AsEnded(s)
  BY DEF AsEnded, Busy, Reaches
<1>4. WholeAsEnded' /\ RegisteredAsEnded'
  BY <1>3 DEF SourceInv, WholeAsEnded, RegisteredAsEnded, Whole, Registered, history
<1> QED BY <1>1, <1>2, <1>4, InvPartsNext

LEMMA InvApply ==
  ASSUME SourceInv, NEW s \in Sources, Apply(s)
  PROVE  SourceInv'
<1>1. visible' \in [Sources -> Slots]
  BY RestTyped DEF Apply, PointsOK
<1> QED BY <1>1, InvVisible DEF Apply

LEMMA InvInit ==
  ASSUME Init
  PROVE  SourceInv
<1>1. /\ points = [s \in Sources |-> NoChunks] /\ visible = points
      /\ registry = [s \in Sources |-> "none"]
      /\ request = [r \in Requests |-> Idle]
      /\ clashed = {} /\ unrecorded = {} /\ starts = 0
      /\ told = [s \in Sources |-> "nothing"] /\ given = [s \in Sources |-> "nothing"]
  BY DEF Init
<1>2. PointsOK
  BY <1>1, NoChunksAreChunks DEF PointsOK
<1>3. RestOK
  BY <1>1, SourceConstants DEF RestOK, Status, Answers, BlankTexts
<1>4. request \in [Requests -> Request] /\ \A r \in Requests : request[r] = Idle
  BY <1>1, IdleIsRequest
<1>5. IndexesOwn /\ AloneIsAlone /\ UnclashedAlone /\ PhaseFacts
  BY <1>4, IdleIsRequest DEF IndexesOwn, Indexing, AloneIsAlone, UnclashedAlone, PhaseFacts
<1>6. \A s \in Sources : Whole(s) /\ Registered(s)
  BY <1>1, SourceConstants DEF Whole, Registered
<1> QED BY <1>2, <1>3, <1>4, <1>5, <1>6, InvParts DEF WholeAsEnded, RegisteredAsEnded

LEMMA InvRequestStep ==
  ASSUME SourceInv, NEW r \in Requests, RequestStep(r)
  PROVE  SourceInv'
<1>1. CASE \E user \in Users \cup {None}, session \in Sessions \cup {None},
             name \in Names, text \in Texts : IndexStarts(r, user, session, name, text)
  BY <1>1, InvIndexStarts
<1>2. CASE \E user \in Users \cup {None}, session \in Sessions \cup {None},
             s \in Sources, caller \in {"http", "agent"} : DeleteStarts(r, s, caller, user, session)
  BY <1>2, InvDeleteStarts
<1>3. CASE IndexChunks(r)
  BY <1>3, InvIndexChunks
<1>4. CASE IndexRefused(r)
  BY <1>4, InvEndsEarly DEF IndexRefused
<1>5. CASE IndexClears(r)
  BY <1>5, InvIndexClears
<1>6. CASE IndexUpserts(r)
  BY <1>6, InvIndexUpserts
<1>7. CASE Record(r)
  BY <1>7, InvRecord
<1>8. CASE DeletePoints(r)
  BY <1>8, InvDeletePoints
<1>9. CASE MarkDeleted(r)
  BY <1>9, InvMarkDeleted
<1>10. CASE QdrantFails(r)
  BY <1>10, InvQdrantFails
<1>11. CASE RegistryFails(r)
  BY <1>11, InvRegistryFails
<1>12. CASE IndexBlank(r)
  BY <1>12, InvIndexBlank
<1> QED BY <1>1, <1>2, <1>3, <1>4, <1>5, <1>6, <1>7, <1>8, <1>9, <1>10, <1>11, <1>12 DEF RequestStep

LEMMA InvNext ==
  ASSUME SourceInv, [Next]_vars
  PROVE  SourceInv'
<1>1. ASSUME NEW r \in Requests, RequestStep(r)
      PROVE  SourceInv'
  BY <1>1, InvRequestStep
<1>2. ASSUME NEW s \in Sources, Apply(s)
      PROVE  SourceInv'
  BY <1>2, InvApply
<1>3. CASE Crash
  BY <1>3, InvCrash
<1>4. CASE UNCHANGED vars
  <2>1. visible' \in [Sources -> Slots]
    BY <1>4, RestTyped DEF vars, PointsOK
  <2> QED BY <1>4, <2>1, InvVisible DEF vars
<1> QED BY <1>1, <1>2, <1>3, <1>4 DEF Next

-----------------------------------------------------------------------------
(* What the theorems say of sources.                                       *)

\* Whatever requests do at once, fail or crash, every variable has its type,
\* who is alone on a source is known, and what the last of them left of it.
THEOREM SourceInvariant == Spec => []SourceInv
<1>1. Init => SourceInv
  BY InvInit
<1>2. SourceInv /\ [Next]_vars => SourceInv'
  BY InvNext
<1> QED BY <1>1, <1>2, PTL DEF Spec

\* The variables of the sources have their types, and the chunks of a source
\* are numbered without a gap, in every behaviour.
THEOREM SourceTypes == Spec => []TypeOK
<1>1. SourceInv => TypeOK
  BY DEF SourceInv
<1> QED BY <1>1, SourceInvariant, PTL

\* SourceManager and Indexer leave of a source, which no two requests worked
\* on at once since one had it to itself, the whole text that its last caller
\* was told is indexed; and after a text of which cleaning leaves nothing, the
\* whole text before it.
THEOREM SourcesWhole == Spec => []SourceIsWhole
<1>1. SourceInv => SourceIsWhole
  BY DEF SourceInv, WholeAsEnded, AsEnded, SourceIsWhole
<1> QED BY <1>1, SourceInvariant, PTL

\* SourceCatalog lists a source if and only if it has chunks, as far as the
\* registry was told and Qdrant has applied what it acknowledged.
THEOREM CatalogTruthful == Spec => []ListsWhatIsThere
<1>1. ASSUME SourceInv
      PROVE  ListsWhatIsThere
  <2> SUFFICES ASSUME NEW s \in Sources \ (clashed \cup unrecorded), Busy(s) = {},
                      visible[s] = points[s]
               PROVE  /\ registry[s] = "active" <=> points[s] # NoChunks
                      /\ s \in Listed(s.scope) <=> points[s] # NoChunks
    BY DEF ListsWhatIsThere
  <2>1. registry[s] = "active" <=> points[s] # NoChunks
    BY <1>1 DEF SourceInv, RegisteredAsEnded, AsEnded, Registered
  <2>2. Matches(s.scope, s.scope)
    BY SourceScope, MatchesItself
  <2> DEFINE active  == {t \in Sources : registry[t] = "active" /\ Matches(t.scope, s.scope)}
             scanned == {t \in Sources : visible[t] # NoChunks /\ Matches(t.scope, s.scope)}
  <2>3. Listed(s.scope) = IF active # {} THEN active ELSE scanned
    BY DEF Listed
  <2>4. s \in active <=> points[s] # NoChunks
    BY <2>1, <2>2
  <2>5. s \in scanned <=> points[s] # NoChunks
    BY <2>2
  <2> HIDE DEF active, scanned
  <2> QED BY <2>1, <2>3, <2>4, <2>5
<1> QED BY <1>1, SourceInvariant, PTL

\* A request that changes the points of a source works on it, within its scope,
\* and goes on or ends.
LEMMA ChangesOwn ==
  ASSUME SourceInv, NEW r \in Requests, RequestStep(r), NEW t \in Sources,
         points'[t] # points[t]
  PROVE  r \in Busy(t) /\ request'[r] # request[r] /\ Matches(t.scope, request[r].filter)
<1>1. /\ request[r].at \in {"clearing", "upserting", "deleting"}
      /\ Ends(r) \/ \E at \in {"upserting", "recording", "marking"} : at # request[r].at /\ Moves(r, at)
      /\ IndexClears(r) \/ IndexUpserts(r) \/ DeletePoints(r) \/ QdrantFails(r)
  <2>1. IndexClears(r) \/ IndexUpserts(r) \/ DeletePoints(r) \/ QdrantFails(r)
    <3>1. ASSUME NEW user, NEW session, NEW name, NEW text, IndexStarts(r, user, session, name, text)
          PROVE  FALSE
      BY <3>1 DEF IndexStarts, Start
    <3>2. ASSUME NEW s, NEW caller, NEW user, NEW session, DeleteStarts(r, s, caller, user, session)
          PROVE  FALSE
      BY <3>2 DEF DeleteStarts, Start
    <3>3. ~(IndexChunks(r) \/ IndexBlank(r) \/ IndexRefused(r))
      BY DEF IndexChunks, IndexBlank, IndexRefused, Fails
    <3>4. ~(Record(r) \/ MarkDeleted(r) \/ RegistryFails(r))
      BY DEF Record, MarkDeleted, RegistryFails, Fails
    <3> QED BY <3>1, <3>2, <3>3, <3>4 DEF RequestStep
  <2>2. CASE IndexClears(r)
    BY <2>2 DEF IndexClears
  <2>3. CASE IndexUpserts(r)
    BY <2>3 DEF IndexUpserts
  <2>4. CASE DeletePoints(r)
    BY <2>4 DEF DeletePoints
  <2>5. CASE QdrantFails(r)
    BY <2>5 DEF QdrantFails, Fails
  <2> QED BY <2>1, <2>2, <2>3, <2>4, <2>5
<1>2. request[r] # Idle
  BY <1>1, InPhaseIsBusy DEF Phases
<1>3. PICK s \in Sources : s = request[r].source
  BY <1>2, BusyIsActive
<1>4. OnlySource(s) /\ (~Reaches(r) => points'[s] = points[s])
  <2>1. PointsOK
    BY RestTyped
  <2>2. CASE IndexClears(r) \/ IndexUpserts(r)
    <3>1. Reaches(r) /\ request[r].filter = s.scope /\ request[r].text \in Texts
      BY <2>2, <1>3, IndexFacts DEF IndexClears, IndexUpserts, Indexing
    <3>2. Delete(s, Everything) \/ UpsertPoints(s, ChunksOf(request[r].text, s.scope))
      BY <2>2, <1>3, <3>1 DEF IndexClears, IndexUpserts, Everything
    <3>3. Delete(s, Everything) => OnlySource(s)
      BY <2>1, DeleteEffect
    <3>4. UpsertPoints(s, ChunksOf(request[r].text, s.scope)) => OnlySource(s)
      BY <2>1, <3>1, UpsertEffect
    <3>5. OnlySource(s)
      BY <3>2, <3>3, <3>4
    <3> QED BY <3>1, <3>5
  <2>3. CASE DeletePoints(r)
    <3>1. Delete(s, request[r].filter)
      BY <2>3, <1>3 DEF DeletePoints
    <3> QED BY <1>3, <2>1, <3>1, DeleteEffect DEF Reaches
  <2>4. CASE QdrantFails(r)
    BY <2>4, <1>3, FailureEffect
  <2> QED BY <1>1, <2>2, <2>3, <2>4
<1>5. t = s /\ Reaches(r)
  BY <1>4 DEF OnlySource
<1>6. request'[r] # request[r]
  <2>1. CASE Ends(r)
    BY <2>1, <1>2, RestTyped DEF Ends
  <2>2. CASE \E at \in {"upserting", "recording", "marking"} : at # request[r].at /\ Moves(r, at)
    <3>1. PICK at \in {"upserting", "recording", "marking"} : at # request[r].at /\ Moves(r, at)
      BY <2>2
    <3>2. request'[r] = [request[r] EXCEPT !.at = at]
      BY <3>1, RestTyped DEF Moves
    <3>3. request[r] \in Active
      BY <1>2, BusyIsActive
    <3>4. request'[r].at = at
      BY <3>2, <3>3 DEF Active
    <3> QED BY <3>1, <3>4
  <2> QED BY <1>1, <2>1, <2>2
<1> QED BY <1>2, <1>3, <1>5, <1>6 DEF Busy, Reaches

\* No request of SourceManager or Indexer, whichever source it names, changes
\* the chunks of a source outside the scope it was resolved to.
THEOREM ScopesApart == Spec => OthersUntouched
<1>1. ASSUME SourceInv, [Next]_vars
      PROVE  [\A s \in Sources :
                points'[s] # points[s] =>
                  \E r \in Busy(s) :
                    request'[r] # request[r] /\ Matches(s.scope, request[r].filter)]_vars
  <2>1. ASSUME NEW r \in Requests, RequestStep(r), NEW s \in Sources, points'[s] # points[s]
        PROVE  \E q \in Busy(s) : request'[q] # request[q] /\ Matches(s.scope, request[q].filter)
    BY <1>1, <2>1, ChangesOwn
  <2>2. (\E s \in Sources : Apply(s)) \/ Crash \/ UNCHANGED vars => points' = points
    BY DEF Apply, Crash, vars
  <2> QED BY <1>1, <2>1, <2>2 DEF Next
<1> QED BY <1>1, SourceInvariant, PTL DEF Spec, OthersUntouched

=============================================================================
