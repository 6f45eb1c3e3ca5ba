----------------------------- MODULE MCKnowledge -----------------------------
(***************************************************************************)
(* Finite instances of the modules behind an answer from the knowledge     *)
(* base or the web, for TLC: one of them runs, and the others stay in      *)
(* their first state.                                                      *)
(***************************************************************************)
EXTENDS KnowledgeSources, KnowledgeTurn, Chunking, WebSearch, SearchCache, TLC

VARIABLE part   \* which module runs

\* A long text, a short one, and one of which cleaning leaves nothing.
MCTexts == {"long", "short", "blank"}
MCSize == [t \in MCTexts |-> CASE t = "long" -> 2 [] t = "short" -> 1 [] OTHER -> 0]

\* Two chunks say the same, one belongs to another session, one to another
\* user, and one is not relevant.
Point(user, chat, source, content, relevant) ==
  [user |-> user, chat |-> chat, source |-> source, content |-> content, relevant |-> relevant]
MCChunks ==
  {Point("u1", "s1", "a", "x", TRUE), Point("u1", "s1", "b", "x", TRUE),
   Point("u1", "s2", "a", "y", TRUE), Point("u2", "s2", "a", "z", TRUE),
   Point("u1", "s1", "b", "w", FALSE)}
MCChunkRunes == [x |-> 2, y |-> 3, z |-> 1, w |-> 1]

\* Tokens of each kind, and one that no chunk can hold.
Kinds == {<<2, "none", "space">>, <<7, "none", "line">>, <<3, "clause", "none">>,
          <<4, "sentence", "space">>, <<14, "none", "space">>}
KindsUpTo(n) == UNION {[1..k -> Kinds] : k \in 1..n}
Tokens(first, kinds) ==
  [i \in DOMAIN kinds |-> [id |-> first + i, from |-> 1, to |-> kinds[i][1],
                           ends |-> kinds[i][2], after |-> kinds[i][3]]]
TextLines(first, kinds) ==
  LET parts == Cut(Tokens(first, kinds), "line")
  IN  [i \in DOMAIN parts |-> [kind |-> "text", text |-> parts[i]]]
Line(kind, first, runes) ==
  [kind |-> kind, text |-> Tokens(first, <<<<runes, "none", "line">>>>)]
Blank == [kind |-> "blank", text |-> <<>>]
MCDocuments ==
  [format : {"plain", "markdown"},
   lines : {TextLines(0, a) : a \in KindsUpTo(3)}
           \cup {<<Line(first, 0, n), Blank>> \o TextLines(10, b) \o <<Line(second, 20, 2), Blank>>
                   \o TextLines(30, c)
                   : first \in {"text", "heading"}, n \in {2, 7}, b \in KindsUpTo(2),
                     second \in {"text", "heading", "break"}, c \in KindsUpTo(1)}
           \cup {<<Line("heading", 0, 2), Line("text", 1, n), Line("backticks", 2, 1), Line("heading", 3, n),
                   Line(fence, 4, 1), Line("heading", 5, n), Line("backticks", 6, 1), Line("text", 7, n)>>
                   : n \in {2, 7}, fence \in {"backticks", "tildes"}}]

-----------------------------------------------------------------------------
PartInit ==
  /\ part \in {"sources", "turn", "chunking", "web", "cache"}
  /\ Init
  /\ part = "turn" => TurnInit
  /\ part # "turn" =>
       /\ reranker = "none" /\ turn = NewTurn
       /\ ask = [user |-> NoAsker, chat |-> NoChatId, sources |-> {}, retriever |-> FALSE]
  /\ chunks = Uncut
  /\ document \in IF part = "chunking" THEN MCDocuments
                  ELSE {[format |-> "plain", lines |-> TextLines(0, <<<<2, "none", "space">>>>)]}
  /\ WebInit
  /\ CacheInit

PartNext ==
  \/ part = "sources" /\ Next /\ UNCHANGED <<part, turnVars, chunkVars, webVars, cacheVars>>
  \/ part = "turn" /\ TurnNext /\ UNCHANGED <<part, vars, chunkVars, webVars, cacheVars>>
  \/ part = "chunking" /\ ChunkNext /\ UNCHANGED <<part, vars, turnVars, webVars, cacheVars>>
  \/ part = "web" /\ WebNext /\ UNCHANGED <<part, vars, turnVars, chunkVars, cacheVars>>
  \/ part = "cache" /\ CacheNext /\ UNCHANGED <<part, vars, turnVars, chunkVars, webVars>>

PartSpec == PartInit /\ [][PartNext]_<<part, vars, turnVars, chunkVars, webVars, cacheVars>>

\* Requests are interchangeable, and so are names: no definition orders them.
Symmetric == Permutations(Requests) \cup Permutations(Names)

=============================================================================
