------------------------------ MODULE Chunking ------------------------------
(***************************************************************************)
(* How a text is cut into chunks: SplitText of internal/chunk/chunker.go,  *)
(* which indexing (ChunkText of internal/rag/chunker.go) and formatting    *)
(* (splitForLLM of internal/paragraph/paragraph.go) share.                 *)
(*                                                                         *)
(* A text is a sequence of stretches that no boundary divides.  A stretch  *)
(* has an id, the runes of it that the text has, the punctuation it ends   *)
(* with, and the white space after it.  A document is a sequence of lines, *)
(* and a chunk is a text: a window is a part of one stretch.               *)
(***************************************************************************)
EXTENDS Naturals, Sequences, SequencesExt, Lists

Stretch ==
  {t \in [id : Nat, from : Nat \ {0}, to : Nat,
          ends  : {"none", "clause", "sentence"},
          after : {"none", "space", "line", "blank"}] : t.from <= t.to}

Text == Seq(Stretch)

Fences == {"backticks", "tildes"}

Lines == [kind : {"text", "blank", "heading", "break"} \cup Fences, text : Text]

Ids(text) == {text[i].id : i \in DOMAIN text}

\* The stretches of a text are in their order.
InOrder(text) == \A i, j \in DOMAIN text : i < j => text[i].id < text[j].id

\* Texts one after another.
Apart(texts) ==
  \A i, j \in DOMAIN texts : i < j => \A a \in Ids(texts[i]) : \A b \in Ids(texts[j]) : a < b

\* No two stretches could be one.
Divided(text) ==
  \A i \in DOMAIN text : i < Len(text) => text[i].ends # "none" \/ text[i].after # "none"

TextsOf(records) == [i \in DOMAIN records |-> records[i].text]

CONSTANTS
  Documents,      \* bound of the model: the documents that are cut
  MaxRunes, MinRunes, OverlapRunes

ASSUME ChunkConstants ==
  /\ MaxRunes \in Nat \ {0}
  /\ {MinRunes, OverlapRunes} \subseteq Nat
  /\ OverlapRunes < MaxRunes       \* normalizeConfig
  /\ \A d \in Documents :
       /\ d.format \in {"plain", "markdown"}
       /\ d.lines \in Seq(Lines)
       /\ Apart(TextsOf(d.lines))
       /\ \A i \in DOMAIN d.lines :
            /\ d.lines[i].kind = "blank" <=> d.lines[i].text = <<>>
            /\ InOrder(d.lines[i].text)
            /\ Divided(d.lines[i].text)

VARIABLES document, chunks

chunkVars == <<document, chunks>>

-----------------------------------------------------------------------------
(* Lengths, and texts joined.                                              *)

Gap(after) == IF after = "none" THEN 0 ELSE IF after = "blank" THEN 2 ELSE 1

RunesOf(t) == t.to + 1 - t.from

\* The runes of a text, with the white space after it.
WithGaps(text) ==
  LET add == [p \in Nat \X Stretch |-> p[1] + RunesOf(p[2]) + Gap(p[2].after)]
  IN  Looped(add, 0, text)

Runes(text) == IF text = <<>> THEN 0 ELSE WithGaps(text) - Gap(text[Len(text)].after)

\* Two texts with white space between them.
Joined(a, gap, b) ==
  IF a = <<>> \/ b = <<>> THEN a \o b
  ELSE [a EXCEPT ![Len(a)] = [a[Len(a)] EXCEPT !.after = gap]] \o b

\* strings.Join
AllJoined(texts, gap) ==
  LET join == [p \in Text \X Text |-> Joined(p[1], gap, p[2])]
  IN  Looped(join, <<>>, texts)

\* Variant: separators are not counted.
SepUncounted(counted, gap) == 0

\* The separator before the next text, if `counted` runes are in the chunk.
Sep(counted, gap) == IF counted = 0 THEN 0 ELSE Gap(gap)

\* The loop of packSegments and packUnits: where chunks of at most `max` runes
\* begin.  A text that is too long is one for itself.  After a flush packUnits
\* still counts the separator that was needed before it (`carried`), so that a
\* chunk may end two runes early.
Begins(texts, max, gap, carried) ==
  LET pack == [p \in [counted : Nat, begins : SUBSET Nat] \X DOMAIN texts |->
                 LET i    == p[2]
                     size == Runes(texts[i])
                     sep  == Sep(p[1].counted, gap)
                     all  == p[1].counted + sep + size
                 IN  IF size > max
                     THEN [counted |-> 0, begins |-> p[1].begins \cup {i, i + 1}]
                     ELSE IF all > max
                     THEN [counted |-> IF carried THEN sep + size ELSE size,
                           begins  |-> p[1].begins \cup {i}]
                     ELSE [counted |-> all, begins |-> p[1].begins]]
  IN  Looped(pack, [counted |-> 0, begins |-> {}], [i \in DOMAIN texts |-> i]).begins

-----------------------------------------------------------------------------
(* splitRecursive.                                                         *)

\* splitSentences, splitClauses, splitLines and splitWords: where they cut.
EndsPart(t, level) ==
  \/ level \in {"sentence", "clause"} /\ t.ends = level
  \/ level = "line" /\ t.after = "line"
  \/ level = "word" /\ t.after # "none"

\* The text divided after every stretch that ends a part.
Cut(text, level) == Grouped(text, {i \in 2..Len(text) : EndsPart(text[i - 1], level)})

\* splitSentences makes spaces of the line ends, which splitLines then misses.
OneLine(text) ==
  [i \in DOMAIN text |-> IF text[i].after = "line" THEN [text[i] EXCEPT !.after = "space"]
                         ELSE text[i]]

\* packSegments: neighbours are joined by a space while they fit.
PackSegments(segments, max) ==
  LET groups == Grouped(segments, Begins(segments, max, "space", FALSE))
  IN  [k \in DOMAIN groups |-> AllJoined(groups[k], "space")]

\* One level of splitRecursive; what is still too long goes to the next.
CutAt(text, level, max) ==
  LET segments == Cut(IF level = "sentence" THEN OneLine(text) ELSE text, level)
  IN  IF Runes(text) <= max \/ Len(segments) <= 1 THEN <<text>>
      ELSE PackSegments(segments, max)

EachCutAt(texts, level, max) == FlattenSeq([i \in DOMAIN texts |-> CutAt(texts[i], level, max)])

\* slidingChunks, for what no boundary divides: a stretch.  Windows overlap if
\* that leaves a step.  (Its loop ends after one window for each rune at most.)
Sliding(text, max) ==
  LET t == text[1]
      n == RunesOf(t)
      slide == [p \in [out : Seq(Text), start : Nat] \X (1..n) |->
                  LET start == p[1].start
                      end   == IF start + max > n THEN n ELSE start + max
                      next  == IF end > start + OverlapRunes THEN end - OverlapRunes
                               ELSE start + max
                      window == [t EXCEPT !.from = t.from + start, !.to = t.from + end - 1]
                  IN  IF start >= n THEN p[1]
                      ELSE [out |-> Append(p[1].out, <<window>>), start |-> next]]
  IN  Looped(slide, [out |-> <<>>, start |-> 0], [i \in 1..n |-> i]).out

\* What no level divides is cut into windows.
EachSlid(texts, max) ==
  FlattenSeq([i \in DOMAIN texts |-> IF Runes(texts[i]) <= max THEN <<texts[i]>>
                                    ELSE Sliding(texts[i], max)])

SplitRecursive(text, max) ==
  LET sentences == CutAt(text, "sentence", max)
      clauses   == EachCutAt(sentences, "clause", max)
      lines     == EachCutAt(clauses, "line", max)
  IN  EachSlid(EachCutAt(lines, "word", max), max)

-----------------------------------------------------------------------------
(* Blocks: Markdown blocks or paragraphs.                                  *)

\* splitMarkdownBlocks: where blocks begin.  A blank line ends one; a heading
\* and a thematic break are blocks of their own; but not in a fence, which
\* reaches to the next fence of its kind.  (A blank line in a fence, which makes
\* its gap longer, is not in the model.)
MarkdownBegins(lines) ==
  LET scan == [p \in [fence : Fences \cup {"none"}, begins : SUBSET Nat] \X DOMAIN lines |->
                 LET a    == p[1]
                     i    == p[2]
                     kind == lines[i].kind
                 IN  CASE a.fence # "none" /\ kind = a.fence ->
                            [fence |-> "none", begins |-> a.begins \cup {i + 1}]
                       [] a.fence # "none" /\ kind # a.fence -> a
                       [] a.fence = "none" /\ kind \in Fences -> [a EXCEPT !.fence = kind]
                       [] a.fence = "none" /\ kind = "blank" ->
                            [a EXCEPT !.begins = a.begins \cup {i + 1}]
                       [] a.fence = "none" /\ kind \in {"heading", "break"} ->
                            [a EXCEPT !.begins = a.begins \cup {i, i + 1}]
                       [] a.fence = "none" /\ kind = "text" -> a]
  IN  Looped(scan, [fence |-> "none", begins |-> {}], [i \in DOMAIN lines |-> i]).begins

\* splitParagraphs: a blank line ends a paragraph.
ParagraphBegins(lines) == {i + 1 : i \in {j \in DOMAIN lines : lines[j].kind = "blank"}}

Block == [heading : BOOLEAN, text : Text]

ToBlock(lines) ==
  [heading |-> lines[1].kind = "heading", text |-> AllJoined(TextsOf(lines), "line")]

Blocks(d) ==
  LET groups == Grouped(d.lines, IF d.format = "markdown" THEN MarkdownBegins(d.lines)
                                 ELSE ParagraphBegins(d.lines))
  IN  Only([k \in DOMAIN groups |-> ToBlock(groups[k])], {b \in Block : b.text # <<>>})

-----------------------------------------------------------------------------
(* Units.                                                                  *)

\* A unit is a sequence of blocks, with a blank line between them.
UnitText(unit) == AllJoined(TextsOf(unit), "blank")

\* splitMarkdownSections: a section starts at every heading.  A paragraph is a
\* unit of its own.
Units(d) ==
  LET blocks == Blocks(d)
  IN  Grouped(blocks, {i \in DOMAIN blocks : d.format = "plain" \/ blocks[i].heading})

\* packUnits; split[i] is what text i is split into if it is too long.
PackUnits(texts, max, split) ==
  LET groups == Grouped([i \in DOMAIN texts |-> i], Begins(texts, max, "blank", TRUE))
      Packs(g) == IF Runes(texts[g[1]]) > max THEN split[g[1]]
                  ELSE <<AllJoined([j \in DOMAIN g |-> texts[g[j]]], "blank")>>
  IN  FlattenSeq([k \in DOMAIN groups |-> Packs(groups[k])])

\* What a section may have besides its heading; the heading is repeated in
\* each of its chunks if that leaves more than a third.
Available(heading) ==
  LET taken == Runes(heading.text) + 2
  IN  IF MaxRunes > taken THEN MaxRunes - taken ELSE 0

Repeated(heading) == Available(heading) > MaxRunes \div 3

\* The heading before each of the texts.
Under(heading, texts) == [i \in DOMAIN texts |-> Joined(heading, "blank", texts[i])]

\* splitOversizedUnit and splitOversizedMarkdownUnit.  A heading that is too
\* long to be repeated is left out of the blocks, and with it of every chunk.
SplitUnit(unit) ==
  LET heading == unit[1]
      headed  == heading.heading /\ Repeated(heading)
      max     == IF headed THEN Available(heading) ELSE MaxRunes
      texts   == TextsOf(IF heading.heading THEN Tail(unit) ELSE unit)
      body    == PackUnits(texts, max, [i \in DOMAIN texts |-> SplitRecursive(texts[i], max)])
  IN  IF Len(unit) = 1 THEN SplitRecursive(heading.text, MaxRunes)
      ELSE IF headed THEN Under(heading.text, body)
      ELSE body

Packed(d) ==
  LET units == Units(d)
  IN  PackUnits([i \in DOMAIN units |-> UnitText(units[i])], MaxRunes,
                [i \in DOMAIN units |-> SplitUnit(units[i])])

\* filterChunks: chunks that are too short are dropped, unless all are.  (So are
\* those with few letters or digits in them; the stretches here are words.)
Kept(texts) ==
  LET good == Only(texts, {t \in Text : Runes(t) >= MinRunes})
  IN  IF good = <<>> THEN texts ELSE good

Uncut == <<<<>>>>

SplitText ==
  /\ chunks = Uncut
  /\ chunks' = Kept(Packed(document))
  /\ UNCHANGED document

-----------------------------------------------------------------------------
ChunkInit == document \in Documents /\ chunks = Uncut

ChunkNext == SplitText

ChunkSpec == ChunkInit /\ [][ChunkNext]_chunkVars

-----------------------------------------------------------------------------
(* Properties.                                                             *)

\* No chunk is longer than MaxRunes, whatever separators, repeated headings
\* and overlaps are put together, and none is empty.
ChunksFit ==
  chunks # Uncut => \A i \in DOMAIN chunks : Runes(chunks[i]) \in 1..MaxRunes

Points(text) == UNION {{text[i].id} \X (text[i].from..text[i].to) : i \in DOMAIN text}

\* Headings that splitOversizedMarkdownUnit leaves out.
LostHeadings ==
  LET units == Units(document)
      long  == {k \in DOMAIN units : /\ Len(units[k]) > 1 /\ units[k][1].heading
                                     /\ Runes(UnitText(units[k])) > MaxRunes
                                     /\ ~Repeated(units[k][1])}
  IN  {units[k][1].text : k \in long}

\* filterChunks drops none of the texts.
LongEnough(texts) == \A k \in DOMAIN texts : Runes(texts[k]) >= MinRunes

\* Every rune of the text is in a chunk, unless its chunk was dropped as too
\* short beside longer ones, or it belongs to the heading of a section that
\* does not fit into a chunk, when the heading leaves less than a third of one
\* (that heading is lost, although "chunks text by preserving high-level
\* structure first"); and a text that is not empty never loses all of its
\* chunks ("without dropping all non-empty content", rag/chunker.go).
TextIsKept ==
  LET lost == UNION {Points(h) : h \in LostHeadings}
      said == UNION {Points(chunks[k]) : k \in DOMAIN chunks}
  IN  chunks # Uncut =>
        \A i \in DOMAIN document.lines :
          /\ document.lines[i].text # <<>> => chunks # <<>>
          /\ LongEnough(Packed(document)) =>
               Points(document.lines[i].text) \subseteq said \cup lost

\* The last stretch of a text: the first ones of a chunk may be a repeated heading.
EndOf(text) == text[Len(text)]

EndsBefore(a, b) ==
  \/ EndOf(a).id < EndOf(b).id
  \/ EndOf(a).id = EndOf(b).id /\ EndOf(a).from < EndOf(b).from

\* The chunks are in the order of the text, and so is what each of them says;
\* only a repeated heading and the overlap of windows come twice.
TextInOrder ==
  chunks # Uncut =>
    /\ \A i, j \in DOMAIN chunks : i < j => EndsBefore(chunks[i], chunks[j])
    /\ \A i \in DOMAIN chunks : InOrder(chunks[i])

\* A line in the first fence, which may look like a heading, starts no section:
\* the fence is in one block (TestSplitTextMarkdownDoesNotSplitFenceWhenBlocksFit).
FencesAreWhole ==
  LET lines == document.lines
      fences == {k \in DOMAIN lines : lines[k].kind \in Fences}
      blocks == Blocks(document)
  IN  document.format = "markdown" =>
        \A i \in fences : \A j \in DOMAIN lines :
          (/\ i < j /\ \A k \in fences : k >= i
           /\ \A k \in i + 1..j - 1 : lines[k].kind # lines[i].kind) =>
            \E b \in DOMAIN blocks : \A k \in i..j : Ids(lines[k].text) \subseteq Ids(blocks[b].text)

ChunkInv == ChunksFit /\ TextIsKept /\ TextInOrder /\ FencesAreWhole

=============================================================================
