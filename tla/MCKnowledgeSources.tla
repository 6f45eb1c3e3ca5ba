------------------------- MODULE MCKnowledgeSources -------------------------
(***************************************************************************)
(* Finite instances of KnowledgeSources for TLC.                           *)
(***************************************************************************)
EXTENDS KnowledgeSources, TLC

\* A long text, a short one, and one of which cleaning leaves nothing.
MCTexts == {"long", "short", "blank"}
MCSize == [t \in MCTexts |-> CASE t = "long" -> 2 [] t = "short" -> 1 [] OTHER -> 0]

\* Requests are interchangeable, and so are names: no definition orders them.
Symmetric == Permutations(Requests) \cup Permutations(Names)

=============================================================================
