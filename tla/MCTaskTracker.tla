--------------------------- MODULE MCTaskTracker ---------------------------
(***************************************************************************)
(* A finite instance of TaskTracker for TLC, under its most general client.*)
(***************************************************************************)
EXTENDS TaskTracker, TLC

CONSTANTS a1, a2

MCOutputs == {EmptyOutput}

\* Ids are interchangeable, and so are the goroutines other than Main.
Symmetric == Permutations(Ids) \cup Permutations({a1, a2})

=============================================================================
