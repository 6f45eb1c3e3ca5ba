----------------------------- MODULE MCFileStore -----------------------------
(***************************************************************************)
(* Finite instances of FileStore for TLC.                                  *)
(***************************************************************************)
EXTENDS FileStore, TLC

\* No definition orders ids or snapshots.
Symmetric == Permutations(FileIds) \cup Permutations(Snapshots)

=============================================================================
