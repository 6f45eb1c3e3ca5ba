-------------------------------- MODULE Maps --------------------------------
(***************************************************************************)
(* Maps of Go: functions whose domain is the set of the keys present.      *)
(***************************************************************************)
EXTENDS Functions

\* m[k] = v
Put(f, k, v) == [x \in DOMAIN f \cup {k} |-> IF x = k THEN v ELSE f[x]]

\* delete(m, k) for every k in S
Drop(f, S) == Restrict(f, DOMAIN f \ S)

=============================================================================
