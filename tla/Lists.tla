-------------------------------- MODULE Lists --------------------------------
(***************************************************************************)
(* Loops over slices of Go.  They are recursive functions, and the step of *)
(* a loop is a function too, so that what a loop keeps can be proved once, *)
(* for every step (MapTheorems).                                           *)
(***************************************************************************)
EXTENDS Naturals, Sequences

\* for _, x := range s { a = step(a, x) }
Looped(step, a, s) ==
  LET f[i \in 0..Len(s)] == IF i = 0 THEN a ELSE step[<<f[i - 1], s[i]>>]
  IN  f[Len(s)]

\* for _, x := range s { if x is in T { kept = append(kept, x) } }
Only(s, T) ==
  LET keep == [p \in Seq(T) \X {s[i] : i \in DOMAIN s} |->
                 IF p[2] \in T THEN Append(p[1], p[2]) ELSE p[1]]
  IN  Looped(keep, <<>>, s)

\* for i, x := range s { if i is in begins { flush() }; current = append(current, x) }
Grouped(s, begins) ==
  LET E == {s[i] : i \in DOMAIN s}
      add == [p \in Seq(Seq(E)) \X DOMAIN s |->
                IF p[1] = <<>> \/ p[2] \in begins THEN Append(p[1], <<s[p[2]]>>)
                ELSE [p[1] EXCEPT ![Len(p[1])] = Append(p[1][Len(p[1])], s[p[2]])]]
  IN  Looped(add, <<>>, [i \in DOMAIN s |-> i])

=============================================================================
