---------------------------- MODULE MapTheorems ----------------------------
(***************************************************************************)
(* What the operations on maps do, for every map; what sets of natural     *)
(* numbers have: a least member, and, if they are bounded, a greatest; and *)
(* what a loop over a slice keeps, what a filter picks from it, and into   *)
(* which groups it is divided.  With the least number for which something  *)
(* fails a proof does the induction over the length of the slice.          *)
(***************************************************************************)
EXTENDS Maps, Lists, Naturals, SequenceTheorems, WellFoundedInduction, TLAPS

\* Drop removes the entries of S and touches no other.
THEOREM DropEntries ==
  ASSUME NEW f, NEW S
  PROVE  /\ DOMAIN Drop(f, S) = DOMAIN f \ S
         /\ \A x \in DOMAIN f \ S : Drop(f, S)[x] = f[x]
         /\ Drop(f, S) = [x \in DOMAIN f \ S |-> f[x]]
BY DEF Drop, Restrict

\* Numbers that there are have a least one.
LEMMA LeastNatural ==
  ASSUME NEW T \in SUBSET Nat, T # {}
  PROVE  \E n \in T : \A m \in T : n <= m
<1>1. IsWellFoundedOn(OpToRel(<, Nat), Nat)
  BY NatLessThanWellFounded, Zenon
<1>2. PICK n \in T : \A m \in T : ~(<<m, n>> \in OpToRel(<, Nat))
  BY <1>1, WFMin, Zenon
<1>3. \A m \in T : ~(m < n)
  BY <1>2 DEF OpToRel
<1> QED BY <1>3

\* The least bound of a set is a member of it.
LEMMA GreatestNatural ==
  ASSUME NEW T \in SUBSET Nat, T # {}, NEW b \in Nat, \A m \in T : m <= b
  PROVE  \E n \in T : \A m \in T : m <= n
<1> DEFINE Bounds == {k \in Nat : \A m \in T : m <= k}
<1>1. Bounds \in SUBSET Nat /\ Bounds # {}
  OBVIOUS
<1>2. PICK k \in Bounds : \A l \in Bounds : k <= l
  BY <1>1, LeastNatural
<1>3. k \in T
  <2> SUFFICES ASSUME k \notin T PROVE FALSE
    OBVIOUS
  <2>1. PICK m \in T : TRUE
    OBVIOUS
  <2>2. \A l \in T : l <= k /\ l # k /\ l \in Nat
    BY <1>2
  <2>3. k \in Nat /\ k - 1 \in Nat
    BY <1>2, <2>1, <2>2
  <2>4. \A l \in T : l <= k - 1
    BY <2>2, <2>3
  <2>5. k - 1 \in Bounds
    BY <2>3, <2>4
  <2> QED BY <1>2, <2>3, <2>5
<1> QED BY <1>2, <1>3

\* The values of a sequence are bounded.
LEMMA BoundedValues ==
  ASSUME NEW n \in Nat, NEW f \in [1..n -> Nat]
  PROVE  \E b \in Nat : \A i \in 1..n : f[i] <= b
<1> DEFINE Bounded(k) == \E b \in Nat : \A i \in 1..k : f[i] <= b
           Unbounded == {k \in 0..n : ~Bounded(k)}
<1>1. /\ Unbounded \in SUBSET Nat
      /\ \A k \in 0..n : k \in Unbounded <=> ~Bounded(k)
      /\ \A k \in Unbounded : k \in 0..n
  OBVIOUS
<1>2. Bounded(0)
  OBVIOUS
<1>3. ASSUME NEW k \in 1..n, Bounded(k - 1)
      PROVE  Bounded(k)
  <2>1. PICK b \in Nat : \A i \in 1..k - 1 : f[i] <= b
    BY <1>3
  <2>2. f[k] \in Nat
    OBVIOUS
  <2>3. PICK c \in Nat : c >= b /\ c >= f[k]
    BY <2>1, <2>2
  <2>4. ASSUME NEW i \in 1..k PROVE f[i] <= c
    <3>1. f[i] \in Nat /\ (i = k \/ i \in 1..k - 1)
      OBVIOUS
    <3> QED BY <2>1, <2>2, <2>3, <3>1
  <2> QED BY <2>4
<1> HIDE DEF Unbounded, Bounded
<1>4. Unbounded = {}
  <2> SUFFICES ASSUME Unbounded # {} PROVE FALSE
    OBVIOUS
  <2>1. PICK k \in Unbounded : \A l \in Unbounded : k <= l
    BY <1>1, LeastNatural
  <2>2. k \in 1..n /\ k - 1 \in 0..n /\ ~(k <= k - 1)
    BY <1>1, <1>2, <2>1
  <2>3. Bounded(k - 1)
    BY <1>1, <2>1, <2>2
  <2> QED BY <1>1, <1>3, <2>1, <2>2, <2>3
<1>5. Bounded(n)
  BY <1>1, <1>4
<1> QED BY <1>5 DEF Bounded

-----------------------------------------------------------------------------
(* Loops over slices.                                                      *)

\* f has the states of a loop.
LoopIs(f, step, a, s) ==
  /\ f[0] = a
  /\ \A i \in 1..Len(s) : f[i] = step[<<f[i - 1], s[i]>>]
  /\ Looped(step, a, s) = f[Len(s)]

\* A loop has states: the first, and after each element the one that the step
\* makes of the last.
LEMMA LoopStates ==
  ASSUME NEW A, NEW B, NEW step \in [A \X B -> A], NEW a \in A, NEW s \in Seq(B)
  PROVE  \E f \in [0..Len(s) -> A] : LoopIs(f, step, a, s)
<1>1. PICK n \in Nat : n = Len(s)
  OBVIOUS
<1>2. \A i \in 1..n : s[i] \in B
  BY <1>1, ElementOfSeq
<1> DEFINE Is(f, k) == f = [i \in 0..k |-> IF i = 0 THEN a ELSE step[<<f[i - 1], s[i]>>]]
           Typed(f, k) == f \in [0..k -> A]
           Has(k) == \E g : Is(g, k) /\ Typed(g, k)
           Failing == {k \in 0..n : ~Has(k)}
<1>3. Has(0)
  <2>1. PICK f : f = [i \in 0..0 |-> a]
    OBVIOUS
  <2>2. Is(f, 0) /\ Typed(f, 0)
    BY <2>1
  <2> QED BY <2>2
<1>4. ASSUME NEW k \in 1..n, Has(k - 1)
      PROVE  Has(k)
  <2>1. PICK f : Is(f, k - 1) /\ Typed(f, k - 1)
    BY <1>4
  <2>2. k - 1 \in 0..k - 1 /\ k \in Nat /\ \A i \in 0..k : i # k => i \in 0..k - 1
    OBVIOUS
  <2>3. PICK v \in A : v = step[<<f[k - 1], s[k]>>]
    BY <1>2, <2>1, <2>2
  <2>4. PICK g : g = [i \in 0..k |-> IF i = k THEN v ELSE f[i]]
    OBVIOUS
  <2>5. Typed(g, k)
    BY <2>1, <2>2, <2>4
  <2>6. ASSUME NEW i \in 0..k
        PROVE  g[i] = IF i = 0 THEN a ELSE step[<<g[i - 1], s[i]>>]
    <3>1. CASE i = k
      <4>1. i # 0 /\ i - 1 = k - 1 /\ k - 1 \in 0..k /\ k - 1 # k
        BY <3>1
      <4>2. g[i - 1] = f[k - 1] /\ g[i] = v
        BY <2>4, <3>1, <4>1
      <4> QED BY <2>3, <3>1, <4>1, <4>2
    <3>2. CASE i # k
      <4>1. i \in 0..k - 1 /\ (i # 0 => i - 1 \in 0..k /\ i - 1 # k)
        BY <3>2
      <4>2. g[i] = f[i] /\ (i # 0 => g[i - 1] = f[i - 1])
        BY <2>4, <3>2, <4>1
      <4>3. f[i] = IF i = 0 THEN a ELSE step[<<f[i - 1], s[i]>>]
        BY <2>1, <4>1
      <4> QED BY <4>2, <4>3
    <3> QED BY <3>1, <3>2
  <2>7. DOMAIN g = 0..k
    BY <2>4
  <2>8. g = [i \in 0..k |-> g[i]]
    BY <2>4
  <2>9. Is(g, k)
    BY <2>6, <2>8
  <2> HIDE DEF Is, Typed
  <2> QED BY <2>5, <2>9
<1>5. /\ Failing \in SUBSET Nat /\ \A k \in 0..n : k \in Failing <=> ~Has(k)
      /\ \A k \in Failing : k \in 0..n
  OBVIOUS
<1>6. Has(n)
  <2> HIDE DEF Failing, Has
  <2> SUFFICES ASSUME Failing # {} PROVE FALSE
    BY <1>5
  <2>1. PICK k \in Failing : \A l \in Failing : k <= l
    BY <1>5, LeastNatural
  <2>2. k \in 1..n /\ k - 1 \in 0..n /\ ~(k <= k - 1)
    BY <1>3, <1>5, <2>1
  <2>3. Has(k - 1)
    BY <1>5, <2>1, <2>2
  <2> QED BY <1>4, <1>5, <2>1, <2>2, <2>3
<1>7. PICK f : f = CHOOSE g : Is(g, n)
  OBVIOUS
<1>8. Is(f, n)
  BY <1>6, <1>7
<1>9. Looped(step, a, s) = f[n]
  BY <1>1, <1>7 DEF Looped
<1>10. \A i \in 0..n : f[i] = IF i = 0 THEN a ELSE step[<<f[i - 1], s[i]>>]
  BY <1>8
<1>11. DOMAIN f = 0..n /\ f = [i \in 0..n |-> f[i]]
  BY <1>8
<1> HIDE DEF Is, Has, Failing
<1>12. f[0] = a
  <2>1. 0 \in 0..n
    OBVIOUS
  <2> QED BY <1>10, <2>1, Zenon
<1>13. \A i \in 1..n : f[i] = step[<<f[i - 1], s[i]>>]
  <2> SUFFICES ASSUME NEW i \in 1..n PROVE f[i] = step[<<f[i - 1], s[i]>>]
    OBVIOUS
  <2>1. i \in 0..n /\ i # 0
    OBVIOUS
  <2> QED BY <1>10, <2>1, Zenon
<1>14. f \in [0..n -> A]
  <2> DEFINE Untyped == {k \in 0..n : f[k] \notin A}
  <2>1. Untyped \in SUBSET Nat
    OBVIOUS
  <2>2. Untyped = {}
    <3> SUFFICES ASSUME Untyped # {} PROVE FALSE
      OBVIOUS
    <3>1. PICK k \in Untyped : \A l \in Untyped : k <= l
      BY <2>1, LeastNatural
    <3>2. k \in 0..n /\ f[k] \notin A
      BY <3>1
    <3>3. k # 0
      BY <1>12, <3>2
    <3>4. k \in 1..n /\ k - 1 \in 0..n /\ ~(k <= k - 1)
      BY <3>2, <3>3
    <3>5. f[k - 1] \in A
      BY <3>1, <3>4
    <3>6. <<f[k - 1], s[k]>> \in A \X B
      BY <1>2, <3>4, <3>5
    <3>7. f[k] \in A
      BY <1>13, <3>4, <3>6
    <3> QED BY <3>2, <3>7
  <2>3. \A l \in 0..n : f[l] \in A
    BY <2>2
  <2> QED BY <1>11, <2>3
<1>15. LoopIs(f, step, a, s)
  BY <1>1, <1>9, <1>12, <1>13 DEF LoopIs
<1> QED BY <1>1, <1>14, <1>15

\* What holds before a loop, and is kept by every step, holds after it.
LEMMA LoopKeeps ==
  ASSUME NEW A, NEW B, NEW step \in [A \X B -> A], NEW a \in A, NEW s \in Seq(B)
  PROVE  \A I :
           /\ a \in I[0]
           /\ \A i \in 1..Len(s) :
                \A x \in A : x \in I[i - 1] => step[<<x, s[i]>>] \in I[i]
           => Looped(step, a, s) \in A /\ Looped(step, a, s) \in I[Len(s)]
<1>1. PICK n \in Nat : n = Len(s)
  OBVIOUS
<1>2. \E f \in [0..Len(s) -> A] : LoopIs(f, step, a, s)
  BY LoopStates, Zenon
<1>3. PICK f \in [0..n -> A] :
        /\ f[0] = a
        /\ \A i \in 1..n : f[i] = step[<<f[i - 1], s[i]>>]
        /\ Looped(step, a, s) = f[n]
  BY <1>1, <1>2 DEF LoopIs
<1> SUFFICES ASSUME NEW I, a \in I[0],
                    \A i \in 1..Len(s) :
                      \A x \in A : x \in I[i - 1] => step[<<x, s[i]>>] \in I[i]
             PROVE  Looped(step, a, s) \in A /\ Looped(step, a, s) \in I[Len(s)]
  OBVIOUS
<1> DEFINE Out == {k \in 0..n : f[k] \notin I[k]}
<1>4. Out \in SUBSET Nat
  OBVIOUS
<1>5. Out = {}
  <2> SUFFICES ASSUME Out # {} PROVE FALSE
    OBVIOUS
  <2>1. PICK k \in Out : \A l \in Out : k <= l
    BY <1>4, LeastNatural
  <2>2. k \in 0..n /\ f[k] \notin I[k]
    BY <2>1
  <2>3. k # 0
    BY <1>3, <2>2
  <2>4. k \in 1..n /\ k - 1 \in 0..n /\ ~(k <= k - 1)
    BY <2>2, <2>3
  <2>5. f[k - 1] \in I[k - 1] /\ f[k - 1] \in A
    BY <1>3, <2>1, <2>4
  <2>6. step[<<f[k - 1], s[k]>>] \in I[k]
    BY <1>1, <2>4, <2>5, Zenon
  <2>7. f[k] = step[<<f[k - 1], s[k]>>]
    BY <1>3, <2>4, Zenon
  <2> QED BY <2>2, <2>6, <2>7
<1>6. n \in 0..n
  OBVIOUS
<1>7. f[n] \in I[n] /\ f[n] \in A
  BY <1>3, <1>5, <1>6
<1> QED BY <1>1, <1>3, <1>7, Zenon

\* A loop over nothing, and a loop with one element more.
LEMMA LoopEmpty ==
  ASSUME NEW A, NEW B, NEW step \in [A \X B -> A], NEW a \in A
  PROVE  Looped(step, a, <<>>) = a
<1>1. PICK s \in Seq(B) : s = <<>> /\ Len(s) = 0
  BY EmptySeq
<1> DEFINE I == [i \in 0..0 |-> {a}]
<1>2. a \in I[0] /\ \A i \in 1..Len(s) : \A x \in A : x \in I[i - 1] => step[<<x, s[i]>>] \in I[i]
  BY <1>1
<1>3. I[0] = {a}
  OBVIOUS
<1> HIDE DEF I
<1>4. Looped(step, a, s) \in I[Len(s)]
  BY <1>2, LoopKeeps, Zenon
<1> QED BY <1>1, <1>3, <1>4

\* One more element is one more step of the loop.
LEMMA LoopAppend ==
  ASSUME NEW A, NEW B, NEW step \in [A \X B -> A], NEW a \in A, NEW s \in Seq(B), NEW x \in B
  PROVE  Looped(step, a, Append(s, x)) \in {step[<<Looped(step, a, s), x>>]}
<1>1. PICK n \in Nat : n = Len(s)
  OBVIOUS
<1>2. \E f \in [0..Len(s) -> A] : LoopIs(f, step, a, s)
  BY LoopStates, Zenon
<1>3. PICK f \in [0..n -> A] :
        /\ f[0] = a
        /\ \A i \in 1..n : f[i] = step[<<f[i - 1], s[i]>>]
        /\ Looped(step, a, s) = f[n]
  BY <1>1, <1>2 DEF LoopIs
<1>4. PICK q \in Seq(B) : q = Append(s, x)
  BY AppendProperties
<1>5. Len(q) = n + 1 /\ q[n + 1] = x /\ \A i \in 1..n : q[i] = s[i]
  BY <1>1, <1>4, AppendProperties
<1>6. PICK v : v = step[<<f[n], x>>]
  OBVIOUS
<1> DEFINE I == [i \in 0..n + 1 |-> IF i = n + 1 THEN {v} ELSE {f[i]}]
<1>7. I[n + 1] = {v} /\ \A i \in 0..n : I[i] = {f[i]}
  OBVIOUS
<1> HIDE DEF I
<1>8. a \in I[0]
  BY <1>3, <1>7
<1>9. ASSUME NEW i \in 1..Len(q), NEW y \in A, y \in I[i - 1]
      PROVE  step[<<y, q[i]>>] \in I[i]
  <2>1. i \in 1..n + 1 /\ i - 1 \in 0..n
    BY <1>5
  <2>2. y = f[i - 1]
    BY <1>7, <1>9, <2>1
  <2>3. CASE i = n + 1
    <3>1. i - 1 = n /\ q[i] = x
      BY <1>5, <2>3
    <3>2. step[<<y, q[i]>>] = v
      BY <1>6, <2>2, <3>1, Zenon
    <3> QED BY <1>7, <2>3, <3>2
  <2>4. CASE i # n + 1
    <3>1. i \in 1..n /\ i \in 0..n
      BY <2>1, <2>4
    <3>2. q[i] = s[i]
      BY <1>5, <3>1
    <3>3. step[<<y, q[i]>>] = f[i]
      BY <1>3, <2>2, <3>1, <3>2, Zenon
    <3> QED BY <1>7, <3>1, <3>3
  <2> QED BY <2>3, <2>4
<1>10. Looped(step, a, q) \in I[Len(q)]
  BY <1>8, <1>9, LoopKeeps, Zenon
<1>11. Looped(step, a, q) = v
  BY <1>5, <1>7, <1>10
<1>12. Looped(step, a, Append(s, x)) = step[<<Looped(step, a, s), x>>]
  BY <1>3, <1>4, <1>6, <1>11, Zenon
<1> QED BY <1>12

\* r are the elements of s[1..n] that are in T: element i is s[g[i]].
Picks(r, g, s, T, n) ==
  /\ g \in [1..Len(r) -> 1..n]
  /\ \A i \in 1..Len(r) : r[i] = s[g[i]]
  /\ \A i, j \in 1..Len(r) : i < j => g[i] < g[j]
  /\ \A j \in 1..n : s[j] \in T => \E i \in 1..Len(r) : g[i] = j

\* An element that passes the test is kept.
LEMMA PickOne ==
  ASSUME NEW s, NEW T, NEW n \in Nat \ {0}, s[n] \in T, NEW r \in Seq(T),
         NEW g, Picks(r, g, s, T, n - 1)
  PROVE  Append(r, s[n]) \in Seq(T) /\ \E h : Picks(Append(r, s[n]), h, s, T, n)
<1>1. PICK l \in Nat : l = Len(r)
  OBVIOUS
<1>2. PICK q \in Seq(T) : q = Append(r, s[n])
  BY AppendProperties
<1>3. Len(q) = l + 1 /\ q[l + 1] = s[n] /\ \A i \in 1..l : q[i] = r[i]
  BY <1>1, <1>2, AppendProperties
<1>4. PICK h : h = [i \in 1..l + 1 |-> IF i = l + 1 THEN n ELSE g[i]]
  OBVIOUS
<1>5. /\ g \in [1..l -> 1..n - 1]
      /\ \A i \in 1..l : r[i] = s[g[i]]
      /\ \A i, j \in 1..l : i < j => g[i] < g[j]
      /\ \A j \in 1..n - 1 : s[j] \in T => \E i \in 1..l : g[i] = j
  BY <1>1 DEF Picks
<1>6. h \in [1..l + 1 -> 1..n] /\ h[l + 1] = n /\ \A i \in 1..l : h[i] = g[i] /\ g[i] \in 1..n - 1
  BY <1>4, <1>5
<1>7. \A i \in 1..l + 1 : i \in 1..l \/ i = l + 1
  OBVIOUS
<1>8. \A i \in 1..l + 1 : q[i] = s[h[i]]
  <2>1. \A i \in 1..l : q[i] = s[h[i]]
    BY <1>3, <1>5, <1>6
  <2>2. q[l + 1] = s[h[l + 1]]
    BY <1>3, <1>6
  <2> QED BY <1>7, <2>1, <2>2
<1>9. \A i, j \in 1..l + 1 : i < j => h[i] < h[j]
  <2> SUFFICES ASSUME NEW i \in 1..l + 1, NEW j \in 1..l + 1, i < j
               PROVE  h[i] < h[j]
    OBVIOUS
  <2>1. i \in 1..l /\ h[i] = g[i] /\ g[i] \in 1..n - 1
    BY <1>6
  <2>2. CASE j \in 1..l
    BY <1>5, <1>6, <2>1, <2>2
  <2>3. CASE j = l + 1
    BY <1>6, <2>1, <2>3
  <2> QED BY <1>7, <2>2, <2>3
<1>10. ASSUME NEW j \in 1..n, s[j] \in T
       PROVE  \E i \in 1..l + 1 : h[i] = j
  <2>1. CASE j = n
    BY <1>6, <2>1
  <2>2. CASE j # n
    <3>1. PICK i \in 1..l : g[i] = j
      BY <1>5, <1>10, <2>2
    <3>2. i \in 1..l + 1 /\ h[i] = j
      BY <1>6, <3>1
    <3> QED BY <3>2
  <2> QED BY <2>1, <2>2
<1>11. Picks(q, h, s, T, n)
  BY <1>3, <1>6, <1>8, <1>9, <1>10 DEF Picks
<1> QED BY <1>2, <1>11

\* An element that does not pass is left out.
LEMMA PickNone ==
  ASSUME NEW s, NEW T, NEW n \in Nat \ {0}, s[n] \notin T, NEW r \in Seq(T),
         NEW g, Picks(r, g, s, T, n - 1)
  PROVE  Picks(r, g, s, T, n)
<1>1. g \in [1..Len(r) -> 1..n]
  BY DEF Picks
<1>2. ASSUME NEW j \in 1..n, s[j] \in T
      PROVE  \E i \in 1..Len(r) : g[i] = j
  <2>1. j \in 1..n - 1
    BY <1>2
  <2> QED BY <1>2, <2>1 DEF Picks
<1> QED BY <1>1, <1>2 DEF Picks

\* Only keeps elements in their order, those that are in T, and all of them.
LEMMA OnlyPicks ==
  ASSUME NEW B, NEW s \in Seq(B), NEW T
  PROVE  Only(s, T) \in Seq(T) /\ \E g : Picks(Only(s, T), g, s, T, Len(s))
<1> DEFINE E == {s[i] : i \in DOMAIN s}
           keep == [p \in Seq(T) \X E |-> IF p[2] \in T THEN Append(p[1], p[2]) ELSE p[1]]
           I == [n \in 0..Len(s) |-> {r \in Seq(T) : \E g : Picks(r, g, s, T, n)}]
<1>1. Only(s, T) = Looped(keep, <<>>, s)
  BY DEF Only
<1>2. s \in Seq(E)
  OBVIOUS
<1>3. \A r \in Seq(T) : \A x \in E : keep[<<r, x>>] = IF x \in T THEN Append(r, x) ELSE r
  OBVIOUS
<1>4. keep \in [Seq(T) \X E -> Seq(T)]
  OBVIOUS
<1>5. <<>> \in Seq(T)
  OBVIOUS
<1>6. Picks(<<>>, <<>>, s, T, 0)
  BY DEF Picks
<1> HIDE DEF keep
<1>7. ASSUME NEW i \in 1..Len(s), NEW r \in Seq(T), r \in I[i - 1]
      PROVE  keep[<<r, s[i]>>] \in I[i]
  <2>1. i \in Nat \ {0} /\ i - 1 \in 0..Len(s) /\ i \in 0..Len(s) /\ s[i] \in E
    BY <1>7
  <2>2. PICK g : Picks(r, g, s, T, i - 1)
    BY <1>7, <2>1
  <2> HIDE DEF E
  <2>3. ASSUME NEW q \in Seq(T), \E h : Picks(q, h, s, T, i)
        PROVE  q \in I[i]
    BY <2>1, <2>3
  <2> HIDE DEF I
  <2>4. CASE s[i] \in T
    <3>1. Append(r, s[i]) \in Seq(T) /\ \E h : Picks(Append(r, s[i]), h, s, T, i)
      BY <2>1, <2>2, <2>4, PickOne, Zenon
    <3>2. keep[<<r, s[i]>>] = Append(r, s[i])
      BY <1>3, <2>1, <2>4, Zenon
    <3> QED BY <2>3, <3>1, <3>2, Zenon
  <2>5. CASE s[i] \notin T
    <3>1. Picks(r, g, s, T, i)
      BY <2>1, <2>2, <2>5, PickNone, Zenon
    <3>2. keep[<<r, s[i]>>] = r
      BY <1>3, <2>1, <2>5, Zenon
    <3> QED BY <2>3, <3>1, <3>2, Zenon
  <2> QED BY <2>4, <2>5
<1>8. <<>> \in I[0]
  BY <1>5, <1>6
<1> HIDE DEF E, I
<1>9. Looped(keep, <<>>, s) \in Seq(T) /\ Looped(keep, <<>>, s) \in I[Len(s)]
  BY <1>2, <1>4, <1>5, <1>7, <1>8, LoopKeeps, Zenon
<1> QED BY <1>1, <1>9 DEF I

-----------------------------------------------------------------------------
(* Slices divided into groups.                                             *)

\* A function on 1..n is a sequence.
LEMMA FunctionIsSeq ==
  ASSUME NEW T, NEW n \in Nat, NEW f \in [1..n -> T]
  PROVE  f \in Seq(T) /\ Len(f) = n /\ DOMAIN f = 1..n
OBVIOUS

\* A part of a sequence with the element after it.
LEMMA PartAppend ==
  ASSUME NEW E, NEW s \in Seq(E), NEW m \in 1..Len(s), NEW n \in 1..Len(s), m <= n
  PROVE  /\ SubSeq(s, m, n - 1) \in Seq(E) /\ s[n] \in E
         /\ SubSeq(s, m, n) = Append(SubSeq(s, m, n - 1), s[n])
         /\ m = n => SubSeq(s, m, n) = <<s[n]>> /\ SubSeq(s, m, n - 1) = <<>>
<1>1. PICK l \in Nat : l = Len(s)
  OBVIOUS
<1>2. s[n] \in E /\ \A i \in 1..l : s[i] \in E
  BY <1>1, ElementOfSeq
<1>3. PICK k \in Int : k = n - 1
  OBVIOUS
<1>31. m \in Int /\ \A i \in m..k : s[i] \in E
  BY <1>1, <1>2, <1>3
<1>32. SubSeq(s, m, k) \in Seq(E)
  BY <1>31, SubSeqProperties, Zenon
<1>4. PICK p \in Seq(E) : p = SubSeq(s, m, n - 1)
  BY <1>3, <1>32
<1>5. SubSeq(s, m, n) = SubSeq(s, m, n - 1) \o <<s[n]>>
  BY <1>1, SubSeqRecursiveSecond
<1>6. Append(p, s[n]) = p \o <<s[n]>>
  BY <1>2, <1>4, AppendIsConcat
<1>7. SubSeq(s, m, n) = Append(SubSeq(s, m, n - 1), s[n])
  BY <1>4, <1>5, <1>6
<1>8. ASSUME m = n PROVE SubSeq(s, m, n - 1) = <<>>
  BY <1>1, <1>8, SubSeqEmpty
<1>9. Append(<<>>, s[n]) = <<s[n]>>
  OBVIOUS
<1> QED BY <1>2, <1>4, <1>7, <1>8, <1>9

\* The groups r of s[1..n]: group k ends with element b[k], and a group begins
\* at the members of `begins`, and nowhere else but at the first element.
GroupsAre(r, b, s, begins, n) ==
  /\ b \in [0..Len(r) -> 0..n] /\ b[0] = 0 /\ b[Len(r)] = n
  /\ \A k \in 1..Len(r) : r[k] = SubSeq(s, b[k - 1] + 1, b[k])
  /\ \A k, l \in 0..Len(r) : k < l => b[k] < b[l]
  /\ \A i \in 1..n : \E k \in 1..Len(r) : b[k - 1] < i /\ i <= b[k]
  /\ \A k \in 1..Len(r) - 1 : b[k] + 1 \in begins
  /\ \A k \in 1..Len(r) : \A i \in b[k - 1] + 2..b[k] : i \notin begins

\* An element that begins a group.
LEMMA NewGroup ==
  ASSUME NEW E, NEW s \in Seq(E), NEW r \in Seq(Seq(E)), NEW b, NEW begins, NEW n \in 1..Len(s),
         GroupsAre(r, b, s, begins, n - 1), r = <<>> \/ n \in begins
  PROVE  /\ Append(r, <<s[n]>>) \in Seq(Seq(E))
         /\ \E c : GroupsAre(Append(r, <<s[n]>>), c, s, begins, n)
<1>1. PICK l \in Nat : l = Len(r)
  OBVIOUS
<1>2. PICK w \in Nat : w = Len(s)
  OBVIOUS
<1>3. n \in 1..w /\ n - 1 \in Nat /\ n \in Nat
  BY <1>2
<1>4. PICK x \in Seq(E) : x = <<s[n]>> /\ x = SubSeq(s, n, n)
  <2>1. s[n] \in E /\ n <= n
    BY <1>3, ElementOfSeq
  <2>2. SubSeq(s, n, n) = <<s[n]>>
    BY <2>1, PartAppend, Zenon
  <2>3. <<s[n]>> \in Seq(E)
    BY <2>1
  <2> QED BY <2>2, <2>3, Zenon
<1>5. PICK q \in Seq(Seq(E)) : q = Append(r, x)
  BY AppendProperties
<1>6. Len(q) = l + 1 /\ q[l + 1] = x /\ \A i \in 1..l : q[i] = r[i]
  BY <1>1, <1>5, AppendProperties
<1>7. /\ b \in [0..l -> 0..n - 1] /\ b[0] = 0 /\ b[l] = n - 1
      /\ \A k \in 1..l : r[k] = SubSeq(s, b[k - 1] + 1, b[k])
      /\ \A k, m \in 0..l : k < m => b[k] < b[m]
      /\ \A i \in 1..n - 1 : \E k \in 1..l : b[k - 1] < i /\ i <= b[k]
      /\ \A k \in 1..l - 1 : b[k] + 1 \in begins
      /\ \A k \in 1..l : \A i \in b[k - 1] + 2..b[k] : i \notin begins
  BY <1>1 DEF GroupsAre
<1>8. PICK c : c = [k \in 0..l + 1 |-> IF k = l + 1 THEN n ELSE b[k]]
  OBVIOUS
<1>9. c \in [0..l + 1 -> 0..n] /\ c[l + 1] = n /\ \A k \in 0..l : c[k] = b[k] /\ b[k] \in 0..n - 1
  <2>1. \A k \in 0..l : b[k] \in 0..n - 1
    BY <1>7
  <2>2. \A k \in 0..l : k \in 0..l + 1 /\ k # l + 1
    OBVIOUS
  <2>3. \A k \in 0..l + 1 : k = l + 1 \/ k \in 0..l
    OBVIOUS
  <2>4. \A k \in 0..l : c[k] = b[k]
    BY <1>8, <2>2
  <2>5. l + 1 \in 0..l + 1 /\ c[l + 1] = n
    BY <1>8
  <2>6. ASSUME NEW k \in 0..l + 1 PROVE c[k] \in 0..n
    <3>1. \A y \in 0..n - 1 : y \in 0..n
      BY <1>3
    <3>2. CASE k \in 0..l
      BY <2>1, <2>4, <3>1, <3>2
    <3>3. CASE k = l + 1
      <4>1. n \in 0..n
        BY <1>3
      <4> QED BY <2>5, <3>3, <4>1
    <3> QED BY <2>3, <3>2, <3>3
  <2>7. c \in [0..l + 1 -> 0..n]
    <3>1. c = [k \in 0..l + 1 |-> c[k]]
      BY <1>8
    <3> QED BY <2>6, <3>1
  <2> QED BY <2>1, <2>4, <2>5, <2>7
<1>10. c[0] = 0 /\ c[l] = n - 1
  BY <1>7, <1>9
<1>11. \A k \in 1..l + 1 : k = l + 1 \/ (k \in 1..l /\ k \in 0..l /\ k - 1 \in 0..l)
  OBVIOUS
<1>12. \A k \in 1..l + 1 : q[k] = SubSeq(s, c[k - 1] + 1, c[k])
  <2> SUFFICES ASSUME NEW k \in 1..l + 1 PROVE q[k] = SubSeq(s, c[k - 1] + 1, c[k])
    OBVIOUS
  <2>1. CASE k = l + 1
    <3>1. c[k - 1] + 1 = n /\ c[k] = n
      BY <1>3, <1>9, <1>10, <2>1
    <3> QED BY <1>4, <1>6, <2>1, <3>1
  <2>2. CASE k # l + 1
    <3>1. k \in 1..l /\ k \in 0..l /\ k - 1 \in 0..l
      BY <1>11, <2>2
    <3>2. c[k] = b[k] /\ c[k - 1] = b[k - 1] /\ q[k] = r[k]
      BY <1>6, <1>9, <3>1
    <3> QED BY <1>7, <3>1, <3>2
  <2> QED BY <2>1, <2>2
<1>13. \A k, m \in 0..l + 1 : k < m => c[k] < c[m]
  <2> SUFFICES ASSUME NEW k \in 0..l + 1, NEW m \in 0..l + 1, k < m PROVE c[k] < c[m]
    OBVIOUS
  <2>1. k \in 0..l /\ c[k] = b[k] /\ b[k] \in 0..n - 1
    BY <1>9
  <2>2. CASE m = l + 1
    BY <1>3, <1>9, <2>1, <2>2
  <2>3. CASE m # l + 1
    BY <1>7, <1>9, <2>1, <2>3
  <2> QED BY <2>2, <2>3
<1>14. ASSUME NEW i \in 1..n PROVE \E k \in 1..l + 1 : c[k - 1] < i /\ i <= c[k]
  <2>1. CASE i = n
    <3>1. PICK k \in 1..l + 1 : k = l + 1 /\ k - 1 = l
      OBVIOUS
    <3>2. c[k - 1] = n - 1 /\ c[k] = n
      BY <1>9, <1>10, <3>1
    <3>3. c[k - 1] < i /\ i <= c[k]
      BY <1>3, <2>1, <3>2
    <3> QED BY <3>3
  <2>2. CASE i # n
    <3>0. i \in 1..n - 1
      BY <1>3, <2>2
    <3>1. PICK k \in 1..l : b[k - 1] < i /\ i <= b[k]
      BY <1>7, <3>0, Zenon
    <3>2. k \in 1..l + 1 /\ c[k] = b[k] /\ c[k - 1] = b[k - 1]
      BY <1>9, <3>1
    <3> QED BY <3>1, <3>2
  <2> QED BY <2>1, <2>2
<1>15. \A k \in 1..(l + 1) - 1 : c[k] + 1 \in begins
  <2> SUFFICES ASSUME NEW k \in 1..l PROVE c[k] + 1 \in begins
    OBVIOUS
  <2>1. CASE k = l
    <3>1. r # <<>>
      BY <1>1, <2>1
    <3>2. c[k] + 1 = n
      BY <1>3, <1>10, <2>1
    <3> QED BY <3>1, <3>2
  <2>2. CASE k # l
    BY <1>7, <1>9, <2>2
  <2> QED BY <2>1, <2>2
<1>16. \A k \in 1..l + 1 : \A i \in c[k - 1] + 2..c[k] : i \notin begins
  <2> SUFFICES ASSUME NEW k \in 1..l + 1, NEW i \in c[k - 1] + 2..c[k] PROVE i \notin begins
    OBVIOUS
  <2>1. CASE k = l + 1
    <3>1. c[k - 1] = n - 1 /\ c[k] = n
      BY <1>9, <1>10, <2>1
    <3> QED BY <1>3, <3>1
  <2>2. CASE k # l + 1
    <3>1. k \in 1..l /\ c[k] = b[k] /\ c[k - 1] = b[k - 1]
      BY <1>9, <1>11, <2>2
    <3> QED BY <1>7, <3>1
  <2> QED BY <2>1, <2>2
<1>17. GroupsAre(q, c, s, begins, n)
  BY <1>6, <1>9, <1>10, <1>12, <1>13, <1>14, <1>15, <1>16 DEF GroupsAre
<1> QED BY <1>4, <1>5, <1>17

\* An element that continues the last group.
LEMMA LongerGroup ==
  ASSUME NEW E, NEW s \in Seq(E), NEW r \in Seq(Seq(E)), NEW b, NEW begins, NEW n \in 1..Len(s),
         GroupsAre(r, b, s, begins, n - 1), r # <<>>, n \notin begins
  PROVE  LET q == [r EXCEPT ![Len(r)] = Append(r[Len(r)], s[n])]
         IN  q \in Seq(Seq(E)) /\ \E c : GroupsAre(q, c, s, begins, n)
<1>1. PICK l \in Nat \ {0} : l = Len(r)
  BY EmptySeq
<1>2. PICK w \in Nat : w = Len(s)
  OBVIOUS
<1>3. n \in 1..w /\ n - 1 \in Nat /\ n \in Nat
  BY <1>2
<1>4. /\ b \in [0..l -> 0..n - 1] /\ b[0] = 0 /\ b[l] = n - 1
      /\ \A k \in 1..l : r[k] = SubSeq(s, b[k - 1] + 1, b[k])
      /\ \A k, m \in 0..l : k < m => b[k] < b[m]
      /\ \A i \in 1..n - 1 : \E k \in 1..l : b[k - 1] < i /\ i <= b[k]
      /\ \A k \in 1..l - 1 : b[k] + 1 \in begins
      /\ \A k \in 1..l : \A i \in b[k - 1] + 2..b[k] : i \notin begins
  BY <1>1 DEF GroupsAre
<1>5. l \in 1..l /\ l \in 0..l /\ l - 1 \in 0..l /\ l - 1 < l
  OBVIOUS
<1>6. b[l - 1] \in Nat /\ b[l - 1] + 1 <= n - 1 /\ b[l - 1] + 1 \in 1..w
  <2>1. PICK j \in 0..l : j = l - 1 /\ j < l
    BY <1>5
  <2>2. b[j] \in 0..n - 1 /\ b[j] < b[l] /\ b[l] = n - 1
    BY <1>4, <1>5, <2>1
  <2> QED BY <1>3, <2>1, <2>2
<1>7. PICK x \in Seq(E) : x = Append(r[l], s[n]) /\ x = SubSeq(s, b[l - 1] + 1, n)
  <2>1. r[l] = SubSeq(s, b[l - 1] + 1, n - 1)
    BY <1>4, <1>5
  <2>2. SubSeq(s, b[l - 1] + 1, n - 1) \in Seq(E) /\ s[n] \in E
        /\ SubSeq(s, b[l - 1] + 1, n) = Append(SubSeq(s, b[l - 1] + 1, n - 1), s[n])
    <3>1. PICK m \in 1..Len(s) : m = b[l - 1] + 1
      BY <1>2, <1>3, <1>6
    <3>2. m <= n
      BY <1>3, <1>6, <3>1
    <3>3. /\ SubSeq(s, m, n - 1) \in Seq(E) /\ s[n] \in E
          /\ SubSeq(s, m, n) = Append(SubSeq(s, m, n - 1), s[n])
      BY <3>2, PartAppend
    <3> QED BY <3>1, <3>3, Zenon
  <2> QED BY <2>1, <2>2, AppendProperties
<1>8. PICK q \in Seq(Seq(E)) : q = [r EXCEPT ![l] = x]
  BY <1>1, <1>5, ExceptSeq
<1>9. Len(q) = l /\ q[l] = x /\ \A k \in 1..l : k # l => q[k] = r[k]
  BY <1>1, <1>5, <1>8, ExceptSeq
<1>10. PICK c : c = [k \in 0..l |-> IF k = l THEN n ELSE b[k]]
  OBVIOUS
<1>11. c \in [0..l -> 0..n] /\ c[l] = n /\ \A k \in 0..l : k # l => c[k] = b[k] /\ b[k] \in 0..n - 1
  <2>0. \A k \in 0..l : b[k] \in 0..n - 1
    BY <1>4
  <2>1. \A k \in 0..l : b[k] \in 0..n - 1 /\ b[k] \in 0..n
    BY <1>3, <2>0
  <2>2. c \in [0..l -> 0..n]
    BY <1>3, <1>10, <2>1
  <2> QED BY <1>5, <1>10, <2>1, <2>2
<1>12. c[0] = 0 /\ c[l - 1] = b[l - 1]
  BY <1>4, <1>5, <1>11
<1>13. \A k \in 1..l : k # l => k \in 0..l /\ k - 1 \in 0..l /\ k - 1 # l
  OBVIOUS
<1>14. \A k \in 1..l : q[k] = SubSeq(s, c[k - 1] + 1, c[k])
  <2> SUFFICES ASSUME NEW k \in 1..l PROVE q[k] = SubSeq(s, c[k - 1] + 1, c[k])
    OBVIOUS
  <2>1. CASE k = l
    BY <1>7, <1>9, <1>11, <1>12, <2>1
  <2>2. CASE k # l
    <3>1. c[k] = b[k] /\ c[k - 1] = b[k - 1] /\ q[k] = r[k]
      BY <1>9, <1>11, <1>13, <2>2
    <3> QED BY <1>4, <3>1
  <2> QED BY <2>1, <2>2
<1>15. \A k, m \in 0..l : k < m => c[k] < c[m]
  <2> SUFFICES ASSUME NEW k \in 0..l, NEW m \in 0..l, k < m PROVE c[k] < c[m]
    OBVIOUS
  <2>1. k # l /\ c[k] = b[k] /\ b[k] \in 0..n - 1
    BY <1>11
  <2>2. CASE m = l
    BY <1>3, <1>11, <2>1, <2>2
  <2>3. CASE m # l
    BY <1>4, <1>11, <2>1, <2>3
  <2> QED BY <2>2, <2>3
<1>16. ASSUME NEW i \in 1..n PROVE \E k \in 1..l : c[k - 1] < i /\ i <= c[k]
  <2>1. CASE i = n
    <3>1. PICK k \in 1..l : k = l
      BY <1>5
    <3>2. c[k - 1] < i /\ i <= c[k]
      BY <1>3, <1>6, <1>11, <1>12, <2>1, <3>1
    <3> QED BY <3>2
  <2>2. CASE i # n
    <3>0. i \in 1..n - 1
      BY <1>3, <2>2
    <3>1. PICK k \in 1..l : b[k - 1] < i /\ i <= b[k]
      BY <1>4, <3>0, Zenon
    <3>2. CASE k = l
      <4>1. c[k - 1] < i /\ i <= c[k]
        BY <1>3, <1>11, <1>12, <3>1, <3>2
      <4> QED BY <4>1
    <3>3. CASE k # l
      <4>1. c[k] = b[k] /\ c[k - 1] = b[k - 1]
        BY <1>11, <1>13, <3>3
      <4> QED BY <3>1, <4>1
    <3> QED BY <3>2, <3>3
  <2> QED BY <2>1, <2>2
<1>17. \A k \in 1..l - 1 : c[k] + 1 \in begins
  BY <1>4, <1>11
<1>18. \A k \in 1..l : \A i \in c[k - 1] + 2..c[k] : i \notin begins
  <2> SUFFICES ASSUME NEW k \in 1..l, NEW i \in c[k - 1] + 2..c[k] PROVE i \notin begins
    OBVIOUS
  <2>1. CASE k = l
    <3>1. i \in b[l - 1] + 2..n
      BY <1>11, <1>12, <2>1
    <3>2. CASE i = n
      BY <3>2
    <3>3. CASE i # n
      <4>1. i \in b[l - 1] + 2..b[l]
        BY <1>3, <1>4, <1>6, <3>1, <3>3
      <4> QED BY <1>4, <1>5, <4>1
    <3> QED BY <3>2, <3>3
  <2>2. CASE k # l
    <3>1. c[k] = b[k] /\ c[k - 1] = b[k - 1]
      BY <1>11, <1>13, <2>2
    <3> QED BY <1>4, <3>1
  <2> QED BY <2>1, <2>2
<1>19. GroupsAre(q, c, s, begins, n)
  BY <1>9, <1>11, <1>12, <1>14, <1>15, <1>16, <1>17, <1>18 DEF GroupsAre
<1> QED BY <1>1, <1>7, <1>8, <1>19

\* Grouped divides a slice into groups.
LEMMA GroupedDivides ==
  ASSUME NEW E, NEW s \in Seq(E), NEW begins
  PROVE  /\ Grouped(s, begins) \in Seq(Seq(E))
         /\ \E b : GroupsAre(Grouped(s, begins), b, s, begins, Len(s))
<1>1. PICK n \in Nat : n = Len(s) /\ DOMAIN s = 1..n
  OBVIOUS
<1> DEFINE F == {s[i] : i \in DOMAIN s}
           add == [p \in Seq(Seq(F)) \X DOMAIN s |->
                     IF p[1] = <<>> \/ p[2] \in begins THEN Append(p[1], <<s[p[2]]>>)
                     ELSE [p[1] EXCEPT ![Len(p[1])] = Append(p[1][Len(p[1])], s[p[2]])]]
           I == [i \in 0..n |-> {r \in Seq(Seq(F)) : \E b : GroupsAre(r, b, s, begins, i)}]
<1>2. PICK t \in Seq(1..n) : t = [i \in DOMAIN s |-> i] /\ Len(t) = n /\ \A i \in 1..n : t[i] = i
  <2>1. PICK t : t = [i \in DOMAIN s |-> i]
    OBVIOUS
  <2>2. t \in [1..n -> 1..n] /\ \A i \in 1..n : t[i] = i
    BY <1>1, <2>1
  <2>3. t \in Seq(1..n) /\ Len(t) = n
    BY <2>2, FunctionIsSeq
  <2> QED BY <2>1, <2>2, <2>3
<1>3. Grouped(s, begins) = Looped(add, <<>>, t)
  BY <1>2 DEF Grouped
<1>4. s \in Seq(F)
  OBVIOUS
<1>5. \A i \in 1..n : s[i] \in F
  BY <1>1
<1>6. F \subseteq E
  BY <1>1, ElementOfSeq
<1>7. \A r \in Seq(Seq(F)) : \A i \in 1..n :
        add[<<r, i>>] = IF r = <<>> \/ i \in begins THEN Append(r, <<s[i]>>)
                        ELSE [r EXCEPT ![Len(r)] = Append(r[Len(r)], s[i])]
  BY <1>1
<1>8. add \in [Seq(Seq(F)) \X (1..n) -> Seq(Seq(F))]
  <2>1. ASSUME NEW r \in Seq(Seq(F)), NEW i \in 1..n
        PROVE  (IF r = <<>> \/ i \in begins THEN Append(r, <<s[i]>>)
                ELSE [r EXCEPT ![Len(r)] = Append(r[Len(r)], s[i])]) \in Seq(Seq(F))
    <3>1. s[i] \in F
      BY <1>5
    <3>2. <<s[i]>> \in Seq(F)
      BY <3>1
    <3>3. Append(r, <<s[i]>>) \in Seq(Seq(F))
      BY <3>2, AppendProperties
    <3>4. ASSUME r # <<>>
          PROVE  [r EXCEPT ![Len(r)] = Append(r[Len(r)], s[i])] \in Seq(Seq(F))
      <4>1. Len(r) \in 1..Len(r)
        BY <3>4, EmptySeq
      <4>2. r[Len(r)] \in Seq(F)
        BY <4>1, ElementOfSeq
      <4>3. PICK x \in Seq(F) : x = Append(r[Len(r)], s[i])
        BY <3>1, <4>2, AppendProperties
      <4>4. [r EXCEPT ![Len(r)] = x] \in Seq(Seq(F))
        <5>1. PICK S : S = Seq(F)
          OBVIOUS
        <5>2. r \in Seq(S) /\ x \in S
          BY <5>1
        <5>3. [r EXCEPT ![Len(r)] = x] \in Seq(S)
          BY <4>1, <5>2, ExceptSeq, Zenon
        <5> QED BY <5>1, <5>3
      <4> QED BY <4>3, <4>4
    <3> QED BY <3>3, <3>4
  <2>2. PICK S : S = Seq(Seq(F))
    OBVIOUS
  <2>3. \A p \in S \X DOMAIN s : p[1] \in S /\ p[2] \in 1..n
    BY <1>1
  <2>4. \A r \in S : \A i \in 1..n :
          (IF r = <<>> \/ i \in begins THEN Append(r, <<s[i]>>)
           ELSE [r EXCEPT ![Len(r)] = Append(r[Len(r)], s[i])]) \in S
    BY <2>1, <2>2
  <2> HIDE DEF F
  <2> DEFINE Next(p) == IF p[1] = <<>> \/ p[2] \in begins THEN Append(p[1], <<s[p[2]]>>)
                        ELSE [p[1] EXCEPT ![Len(p[1])] = Append(p[1][Len(p[1])], s[p[2]])]
  <2>5. add = [p \in S \X DOMAIN s |-> Next(p)]
    BY <2>2, Zenon
  <2>6. \A p \in S \X DOMAIN s : Next(p) \in S
    BY <2>3, <2>4, Zenon
  <2>7. add \in [S \X DOMAIN s -> S]
    <3> HIDE DEF Next
    <3> QED BY <2>5, <2>6
  <2> HIDE DEF add
  <2> QED BY <1>1, <2>2, <2>7
<1>9. <<>> \in Seq(Seq(F)) /\ <<>> \in I[0]
  <2>1. <<>> \in Seq(Seq(F)) /\ Len(<<>>) = 0
    BY EmptySeq
  <2>2. PICK b : b = [k \in 0..0 |-> 0]
    OBVIOUS
  <2>3. GroupsAre(<<>>, b, s, begins, 0)
    BY <2>1, <2>2 DEF GroupsAre
  <2> QED BY <2>1, <2>3
<1>10. ASSUME NEW i \in 1..n, NEW r \in Seq(Seq(F)), r \in I[i - 1]
       PROVE  add[<<r, t[i]>>] \in I[i]
  <2>1. i - 1 \in 0..n /\ i \in 0..n /\ t[i] = i
    BY <1>2
  <2>2. \E b : GroupsAre(r, b, s, begins, i - 1)
    BY <1>10, <2>1
  <2>3. ASSUME NEW q \in Seq(Seq(F)), \E b : GroupsAre(q, b, s, begins, i)
        PROVE  q \in I[i]
    BY <2>1, <2>3
  <2> HIDE DEF I, add, F
  <2>4. PICK b : GroupsAre(r, b, s, begins, i - 1)
    BY <2>2
  <2>5. i \in 1..Len(s)
    BY <1>1
  <2>6. CASE r = <<>> \/ i \in begins
    <3>1. add[<<r, t[i]>>] = Append(r, <<s[i]>>)
      BY <1>7, <2>1, <2>6, Zenon
    <3>2. Append(r, <<s[i]>>) \in Seq(Seq(F)) /\ \E c : GroupsAre(Append(r, <<s[i]>>), c, s, begins, i)
      BY <1>4, <2>4, <2>5, <2>6, NewGroup, Zenon
    <3> QED BY <2>3, <3>1, <3>2, Zenon
  <2>7. CASE ~(r = <<>> \/ i \in begins)
    <3>1. PICK q : q = [r EXCEPT ![Len(r)] = Append(r[Len(r)], s[i])]
      OBVIOUS
    <3>2. add[<<r, t[i]>>] = q
      BY <1>7, <2>1, <2>7, <3>1, Zenon
    <3>3. q \in Seq(Seq(F)) /\ \E c : GroupsAre(q, c, s, begins, i)
      BY <1>4, <2>4, <2>5, <2>7, <3>1, LongerGroup, Zenon
    <3> QED BY <2>3, <3>2, <3>3, Zenon
  <2> QED BY <2>6, <2>7
<1>11. n \in 0..n /\ \A r : r \in I[n] => r \in Seq(Seq(F)) /\ \E b : GroupsAre(r, b, s, begins, n)
  OBVIOUS
<1> HIDE DEF I, add
<1>12. Looped(add, <<>>, t) \in I[n]
  <2>1. \A i \in 1..Len(t) : \A x \in Seq(Seq(F)) : x \in I[i - 1] => add[<<x, t[i]>>] \in I[i]
    BY <1>2, <1>10
  <2>2. Looped(add, <<>>, t) \in I[Len(t)]
    <3> HIDE DEF F
    <3> QED BY <1>8, <1>9, <2>1, LoopKeeps, Zenon
  <2> QED BY <1>2, <2>2
<1>13. Seq(Seq(F)) \subseteq Seq(Seq(E))
  BY <1>6, SeqMonotonic
<1> QED BY <1>1, <1>3, <1>11, <1>12, <1>13

=============================================================================
