--------------------------- MODULE Chunking_proofs ---------------------------
(***************************************************************************)
(* The chunks of every document are right: they fit, they say the whole    *)
(* text in its order, and fences stay whole, for all limits that           *)
(* normalizeConfig lets through.                                           *)
(*                                                                         *)
(* The points of a text are its runes.  A Division of P is a list of texts *)
(* that are apart and have together the points P; cutting and joining      *)
(* divide.  A list Says P if its texts end one after another and have all  *)
(* of P but what is lost; windows and repeated headings make a list of     *)
(* this kind of a division.  Each function of chunker.go has a lemma that  *)
(* says which of the two it returns, and that its texts fit.               *)
(***************************************************************************)
EXTENDS Chunking, MapTheorems

-----------------------------------------------------------------------------
(* Texts: what a text says are its points, the runes of its stretches.     *)

Gaps == {"space", "line", "blank"}

PointsAll(texts) == UNION {Points(texts[k]) : k \in DOMAIN texts}

\* What P says is before what Q says.
Before(P, Q) == \A p \in P, q \in Q : p[1] < q[1]

\* What the fields of a stretch are.
LEMMA StretchFacts ==
  ASSUME NEW t \in Stretch
  PROVE  /\ t.id \in Nat /\ t.from \in Nat \ {0} /\ t.to \in Nat /\ t.from <= t.to
         /\ t.ends \in {"none", "clause", "sentence"} /\ t.after \in {"none", "space", "line", "blank"}
         /\ RunesOf(t) \in Nat /\ RunesOf(t) >= 1
         /\ \A gap \in Gaps : [t EXCEPT !.after = gap] \in Stretch
BY DEF Stretch, RunesOf, Gaps

\* The points of a text, index by index.
LEMMA PointsOf ==
  ASSUME NEW text \in Text
  PROVE  \A p : p \in Points(text) <=>
                  \E i \in 1..Len(text) : p \in {text[i].id} \X (text[i].from..text[i].to)
<1>1. DOMAIN text = 1..Len(text)
  BY DEF Text
<1> QED BY <1>1 DEF Points

\* The ids of a text are those of its points.
LEMMA IdsOfPoints ==
  ASSUME NEW text \in Text
  PROVE  /\ \A x : x \in Ids(text) <=> \E p \in Points(text) : p[1] = x
         /\ Ids(text) \subseteq Nat
         /\ text = <<>> <=> Points(text) = {}
<1>1. PICK n \in Nat : n = Len(text) /\ DOMAIN text = 1..n
  BY DEF Text
<1>2. \A i \in 1..n : text[i] \in Stretch
  BY <1>1, ElementOfSeq DEF Text
<1>3. \A p : p \in Points(text) <=> \E i \in 1..n : p \in {text[i].id} \X (text[i].from..text[i].to)
  BY <1>1, PointsOf
<1>4. ASSUME NEW i \in 1..n
      PROVE  /\ <<text[i].id, text[i].from>> \in Points(text)
             /\ <<text[i].id, text[i].from>>[1] = text[i].id
  <2>1. text[i].from \in text[i].from..text[i].to
    BY <1>2, StretchFacts
  <2> QED BY <1>3, <2>1
<1>5. \A x : x \in Ids(text) <=> \E i \in 1..n : text[i].id = x
  BY <1>1 DEF Ids
<1>6. ASSUME NEW x, x \in Ids(text) PROVE \E p \in Points(text) : p[1] = x
  <2>1. PICK i \in 1..n : text[i].id = x
    BY <1>5, <1>6
  <2> QED BY <1>4, <2>1
<1>7. ASSUME NEW p \in Points(text) PROVE p[1] \in Ids(text)
  <2>1. PICK i \in 1..n : p \in {text[i].id} \X (text[i].from..text[i].to)
    BY <1>3
  <2> QED BY <1>5, <2>1
<1>8. Ids(text) \subseteq Nat
  BY <1>2, <1>5, StretchFacts
<1>9. ASSUME text = <<>> PROVE Points(text) = {}
  <2>1. n = 0
    BY <1>1, <1>9
  <2> QED BY <1>3, <2>1
<1>10. ASSUME text # <<>> PROVE Points(text) # {}
  <2>1. 1 \in 1..n
    BY <1>1, <1>10, EmptySeq DEF Text
  <2> QED BY <1>4, <2>1
<1> QED BY <1>6, <1>7, <1>8, <1>9, <1>10

\* Texts are apart if their points are.
LEMMA ApartPoints ==
  ASSUME NEW texts \in Seq(Text)
  PROVE  Apart(texts) <=>
           \A i, j \in 1..Len(texts) : i < j => Before(Points(texts[i]), Points(texts[j]))
<1>1. PICK n \in Nat : n = Len(texts) /\ DOMAIN texts = 1..n
  OBVIOUS
<1>2. \A i \in 1..n : texts[i] \in Text
  BY <1>1, ElementOfSeq
<1>3. ASSUME NEW i \in 1..n, NEW j \in 1..n
      PROVE  (\A a \in Ids(texts[i]) : \A b \in Ids(texts[j]) : a < b)
               <=> Before(Points(texts[i]), Points(texts[j]))
  <2>1. /\ \A x : x \in Ids(texts[i]) <=> \E p \in Points(texts[i]) : p[1] = x
        /\ \A x : x \in Ids(texts[j]) <=> \E p \in Points(texts[j]) : p[1] = x
    BY <1>2, IdsOfPoints, Zenon
  <2>2. ASSUME \A a \in Ids(texts[i]) : \A b \in Ids(texts[j]) : a < b
        PROVE  Before(Points(texts[i]), Points(texts[j]))
    BY <2>1, <2>2, Zenon DEF Before
  <2>3. ASSUME Before(Points(texts[i]), Points(texts[j])), NEW a \in Ids(texts[i]), NEW b \in Ids(texts[j])
        PROVE  a < b
    <3>1. PICK p \in Points(texts[i]) : p[1] = a
      BY <2>1
    <3>2. PICK q \in Points(texts[j]) : q[1] = b
      BY <2>1
    <3> QED BY <2>3, <3>1, <3>2 DEF Before
  <2> QED BY <2>2, <2>3
<1> QED BY <1>1, <1>3, Zenon DEF Apart

-----------------------------------------------------------------------------
(* Texts joined.                                                           *)

\* q has the stretches of a, the last of them with another gap, and those of b.
IsJoined(q, a, gap, b) ==
  /\ Len(q) = Len(a) + Len(b)
  /\ \A i \in 1..Len(a) :
       /\ q[i].id = a[i].id /\ q[i].from = a[i].from /\ q[i].to = a[i].to /\ q[i].ends = a[i].ends
       /\ q[i].after = IF i = Len(a) /\ b # <<>> THEN gap ELSE a[i].after
  /\ \A i \in Len(a) + 1..Len(a) + Len(b) : q[i] = b[i - Len(a)]

\* strings.Join of two texts changes nothing but the white space between them.
LEMMA JoinedShape ==
  ASSUME NEW a \in Text, NEW b \in Text, NEW gap \in Gaps
  PROVE  \E q \in Text : q = Joined(a, gap, b) /\ IsJoined(q, a, gap, b)
<1>1. PICK n \in Nat : n = Len(a)
  BY DEF Text
<1>2. PICK m \in Nat : m = Len(b)
  BY DEF Text
<1>3. CASE a = <<>> \/ b = <<>>
  <2>1. PICK q \in Seq(Stretch) : q = a \o b
    BY ConcatProperties DEF Text
  <2>2. Len(q) = n + m /\ \A i \in 1..n + m : q[i] = IF i <= n THEN a[i] ELSE b[i - n]
    BY <1>1, <1>2, <2>1, ConcatProperties DEF Text
  <2>3. Joined(a, gap, b) = q
    BY <1>3, <2>1 DEF Joined
  <2>4. n = 0 \/ b = <<>>
    BY <1>1, <1>3
  <2>5. \A i \in 1..n : q[i] = a[i] /\ ~(i = n /\ b # <<>>)
    BY <2>2, <2>4
  <2>6. \A i \in n + 1..n + m : q[i] = b[i - n]
    BY <2>2
  <2>7. IsJoined(q, a, gap, b)
    BY <1>1, <1>2, <2>2, <2>5, <2>6 DEF IsJoined
  <2> QED BY <2>1, <2>3, <2>7 DEF Text
<1>4. CASE a # <<>> /\ b # <<>>
  <2>1. n \in 1..n
    BY <1>1, <1>4, EmptySeq DEF Text
  <2>2. \A i \in 1..n : a[i] \in Stretch
    BY <1>1, ElementOfSeq DEF Text
  <2>3. PICK x \in Stretch : x = [a[n] EXCEPT !.after = gap]
    BY <2>1, <2>2, StretchFacts
  <2>4. x.id = a[n].id /\ x.from = a[n].from /\ x.to = a[n].to /\ x.ends = a[n].ends /\ x.after = gap
    BY <2>1, <2>2, <2>3 DEF Stretch
  <2>5. PICK c \in Seq(Stretch) : c = [a EXCEPT ![n] = x]
    BY <1>1, <2>1, ExceptSeq DEF Text
  <2>6. Len(c) = n /\ \A i \in 1..n : c[i] = IF i = n THEN x ELSE a[i]
    BY <1>1, <2>1, <2>5, ExceptSeq DEF Text
  <2>7. PICK q \in Seq(Stretch) : q = c \o b
    BY ConcatProperties DEF Text
  <2>8. Len(q) = n + m /\ \A i \in 1..n + m : q[i] = IF i <= n THEN c[i] ELSE b[i - n]
    BY <1>2, <2>6, <2>7, ConcatProperties DEF Text
  <2>9. Joined(a, gap, b) = q
    BY <1>1, <1>4, <2>3, <2>5, <2>7 DEF Joined
  <2>10. \A i \in 1..n : q[i] = IF i = n THEN x ELSE a[i]
    BY <2>6, <2>8
  <2>11. \A i \in 1..n :
            /\ q[i].id = a[i].id /\ q[i].from = a[i].from /\ q[i].to = a[i].to /\ q[i].ends = a[i].ends
            /\ q[i].after = IF i = n /\ b # <<>> THEN gap ELSE a[i].after
    BY <1>4, <2>4, <2>10
  <2>12. \A i \in n + 1..n + m : q[i] = b[i - n]
    BY <2>8
  <2>13. IsJoined(q, a, gap, b)
    BY <1>1, <1>2, <2>8, <2>11, <2>12 DEF IsJoined
  <2> QED BY <2>7, <2>9, <2>13 DEF Text
<1> QED BY <1>3, <1>4

\* Joined, two texts say what each of them says.
LEMMA JoinedPoints ==
  ASSUME NEW a \in Text, NEW b \in Text, NEW gap \in Gaps
  PROVE  Points(Joined(a, gap, b)) = Points(a) \cup Points(b)
<1>1. PICK n \in Nat : n = Len(a)
  BY DEF Text
<1>2. PICK m \in Nat : m = Len(b)
  BY DEF Text
<1>3. PICK q \in Text : q = Joined(a, gap, b) /\ IsJoined(q, a, gap, b)
  BY JoinedShape
<1>4. /\ Len(q) = n + m
      /\ \A i \in 1..n : q[i].id = a[i].id /\ q[i].from = a[i].from /\ q[i].to = a[i].to
      /\ \A i \in n + 1..n + m : q[i] = b[i - n]
  BY <1>1, <1>2, <1>3 DEF IsJoined
<1>5. /\ \A p : p \in Points(q) <=> \E i \in 1..n + m : p \in {q[i].id} \X (q[i].from..q[i].to)
      /\ \A p : p \in Points(a) <=> \E i \in 1..n : p \in {a[i].id} \X (a[i].from..a[i].to)
      /\ \A p : p \in Points(b) <=> \E i \in 1..m : p \in {b[i].id} \X (b[i].from..b[i].to)
  BY <1>1, <1>2, <1>4, PointsOf
<1>6. ASSUME NEW p, p \in Points(q) PROVE p \in Points(a) \cup Points(b)
  <2>1. PICK i \in 1..n + m : p \in {q[i].id} \X (q[i].from..q[i].to)
    BY <1>5, <1>6
  <2>2. CASE i \in 1..n
    BY <1>4, <1>5, <2>1, <2>2
  <2>3. CASE i \notin 1..n
    <3>1. PICK j \in 1..m : j = i - n /\ i \in n + 1..n + m
      BY <2>1, <2>3
    <3>2. p \in {b[j].id} \X (b[j].from..b[j].to)
      BY <1>4, <2>1, <3>1
    <3> QED BY <1>5, <3>2
  <2> QED BY <2>2, <2>3
<1>7. ASSUME NEW p, p \in Points(a) PROVE p \in Points(q)
  <2>1. PICK i \in 1..n : p \in {a[i].id} \X (a[i].from..a[i].to)
    BY <1>5, <1>7
  <2>2. i \in 1..n + m /\ p \in {q[i].id} \X (q[i].from..q[i].to)
    BY <1>4, <2>1
  <2> QED BY <1>5, <2>2
<1>8. ASSUME NEW p, p \in Points(b) PROVE p \in Points(q)
  <2>1. PICK i \in 1..m : p \in {b[i].id} \X (b[i].from..b[i].to)
    BY <1>5, <1>8
  <2>2. PICK j \in n + 1..n + m : j - n = i
    BY <2>1
  <2>3. j \in 1..n + m /\ p \in {q[j].id} \X (q[j].from..q[j].to)
    BY <1>4, <2>1, <2>2
  <2> QED BY <1>5, <2>3
<1> QED BY <1>3, <1>6, <1>7, <1>8

\* The text of two that follow each other is in order.
LEMMA JoinedInOrder ==
  ASSUME NEW a \in Text, NEW b \in Text, NEW gap \in Gaps, InOrder(a), InOrder(b),
         Before(Points(a), Points(b))
  PROVE  InOrder(Joined(a, gap, b))
<1>1. PICK n \in Nat : n = Len(a) /\ DOMAIN a = 1..n
  BY DEF Text
<1>2. PICK m \in Nat : m = Len(b) /\ DOMAIN b = 1..m
  BY DEF Text
<1>3. PICK q \in Text : q = Joined(a, gap, b) /\ IsJoined(q, a, gap, b)
  BY JoinedShape
<1>4. /\ Len(q) = n + m
      /\ \A i \in 1..n : q[i].id = a[i].id
      /\ \A i \in n + 1..n + m : q[i] = b[i - n]
  BY <1>1, <1>2, <1>3 DEF IsJoined
<1>5. DOMAIN q = 1..n + m
  BY <1>4 DEF Text
<1>6. ASSUME NEW i \in 1..n, NEW j \in 1..m PROVE a[i].id < b[j].id
  <2>1. a[i].id \in Ids(a) /\ b[j].id \in Ids(b)
    BY <1>1, <1>2 DEF Ids
  <2>2. PICK p \in Points(a) : p[1] = a[i].id
    BY <2>1, IdsOfPoints
  <2>3. PICK r \in Points(b) : r[1] = b[j].id
    BY <2>1, IdsOfPoints
  <2> QED BY <2>2, <2>3 DEF Before
<1>7. ASSUME NEW i \in 1..n + m, NEW j \in 1..n + m, i < j PROVE q[i].id < q[j].id
  <2>1. CASE j \in 1..n
    <3>1. i \in 1..n
      BY <1>7, <2>1
    <3> QED BY <1>1, <1>4, <1>7, <2>1, <3>1 DEF InOrder
  <2>2. CASE j \notin 1..n
    <3>1. PICK k \in 1..m : k = j - n /\ j \in n + 1..n + m
      BY <2>2
    <3>2. q[j] = b[k]
      BY <1>4, <3>1
    <3>3. CASE i \in 1..n
      BY <1>4, <1>6, <3>2, <3>3
    <3>4. CASE i \notin 1..n
      <4>1. PICK l \in 1..m : l = i - n /\ i \in n + 1..n + m
        BY <3>4
      <4>2. q[i] = b[l] /\ l < k
        BY <1>4, <1>7, <3>1, <4>1
      <4> QED BY <1>2, <3>2, <4>2 DEF InOrder
    <3> QED BY <3>3, <3>4
  <2> QED BY <2>1, <2>2
<1> QED BY <1>3, <1>5, <1>7 DEF InOrder

\* No two stretches become one where texts are joined.
LEMMA JoinedDivided ==
  ASSUME NEW a \in Text, NEW b \in Text, NEW gap \in Gaps, Divided(a), Divided(b)
  PROVE  Divided(Joined(a, gap, b))
<1>1. PICK n \in Nat : n = Len(a) /\ DOMAIN a = 1..n
  BY DEF Text
<1>2. PICK m \in Nat : m = Len(b) /\ DOMAIN b = 1..m
  BY DEF Text
<1>3. PICK q \in Text : q = Joined(a, gap, b) /\ IsJoined(q, a, gap, b)
  BY JoinedShape
<1>4. /\ Len(q) = n + m
      /\ \A i \in 1..n : /\ q[i].ends = a[i].ends
                         /\ q[i].after = IF i = n /\ b # <<>> THEN gap ELSE a[i].after
      /\ \A i \in n + 1..n + m : q[i] = b[i - n]
  BY <1>1, <1>2, <1>3 DEF IsJoined
<1>5. DOMAIN q = 1..n + m
  BY <1>4 DEF Text
<1>6. ASSUME NEW i \in 1..n + m, i < n + m PROVE q[i].ends # "none" \/ q[i].after # "none"
  <2>1. CASE i \in 1..n
    <3>1. CASE i = n
      <4>1. b # <<>>
        BY <1>2, <1>6, <3>1
      <4> QED BY <1>4, <2>1, <3>1, <4>1 DEF Gaps
    <3>2. CASE i # n
      BY <1>1, <1>4, <2>1, <3>2 DEF Divided
    <3> QED BY <3>1, <3>2
  <2>2. CASE i \notin 1..n
    <3>1. PICK k \in 1..m : k = i - n /\ k < m /\ i \in n + 1..n + m
      BY <1>6, <2>2
    <3> QED BY <1>2, <1>4, <3>1 DEF Divided
  <2> QED BY <2>1, <2>2
<1> QED BY <1>3, <1>4, <1>5, <1>6 DEF Divided

-----------------------------------------------------------------------------
(* Lengths of texts.                                                       *)

\* White space is at most two runes.
LEMMA GapIsNat ==
  ASSUME NEW after \in {"none", "space", "line", "blank"}
  PROVE  Gap(after) \in 0..2 /\ Gap(after) \in Nat
BY DEF Gap

\* Append and \o.
LEMMA AppendJoined ==
  ASSUME NEW S, NEW a \in Seq(S), NEW p \in Seq(S), NEW x \in S
  PROVE  a \o Append(p, x) \in {Append(a \o p, x)} /\ a \o p \in Seq(S)
<1>0. <<x>> \in Seq(S)
  OBVIOUS
<1>1. PICK u \in Seq(S) : u = <<x>>
  BY <1>0
<1>2. (a \o p) \o u = a \o (p \o u)
  BY ConcatAssociative
<1>3. Append(p, x) = p \o u
  BY <1>1, AppendIsConcat
<1>4. PICK q \in Seq(S) : q = a \o p
  BY ConcatProperties
<1>5. Append(q, x) = q \o u
  BY <1>1, AppendIsConcat
<1> QED BY <1>2, <1>3, <1>4, <1>5

\* The loop of WithGaps adds one stretch after another.
LEMMA WithGapsAppend ==
  ASSUME NEW text \in Text
  PROVE  /\ WithGaps(<<>>) = 0 /\ WithGaps(text) \in Nat
         /\ \A t \in Stretch : WithGaps(Append(text, t)) = WithGaps(text) + (RunesOf(t) + Gap(t.after))
<1> DEFINE add == [p \in Nat \X Stretch |-> p[1] + RunesOf(p[2]) + Gap(p[2].after)]
           Next(p) == p[1] + RunesOf(p[2]) + Gap(p[2].after)
           I == [i \in 0..Len(text) |-> Nat]
<1>1. \A t \in Stretch : RunesOf(t) \in Nat /\ Gap(t.after) \in Nat
  BY StretchFacts, GapIsNat, Zenon
<1>2. \A p \in Nat \X Stretch : Next(p) \in Nat
  BY <1>1
<1>3. add \in [Nat \X Stretch -> Nat]
  <2>1. add = [p \in Nat \X Stretch |-> Next(p)]
    OBVIOUS
  <2> HIDE DEF add, Next
  <2> QED BY <1>2, <2>1
<1>4. \A x : WithGaps(x) = Looped(add, 0, x)
  BY DEF WithGaps
<1>5. \A k \in Nat : \A t \in Stretch : add[<<k, t>>] = k + (RunesOf(t) + Gap(t.after))
  BY <1>1
<1>6. 0 \in I[0] /\ \A i \in 0..Len(text) : I[i] = Nat
  BY DEF Text
<1>7. text \in Seq(Stretch) /\ Len(text) \in Nat
  BY DEF Text
<1> HIDE DEF add, I
<1>8. \A i \in 1..Len(text) : \A x \in Nat : x \in I[i - 1] => add[<<x, text[i]>>] \in I[i]
  <2> SUFFICES ASSUME NEW i \in 1..Len(text), NEW x \in Nat PROVE add[<<x, text[i]>>] \in I[i]
    OBVIOUS
  <2>1. text[i] \in Stretch
    BY <1>7, ElementOfSeq
  <2>2. add[<<x, text[i]>>] \in Nat
    BY <1>1, <1>5, <2>1
  <2>3. i \in 0..Len(text)
    BY <1>7
  <2> QED BY <1>6, <2>2, <2>3
<1>9. Looped(add, 0, text) \in Nat
  <2>1. 0 \in Nat
    OBVIOUS
  <2> QED BY <1>3, <1>6, <1>7, <1>8, <2>1, LoopKeeps, Zenon
<1>10. Looped(add, 0, <<>>) = 0
  <2>1. 0 \in Nat
    OBVIOUS
  <2> QED BY <1>3, <2>1, LoopEmpty, Zenon
<1>11. ASSUME NEW t \in Stretch
       PROVE  Looped(add, 0, Append(text, t)) = Looped(add, 0, text) + (RunesOf(t) + Gap(t.after))
  <2>1. 0 \in Nat
    OBVIOUS
  <2>2. Looped(add, 0, Append(text, t)) \in {add[<<Looped(add, 0, text), t>>]}
    BY <1>3, <1>7, <2>1, LoopAppend, Zenon
  <2>5. Looped(add, 0, Append(text, t)) = add[<<Looped(add, 0, text), t>>]
    BY <2>2
  <2> QED BY <1>5, <1>9, <2>5, Zenon
<1> QED BY <1>4, <1>9, <1>10, <1>11, Zenon

\* The lengths of two texts add up.
LEMMA WithGapsJoined ==
  ASSUME NEW a \in Text, NEW b \in Text
  PROVE  WithGaps(a \o b) = WithGaps(a) + WithGaps(b)
<1>1. PICK n \in Nat : n = Len(b)
  BY DEF Text
<1>2. a \in Seq(Stretch) /\ b \in Seq(Stretch)
  BY DEF Text
<1> DEFINE add == [p \in Nat \X Stretch |-> p[1] + RunesOf(p[2]) + Gap(p[2].after)]
           Next(p) == p[1] + RunesOf(p[2]) + Gap(p[2].after)
           I == [i \in 0..n |-> {k \in Nat : WithGaps(a \o SubSeq(b, 1, i)) = WithGaps(a) + k}]
<1>3. \A t \in Stretch : RunesOf(t) \in Nat /\ Gap(t.after) \in Nat
  BY StretchFacts, GapIsNat, Zenon
<1>4. add \in [Nat \X Stretch -> Nat]
  <2>1. add = [p \in Nat \X Stretch |-> Next(p)]
    OBVIOUS
  <2>2. \A p \in Nat \X Stretch : Next(p) \in Nat
    BY <1>3
  <2> HIDE DEF add, Next
  <2> QED BY <2>1, <2>2
<1>5. WithGaps(b) = Looped(add, 0, b)
  BY DEF WithGaps
<1>6. \A k \in Nat : \A t \in Stretch : add[<<k, t>>] = k + (RunesOf(t) + Gap(t.after))
  BY <1>3
<1>7. \A i \in 0..n : \A k : k \in I[i] <=> k \in Nat /\ WithGaps(a \o SubSeq(b, 1, i)) = WithGaps(a) + k
  OBVIOUS
<1> HIDE DEF add, I
<1>8. 0 \in I[0]
  <2>1. SubSeq(b, 1, 0) = <<>>
    BY SubSeqEmpty
  <2>2. a \o <<>> = a
    BY <1>2, ConcatEmptySeq
  <2>3. WithGaps(a) \in Nat
    BY WithGapsAppend
  <2>4. WithGaps(a \o SubSeq(b, 1, 0)) = WithGaps(a) + 0 /\ 0 \in 0..n /\ 0 \in Nat
    <3>1. WithGaps(a \o SubSeq(b, 1, 0)) = WithGaps(a)
      BY <2>1, <2>2, Zenon
    <3>2. WithGaps(a) = WithGaps(a) + 0 /\ 0 \in 0..n /\ 0 \in Nat
      BY <2>3
    <3> QED BY <3>1, <3>2, Zenon
  <2> QED BY <1>7, <2>4, Zenon
<1>9. ASSUME NEW i \in 1..Len(b), NEW k \in Nat, k \in I[i - 1]
      PROVE  add[<<k, b[i]>>] \in I[i]
  <2>1. i \in 1..n /\ i - 1 \in 0..n /\ i \in 0..n /\ 1 \in 1..n
    BY <1>1
  <2>2. b[i] \in Stretch
    BY <1>2, ElementOfSeq
  <2>3. PICK p \in Seq(Stretch) : p = SubSeq(b, 1, i - 1) /\ SubSeq(b, 1, i) = Append(p, b[i])
    <3>1. 1 \in 1..Len(b) /\ 1 <= i
      BY <1>1, <2>1
    <3>2. SubSeq(b, 1, i - 1) \in Seq(Stretch) /\ SubSeq(b, 1, i) = Append(SubSeq(b, 1, i - 1), b[i])
      BY <1>2, <3>1, PartAppend, Zenon
    <3> QED BY <3>2
  <2>4. a \o Append(p, b[i]) = Append(a \o p, b[i])
    <3>1. a \o Append(p, b[i]) \in {Append(a \o p, b[i])}
      BY <1>2, <2>2, AppendJoined, Zenon
    <3> QED BY <3>1
  <2>5. a \o p \in Text
    BY <1>2, ConcatProperties DEF Text
  <2>6. WithGaps(Append(a \o p, b[i])) = WithGaps(a \o p) + (RunesOf(b[i]) + Gap(b[i].after))
    BY <2>2, <2>5, WithGapsAppend, Zenon
  <2>7. WithGaps(a \o p) = WithGaps(a) + k
    BY <1>7, <1>9, <2>1, <2>3
  <2>8. WithGaps(a) \in Nat
    BY WithGapsAppend
  <2>9. RunesOf(b[i]) \in Nat /\ Gap(b[i].after) \in Nat
    BY <1>3, <2>2
  <2>10. WithGaps(a \o SubSeq(b, 1, i)) = WithGaps(a) + (k + (RunesOf(b[i]) + Gap(b[i].after)))
    <3>1. a \o SubSeq(b, 1, i) = Append(a \o p, b[i])
      BY <2>3, <2>4, Zenon
    <3>2. WithGaps(a \o SubSeq(b, 1, i)) = (WithGaps(a) + k) + (RunesOf(b[i]) + Gap(b[i].after))
      BY <2>6, <2>7, <3>1, Zenon
    <3> QED BY <2>8, <2>9, <3>2
  <2>11. add[<<k, b[i]>>] = k + (RunesOf(b[i]) + Gap(b[i].after))
    BY <1>6, <2>2, Zenon
  <2>12. k + (RunesOf(b[i]) + Gap(b[i].after)) \in Nat
    BY <2>9
  <2> QED BY <1>7, <2>1, <2>10, <2>11, <2>12
<1>10. Looped(add, 0, b) \in I[Len(b)]
  <2>1. 0 \in Nat
    OBVIOUS
  <2> QED BY <1>2, <1>4, <1>8, <1>9, <2>1, LoopKeeps, Zenon
<1>11. SubSeq(b, 1, n) = b
  BY <1>1, <1>2, SubSeqFull
<1>12. n \in 0..n
  OBVIOUS
<1> QED BY <1>1, <1>5, <1>7, <1>10, <1>11, <1>12, Zenon

\* The runes of a text are those of its last stretch and of what is before it.
LEMMA RunesOfLast ==
  ASSUME NEW text \in Text, text # <<>>
  PROVE  LET n == Len(text)
             f == SubSeq(text, 1, n - 1)
         IN  /\ f \in Text /\ text[n] \in Stretch /\ text = Append(f, text[n])
             /\ Runes(text) = WithGaps(f) + RunesOf(text[n])
             /\ WithGaps(text) = Runes(text) + Gap(text[n].after)
             /\ Runes(text) \in Nat /\ Runes(text) >= 1
<1>1. PICK n \in Nat \ {0} : n = Len(text)
  BY EmptySeq DEF Text
<1>2. PICK f \in Text : f = SubSeq(text, 1, n - 1) /\ text = Append(f, text[n])
  <2>1. 1 \in 1..Len(text) /\ n \in 1..Len(text) /\ 1 <= n
    BY <1>1
  <2>2. SubSeq(text, 1, n - 1) \in Seq(Stretch) /\ SubSeq(text, 1, n) = Append(SubSeq(text, 1, n - 1), text[n])
    BY <2>1, PartAppend, Zenon DEF Text
  <2>3. SubSeq(text, 1, n) = text
    BY <1>1, SubSeqFull DEF Text
  <2> QED BY <2>2, <2>3 DEF Text
<1>3. text[n] \in Stretch
  BY <1>1, ElementOfSeq DEF Text
<1>4. WithGaps(Append(f, text[n])) = WithGaps(f) + (RunesOf(text[n]) + Gap(text[n].after))
  BY <1>3, WithGapsAppend, Zenon
<1>5. WithGaps(f) \in Nat
  BY WithGapsAppend, Zenon
<1>6. RunesOf(text[n]) \in Nat /\ RunesOf(text[n]) >= 1 /\ Gap(text[n].after) \in Nat
  BY <1>3, StretchFacts, GapIsNat, Zenon
<1>7. Runes(text) = WithGaps(text) - Gap(text[n].after)
  BY <1>1 DEF Runes
<1>8. WithGaps(text) = WithGaps(f) + (RunesOf(text[n]) + Gap(text[n].after))
  BY <1>2, <1>4
<1>9. /\ Runes(text) = WithGaps(f) + RunesOf(text[n])
      /\ WithGaps(text) = Runes(text) + Gap(text[n].after)
      /\ Runes(text) \in Nat /\ Runes(text) >= 1
  BY <1>5, <1>6, <1>7, <1>8
<1> QED BY <1>1, <1>2, <1>3, <1>9

\* A text is empty if it has no runes.
LEMMA RunesNat ==
  ASSUME NEW text \in Text
  PROVE  Runes(text) \in Nat /\ (text # <<>> <=> Runes(text) >= 1)
<1>1. CASE text = <<>>
  BY <1>1 DEF Runes
<1>2. CASE text # <<>>
  BY <1>2, RunesOfLast
<1> QED BY <1>1, <1>2

\* The length of two texts joined is theirs and the separator.
LEMMA JoinedRunes ==
  ASSUME NEW a \in Text, NEW b \in Text, NEW gap \in Gaps, a # <<>>, b # <<>>
  PROVE  /\ Runes(Joined(a, gap, b)) = Runes(a) + Gap(gap) + Runes(b)
         /\ EndOf(Joined(a, gap, b)) = EndOf(b)
<1>1. PICK n \in Nat \ {0} : n = Len(a)
  BY EmptySeq DEF Text
<1>2. PICK m \in Nat \ {0} : m = Len(b)
  BY EmptySeq DEF Text
<1>3. PICK f \in Text : f = SubSeq(a, 1, n - 1) /\ a = Append(f, a[n]) /\ a[n] \in Stretch
                        /\ Runes(a) = WithGaps(f) + RunesOf(a[n])
  BY <1>1, RunesOfLast
<1>4. PICK x \in Stretch : x = [a[n] EXCEPT !.after = gap]
  BY <1>3, StretchFacts
<1>5. RunesOf(x) = RunesOf(a[n]) /\ x.after = gap
  BY <1>3, <1>4 DEF Stretch, RunesOf
<1>6. PICK c \in Text : c = Append(f, x)
  BY AppendProperties DEF Text
<1>7. [a EXCEPT ![n] = x] = c
  <2>1. PICK l \in Nat : l = Len(f)
    BY DEF Text
  <2>2. PICK e \in Seq(Stretch) : e = [a EXCEPT ![n] = x]
    <3>1. n \in 1..Len(a) /\ a \in Seq(Stretch)
      BY <1>1 DEF Text
    <3> QED BY <3>1, ExceptSeq
  <2>3. Len(e) = n /\ \A i \in 1..n : e[i] = IF i = n THEN x ELSE a[i]
    BY <1>1, <2>2, ExceptSeq DEF Text
  <2>4. n = l + 1 /\ \A i \in 1..l : a[i] = f[i]
    BY <1>1, <1>3, <2>1, AppendProperties DEF Text
  <2>5. Len(c) = l + 1 /\ c[l + 1] = x /\ \A i \in 1..l : c[i] = f[i]
    BY <1>6, <2>1, AppendProperties DEF Text
  <2>6. \A i \in 1..n : e[i] = c[i]
    BY <2>3, <2>4, <2>5
  <2>7. e = c
    BY <2>3, <2>4, <2>5, <2>6, SeqEqual DEF Text
  <2> QED BY <2>2, <2>7
<1>8. Joined(a, gap, b) = c \o b
  BY <1>1, <1>4, <1>7 DEF Joined
<1>9. PICK q \in Text : q = c \o b
  BY ConcatProperties DEF Text
<1>10. Len(q) = n + m /\ q[n + m] = b[m]
  <2>1. Len(c) = n
    BY <1>1, <1>7, ExceptSeq DEF Text
  <2>2. Len(q) = n + m /\ \A i \in 1..n + m : q[i] = IF i <= n THEN c[i] ELSE b[i - n]
    BY <1>2, <1>9, <2>1, ConcatProperties DEF Text
  <2>3. n + m \in 1..n + m /\ ~(n + m <= n) /\ n + m - n = m
    OBVIOUS
  <2> QED BY <2>2, <2>3
<1>11. q # <<>>
  BY <1>10
<1>12. Runes(q) = WithGaps(q) - Gap(b[m].after)
  BY <1>10, <1>11 DEF Runes
<1>13. WithGaps(q) = WithGaps(c) + WithGaps(b)
  BY <1>9, WithGapsJoined
<1>14. WithGaps(c) = WithGaps(f) + (RunesOf(x) + Gap(x.after))
  BY <1>6, WithGapsAppend, Zenon
<1>15. WithGaps(b) = Runes(b) + Gap(b[m].after)
  BY <1>2, RunesOfLast
<1>16. WithGaps(f) \in Nat /\ RunesOf(a[n]) \in Nat /\ Runes(b) \in Nat
  BY <1>3, WithGapsAppend, StretchFacts, RunesNat, Zenon
<1>17. Gap(gap) \in Nat /\ Gap(b[m].after) \in Nat
  <2>1. gap \in {"none", "space", "line", "blank"}
    BY DEF Gaps
  <2>2. m \in 1..Len(b)
    BY <1>2
  <2>3. b[m] \in Stretch
    BY <2>2, ElementOfSeq DEF Text
  <2> QED BY <2>1, <2>3, StretchFacts, GapIsNat, Zenon
<1>18. Runes(q) = Runes(a) + Gap(gap) + Runes(b)
  BY <1>3, <1>5, <1>12, <1>13, <1>14, <1>15, <1>16, <1>17
<1>19. EndOf(q) = EndOf(b)
  BY <1>2, <1>10 DEF EndOf
<1> QED BY <1>8, <1>9, <1>18, <1>19

-----------------------------------------------------------------------------
(* Many texts joined.                                                      *)

\* A part of a slice.
LEMMA PartOf ==
  ASSUME NEW S, NEW s \in Seq(S), NEW m \in 1..Len(s), NEW n \in 1..Len(s), m <= n
  PROVE  /\ SubSeq(s, m, n) \in Seq(S)
         /\ Len(SubSeq(s, m, n)) = n + 1 - m
         /\ \A i \in 1..(n + 1 - m) : SubSeq(s, m, n)[i] = s[m + i - 1] /\ m + i - 1 \in m..n
         /\ \A i \in m..n : i + 1 - m \in 1..(n + 1 - m) /\ SubSeq(s, m, n)[i + 1 - m] = s[i]
<1>1. PICK w \in Nat : w = Len(s)
  OBVIOUS
<1>2. m \in 1..w /\ n \in 1..w
  BY <1>1
<1>3. \A i \in m..n : s[i] \in S
  BY <1>1, <1>2, ElementOfSeq
<1>4. PICK p : p = SubSeq(s, m, n)
  OBVIOUS
<1>5. /\ p \in Seq(S) /\ Len(p) = IF m <= n THEN n - m + 1 ELSE 0
      /\ \A i \in 1..n - m + 1 : p[i] = s[m + i - 1]
  BY <1>2, <1>3, <1>4, SubSeqProperties
<1>6. Len(p) = n + 1 - m /\ \A i \in 1..(n + 1 - m) : p[i] = s[m + i - 1] /\ m + i - 1 \in m..n
  BY <1>2, <1>5
<1>7. ASSUME NEW i \in m..n PROVE i + 1 - m \in 1..(n + 1 - m) /\ p[i + 1 - m] = s[i]
  <2>1. PICK j \in 1..(n + 1 - m) : j = i + 1 - m /\ m + j - 1 = i
    BY <1>2
  <2> QED BY <1>6, <2>1
<1> QED BY <1>4, <1>5, <1>6, <1>7

\* The loop of AllJoined joins one text after another.
LEMMA AllJoinedAppend ==
  ASSUME NEW s \in Seq(Text), NEW gap \in Gaps
  PROVE  /\ AllJoined(s, gap) \in Text /\ AllJoined(<<>>, gap) = <<>>
         /\ \A x \in Text : AllJoined(Append(s, x), gap) \in {Joined(AllJoined(s, gap), gap, x)}
<1> DEFINE join == [p \in Text \X Text |-> Joined(p[1], gap, p[2])]
           Next(p) == Joined(p[1], gap, p[2])
           I == [i \in 0..Len(s) |-> Text]
<1>1. \A a, b \in Text : Joined(a, gap, b) \in Text
  BY JoinedShape
<1>2. join \in [Text \X Text -> Text]
  <2>1. \A p \in Text \X Text : Next(p) \in Text
    BY <1>1
  <2>2. join = [p \in Text \X Text |-> Next(p)]
    OBVIOUS
  <2> HIDE DEF join, Next
  <2> QED BY <2>1, <2>2
<1>3. \A x : AllJoined(x, gap) = Looped(join, <<>>, x)
  BY DEF AllJoined
<1>4. \A a, b \in Text : join[<<a, b>>] = Joined(a, gap, b)
  OBVIOUS
<1>5. <<>> \in Text
  BY EmptySeq DEF Text
<1>6. Len(s) \in Nat
  OBVIOUS
<1>7. <<>> \in I[0] /\ \A i \in 0..Len(s) : I[i] = Text
  BY <1>5, <1>6
<1> HIDE DEF join, I
<1>8. \A i \in 1..Len(s) : \A x \in Text : x \in I[i - 1] => join[<<x, s[i]>>] \in I[i]
  <2> SUFFICES ASSUME NEW i \in 1..Len(s), NEW x \in Text PROVE join[<<x, s[i]>>] \in I[i]
    OBVIOUS
  <2>1. s[i] \in Text /\ i \in 0..Len(s)
    BY <1>6, ElementOfSeq
  <2>2. join[<<x, s[i]>>] \in Text
    BY <1>1, <1>4, <2>1, Zenon
  <2> QED BY <1>7, <2>1, <2>2, Zenon
<1>9. Looped(join, <<>>, s) \in Text
  BY <1>2, <1>5, <1>7, <1>8, LoopKeeps, Zenon
<1>10. Looped(join, <<>>, <<>>) = <<>>
  BY <1>2, <1>5, LoopEmpty, Zenon
<1>11. ASSUME NEW x \in Text
       PROVE  Looped(join, <<>>, Append(s, x)) = Joined(Looped(join, <<>>, s), gap, x)
  <2>1. Looped(join, <<>>, Append(s, x)) \in {join[<<Looped(join, <<>>, s), x>>]}
    BY <1>2, <1>5, LoopAppend, Zenon
  <2>2. Looped(join, <<>>, Append(s, x)) = join[<<Looped(join, <<>>, s), x>>]
    BY <2>1
  <2> QED BY <1>4, <1>9, <2>2, Zenon
<1>12. \A x \in Text : AllJoined(Append(s, x), gap) = Joined(AllJoined(s, gap), gap, x)
  BY <1>3, <1>11, Zenon
<1>13. AllJoined(s, gap) \in Text /\ AllJoined(<<>>, gap) = <<>>
  BY <1>3, <1>9, <1>10, Zenon
<1> QED BY <1>12, <1>13

\* One text joined is itself.
LEMMA AllJoinedOne ==
  ASSUME NEW x \in Text, NEW gap \in Gaps
  PROVE  AllJoined(<<x>>, gap) = x
<1>1. PICK s \in Seq(Text) : s = <<>>
  BY EmptySeq
<1>2. AllJoined(Append(s, x), gap) \in {Joined(AllJoined(s, gap), gap, x)} /\ AllJoined(<<>>, gap) = <<>>
  BY AllJoinedAppend, Zenon
<1>3. Append(s, x) = <<x>>
  BY <1>1
<1>4. AllJoined(<<x>>, gap) = Joined(<<>>, gap, x)
  BY <1>1, <1>2, <1>3
<1>5. <<>> \o x = x
  BY ConcatEmptySeq DEF Text
<1> QED BY <1>4, <1>5 DEF Joined

\* Texts in their order, one after another.
InSequence(texts) ==
  /\ texts \in Seq(Text)
  /\ \A k \in 1..Len(texts) : InOrder(texts[k])
  /\ \A k, l \in 1..Len(texts) : k < l => Before(Points(texts[k]), Points(texts[l]))

AllDivided(texts) == \A k \in 1..Len(texts) : Divided(texts[k])

\* q says what texts m to n say.
SaysAll(q, texts, m, n) ==
  /\ q \in Text /\ InOrder(q)
  /\ \A p : p \in Points(q) <=> \E k \in m..n : p \in Points(texts[k])
  /\ AllDivided(texts) => Divided(q)

\* The empty text.
LEMMA EmptyText == <<>> \in Text /\ Points(<<>>) = {} /\ InOrder(<<>>) /\ Divided(<<>>)
<1>1. <<>> \in Text
  BY EmptySeq DEF Text
<1>2. Points(<<>>) = {}
  BY <1>1, IdsOfPoints
<1>3. DOMAIN <<>> = {}
  OBVIOUS
<1> QED BY <1>1, <1>2, <1>3 DEF InOrder, Divided

\* strings.Join loses nothing and keeps the order.
LEMMA AllJoinedKeeps ==
  ASSUME NEW s, InSequence(s), NEW gap \in Gaps
  PROVE  SaysAll(AllJoined(s, gap), s, 1, Len(s))
<1>1. PICK n \in Nat : n = Len(s)
  BY DEF InSequence
<1>2. s \in Seq(Text)
  BY DEF InSequence
<1> DEFINE join == [p \in Text \X Text |-> Joined(p[1], gap, p[2])]
           Next(p) == Joined(p[1], gap, p[2])
           I == [i \in 0..n |-> {q \in Text : SaysAll(q, s, 1, i)}]
<1>3. \A a, b \in Text : Joined(a, gap, b) \in Text
  BY JoinedShape
<1>4. join \in [Text \X Text -> Text]
  <2>1. \A p \in Text \X Text : Next(p) \in Text
    BY <1>3
  <2>2. join = [p \in Text \X Text |-> Next(p)]
    OBVIOUS
  <2> HIDE DEF join, Next
  <2> QED BY <2>1, <2>2
<1>5. AllJoined(s, gap) = Looped(join, <<>>, s)
  BY DEF AllJoined
<1>6. \A a, b \in Text : join[<<a, b>>] = Joined(a, gap, b)
  OBVIOUS
<1>7. \A i \in 0..n : \A q : q \in I[i] <=> q \in Text /\ SaysAll(q, s, 1, i)
  OBVIOUS
<1> HIDE DEF join, I
<1>8. <<>> \in Text /\ <<>> \in I[0]
  <2>1. SaysAll(<<>>, s, 1, 0)
    BY EmptyText DEF SaysAll
  <2> QED BY <1>7, <2>1, EmptyText
<1>9. ASSUME NEW i \in 1..Len(s), NEW q \in Text, q \in I[i - 1]
      PROVE  join[<<q, s[i]>>] \in I[i]
  <2>1. i \in 1..n /\ i - 1 \in 0..n /\ i \in 0..n
    BY <1>1
  <2>2. SaysAll(q, s, 1, i - 1)
    BY <1>7, <1>9, <2>1
  <2>3. PICK x \in Text : x = s[i] /\ InOrder(x)
    BY <1>1, <1>2, <2>1, ElementOfSeq DEF InSequence
  <2>4. PICK y \in Text : y = Joined(q, gap, x)
    BY <1>3
  <2>5. Before(Points(q), Points(x))
    <3> SUFFICES ASSUME NEW p \in Points(q), NEW r \in Points(x) PROVE p[1] < r[1]
      BY DEF Before
    <3>1. PICK k \in 1..i - 1 : p \in Points(s[k])
      BY <2>2 DEF SaysAll
    <3>2. k \in 1..n /\ k < i
      BY <2>1
    <3>3. Before(Points(s[k]), Points(s[i]))
      BY <1>1, <2>1, <3>2 DEF InSequence
    <3> QED BY <2>3, <3>1, <3>3 DEF Before
  <2>6. InOrder(q) /\ (AllDivided(s) => Divided(q))
    BY <2>2 DEF SaysAll
  <2>7. InOrder(y)
    BY <2>3, <2>4, <2>5, <2>6, JoinedInOrder
  <2>8. ASSUME AllDivided(s) PROVE Divided(y)
    <3>1. Divided(x)
      BY <1>1, <2>1, <2>3, <2>8 DEF AllDivided
    <3> QED BY <2>4, <2>6, <2>8, <3>1, JoinedDivided
  <2>9. Points(y) = Points(q) \cup Points(x)
    BY <2>4, JoinedPoints
  <2>10. \A p : p \in Points(q) <=> \E k \in 1..i - 1 : p \in Points(s[k])
    BY <2>2 DEF SaysAll
  <2>11. \A k : k \in 1..i <=> k \in 1..i - 1 \/ k = i
    BY <2>1
  <2>12. \A p : p \in Points(y) <=> \E k \in 1..i : p \in Points(s[k])
    BY <2>3, <2>9, <2>10, <2>11
  <2>13. SaysAll(y, s, 1, i)
    BY <2>7, <2>8, <2>12 DEF SaysAll
  <2>14. join[<<q, s[i]>>] = y
    BY <1>6, <2>3, <2>4, Zenon
  <2> QED BY <1>7, <2>1, <2>13, <2>14
<1>10. Looped(join, <<>>, s) \in I[Len(s)]
  BY <1>2, <1>4, <1>8, <1>9, LoopKeeps, Zenon
<1>11. n \in 0..n
  OBVIOUS
<1> QED BY <1>1, <1>5, <1>7, <1>10, <1>11

\* A part of the texts joined.
LEMMA RangeJoined ==
  ASSUME NEW s, InSequence(s), NEW gap \in Gaps, NEW m \in 1..Len(s), NEW n \in 1..Len(s), m <= n
  PROVE  /\ SaysAll(AllJoined(SubSeq(s, m, n), gap), s, m, n)
         /\ m = n => AllJoined(SubSeq(s, m, n), gap) = s[n]
<1>1. PICK w \in Nat : w = Len(s)
  BY DEF InSequence
<1>2. s \in Seq(Text) /\ m \in 1..w /\ n \in 1..w
  BY <1>1 DEF InSequence
<1>3. PICK q \in Seq(Text) : q = SubSeq(s, m, n)
  BY <1>2, PartOf
<1>4. PICK l \in Nat : l = Len(q)
  OBVIOUS
<1>5. /\ l = n + 1 - m
      /\ \A i \in 1..l : q[i] = s[m + i - 1] /\ m + i - 1 \in m..n
      /\ \A i \in m..n : i + 1 - m \in 1..l /\ q[i + 1 - m] = s[i]
  BY <1>2, <1>3, <1>4, PartOf
<1>6. \A k \in 1..w : InOrder(s[k])
  BY <1>1 DEF InSequence
<1>7. \A k, i \in 1..w : k < i => Before(Points(s[k]), Points(s[i]))
  BY <1>1 DEF InSequence
<1>8. \A i \in m..n : i \in 1..w
  BY <1>2
<1>9. InSequence(q)
  <2>1. \A k \in 1..l : InOrder(q[k])
    BY <1>5, <1>6, <1>8
  <2>2. ASSUME NEW k \in 1..l, NEW i \in 1..l, k < i PROVE Before(Points(q[k]), Points(q[i]))
    <3>1. m + k - 1 \in 1..w /\ m + i - 1 \in 1..w /\ m + k - 1 < m + i - 1
      BY <1>2, <1>5, <1>8, <2>2
    <3>2. Before(Points(s[m + k - 1]), Points(s[m + i - 1]))
      BY <1>7, <3>1
    <3> QED BY <1>5, <3>2
  <2> QED BY <1>4, <2>1, <2>2 DEF InSequence
<1>10. PICK y : y = AllJoined(q, gap)
  OBVIOUS
<1>11. SaysAll(y, q, 1, l)
  BY <1>4, <1>9, <1>10, AllJoinedKeeps
<1>12. ASSUME NEW p PROVE p \in Points(y) <=> \E k \in m..n : p \in Points(s[k])
  <2>1. p \in Points(y) <=> \E k \in 1..l : p \in Points(q[k])
    BY <1>11 DEF SaysAll
  <2>2. ASSUME NEW k \in 1..l, p \in Points(q[k]) PROVE \E i \in m..n : p \in Points(s[i])
    BY <1>5, <2>2
  <2>3. ASSUME NEW k \in m..n, p \in Points(s[k]) PROVE \E i \in 1..l : p \in Points(q[i])
    BY <1>5, <2>3
  <2> QED BY <2>1, <2>2, <2>3
<1>13. ASSUME AllDivided(s) PROVE AllDivided(q)
  <2>1. \A k \in 1..w : Divided(s[k])
    BY <1>1, <1>13 DEF AllDivided
  <2> QED BY <1>4, <1>5, <1>8, <2>1 DEF AllDivided
<1>14. SaysAll(y, s, m, n)
  BY <1>11, <1>12, <1>13 DEF SaysAll
<1>15. ASSUME m = n PROVE y = s[n]
  <2>1. SubSeq(s, m, n) = <<s[n]>> /\ s[n] \in Text
    <3>1. m \in 1..Len(s) /\ n \in 1..Len(s) /\ m <= n
      OBVIOUS
    <3> QED BY <1>2, <1>15, <3>1, PartAppend, Zenon
  <2>2. AllJoined(<<s[n]>>, gap) = s[n]
    BY <2>1, AllJoinedOne
  <2> QED BY <1>3, <1>10, <2>1, <2>2
<1> QED BY <1>3, <1>10, <1>14, <1>15

-----------------------------------------------------------------------------
(* Slices one after another.                                               *)

\* q are the elements of ss[1..n]: element k is ss[g[k]][h[k]].
FlatOf(q, g, h, ss, n) ==
  /\ g \in [1..Len(q) -> 1..n] /\ h \in [1..Len(q) -> Nat]
  /\ \A k \in 1..Len(q) : h[k] \in 1..Len(ss[g[k]]) /\ q[k] = ss[g[k]][h[k]]
  /\ \A k, l \in 1..Len(q) : k < l => g[k] < g[l] \/ (g[k] = g[l] /\ h[k] < h[l])
  /\ \A i \in 1..n : \A j \in 1..Len(ss[i]) : \E k \in 1..Len(q) : g[k] = i /\ h[k] = j

\* One more slice is appended.
LEMMA FlatMore ==
  ASSUME NEW S, NEW ss \in Seq(Seq(S)), NEW n \in 1..Len(ss), NEW q \in Seq(S), NEW g, NEW h,
         FlatOf(q, g, h, ss, n - 1)
  PROVE  q \o ss[n] \in Seq(S) /\ \E e, f : FlatOf(q \o ss[n], e, f, ss, n)
<1>1. PICK w \in Nat : w = Len(ss)
  OBVIOUS
<1>2. n \in 1..w /\ n - 1 \in Nat
  BY <1>1
<1>3. PICK x \in Seq(S) : x = ss[n]
  BY ElementOfSeq
<1>4. PICK l \in Nat : l = Len(q)
  OBVIOUS
<1>5. PICK m \in Nat : m = Len(x)
  OBVIOUS
<1>6. PICK y \in Seq(S) : y = q \o x
  BY ConcatProperties
<1>7. Len(y) = l + m /\ \A k \in 1..l + m : y[k] = IF k <= l THEN q[k] ELSE x[k - l]
  BY <1>4, <1>5, <1>6, ConcatProperties
<1>8. /\ g \in [1..l -> 1..n - 1] /\ h \in [1..l -> Nat]
      /\ \A k \in 1..l : h[k] \in 1..Len(ss[g[k]]) /\ q[k] = ss[g[k]][h[k]]
      /\ \A k, i \in 1..l : k < i => g[k] < g[i] \/ (g[k] = g[i] /\ h[k] < h[i])
      /\ \A i \in 1..n - 1 : \A j \in 1..Len(ss[i]) : \E k \in 1..l : g[k] = i /\ h[k] = j
  BY <1>4 DEF FlatOf
<1>9. PICK e : e = [k \in 1..l + m |-> IF k <= l THEN g[k] ELSE n]
  OBVIOUS
<1>10. PICK f : f = [k \in 1..l + m |-> IF k <= l THEN h[k] ELSE k - l]
  OBVIOUS
<1>11. \A k \in 1..l : k \in 1..l + m /\ k <= l
  OBVIOUS
<1>12. \A k \in 1..l : e[k] = g[k] /\ f[k] = h[k] /\ g[k] \in 1..n - 1 /\ h[k] \in Nat /\ y[k] = q[k]
  BY <1>7, <1>8, <1>9, <1>10, <1>11
<1>13. \A k \in 1..l + m : k \notin 1..l => k - l \in 1..m /\ ~(k <= l)
  OBVIOUS
<1>14. \A k \in 1..l + m : k \notin 1..l => e[k] = n /\ f[k] = k - l /\ y[k] = x[k - l]
  BY <1>7, <1>9, <1>10, <1>13
<1>15. e \in [1..l + m -> 1..n] /\ f \in [1..l + m -> Nat]
  <2>1. \A k \in 1..l + m : e[k] \in 1..n /\ f[k] \in Nat
    <3> SUFFICES ASSUME NEW k \in 1..l + m PROVE e[k] \in 1..n /\ f[k] \in Nat
      OBVIOUS
    <3>1. CASE k \in 1..l
      <4>1. e[k] = g[k] /\ g[k] \in 1..n - 1 /\ f[k] = h[k] /\ h[k] \in Nat
        BY <1>12, <3>1, Zenon
      <4>2. \A a \in 1..n - 1 : a \in 1..n
        BY <1>2
      <4> QED BY <4>1, <4>2, Zenon
    <3>2. CASE k \notin 1..l
      BY <1>2, <1>13, <1>14, <3>2
    <3> QED BY <3>1, <3>2
  <2> QED BY <1>9, <1>10, <2>1
<1>16. ASSUME NEW k \in 1..l + m
       PROVE  f[k] \in 1..Len(ss[e[k]]) /\ y[k] = ss[e[k]][f[k]]
  <2>1. CASE k \in 1..l
    BY <1>8, <1>12, <2>1
  <2>2. CASE k \notin 1..l
    BY <1>3, <1>5, <1>13, <1>14, <2>2
  <2> QED BY <2>1, <2>2
<1>17. ASSUME NEW k \in 1..l + m, NEW i \in 1..l + m, k < i
       PROVE  e[k] < e[i] \/ (e[k] = e[i] /\ f[k] < f[i])
  <2>1. CASE i \in 1..l
    <3>1. k \in 1..l
      BY <1>17, <2>1
    <3>2. g[k] < g[i] \/ (g[k] = g[i] /\ h[k] < h[i])
      BY <1>8, <1>17, <2>1, <3>1, Zenon
    <3>3. e[k] = g[k] /\ f[k] = h[k] /\ e[i] = g[i] /\ f[i] = h[i]
      BY <1>12, <2>1, <3>1, Zenon
    <3> QED BY <3>2, <3>3, Zenon
  <2>2. CASE i \notin 1..l /\ k \in 1..l
    <3>1. e[k] = g[k] /\ g[k] \in 1..n - 1 /\ e[i] = n
      BY <1>12, <1>14, <2>2, Zenon
    <3>2. \A a \in 1..n - 1 : a < n
      BY <1>2
    <3> QED BY <3>1, <3>2, Zenon
  <2>3. CASE i \notin 1..l /\ k \notin 1..l
    <3>1. e[k] = n /\ e[i] = n /\ f[k] = k - l /\ f[i] = i - l
      BY <1>14, <2>3, Zenon
    <3>2. k - l < i - l
      BY <1>17
    <3> QED BY <3>1, <3>2, Zenon
  <2> QED BY <2>1, <2>2, <2>3
<1>18. ASSUME NEW i \in 1..n, NEW j \in 1..Len(ss[i])
       PROVE  \E k \in 1..l + m : e[k] = i /\ f[k] = j
  <2>1. CASE i = n
    <3>1. PICK k \in 1..l + m : k = l + j /\ k \notin 1..l /\ k - l = j
      BY <1>3, <1>5, <2>1
    <3> QED BY <1>14, <2>1, <3>1
  <2>2. CASE i # n
    <3>1. i \in 1..n - 1
      BY <1>2, <2>2
    <3>2. PICK k \in 1..l : g[k] = i /\ h[k] = j
      BY <1>8, <3>1
    <3> QED BY <1>11, <1>12, <3>2
  <2> QED BY <2>1, <2>2
<1>19. FlatOf(y, e, f, ss, n)
  BY <1>7, <1>15, <1>16, <1>17, <1>18 DEF FlatOf
<1> QED BY <1>3, <1>6, <1>19

\* FlattenSeq puts them together in a loop.
LEMMA FlattenLoop ==
  ASSUME NEW S, NEW ss \in Seq(Seq(S))
  PROVE  LET cat == [p \in Seq(S) \X Seq(S) |-> p[1] \o p[2]]
         IN  cat \in [Seq(S) \X Seq(S) -> Seq(S)] /\ FlattenSeq(ss) = Looped(cat, <<>>, ss)
<1> DEFINE cat == [p \in Seq(S) \X Seq(S) |-> p[1] \o p[2]]
           Next(p) == p[1] \o p[2]
<1>1. PICK n \in Nat : n = Len(ss)
  OBVIOUS
<1>2. \A i \in 1..n : ss[i] \in Seq(S)
  BY <1>1, ElementOfSeq
<1>3. \A a, b \in Seq(S) : cat[<<a, b>>] = a \o b
  OBVIOUS
<1>4. cat \in [Seq(S) \X Seq(S) -> Seq(S)]
  <2>1. cat = [p \in Seq(S) \X Seq(S) |-> Next(p)]
    OBVIOUS
  <2>2. \A p \in Seq(S) \X Seq(S) : Next(p) \in Seq(S)
    BY ConcatProperties
  <2> HIDE DEF cat, Next
  <2> QED BY <2>1, <2>2
<1>5. <<>> \in Seq(S)
  BY EmptySeq
<1>6. CASE n = 0
  <2>1. ss = <<>>
    BY <1>1, <1>6, EmptySeq
  <2>2. Looped(cat, <<>>, <<>>) = <<>>
    <3> HIDE DEF cat
    <3> QED BY <1>4, <1>5, LoopEmpty, Zenon
  <2>3. FlattenSeq(ss) = ss
    BY <1>1, <1>6 DEF FlattenSeq
  <2> QED BY <1>4, <2>1, <2>2, <2>3
<1>7. CASE n # 0
  <2> DEFINE Is(f) == f = [i \in 1..n |-> IF i = 1 THEN ss[i] ELSE f[i - 1] \o ss[i]]
  <2>1. PICK f \in [0..n -> Seq(S)] :
          /\ f[0] = <<>>
          /\ \A i \in 1..n : f[i] = cat[<<f[i - 1], ss[i]>>]
          /\ Looped(cat, <<>>, ss) = f[n]
    <3> HIDE DEF cat
    <3>1. \E f \in [0..Len(ss) -> Seq(S)] : LoopIs(f, cat, <<>>, ss)
      BY <1>4, <1>5, LoopStates, Zenon
    <3> QED BY <1>1, <3>1 DEF LoopIs
  <2>2. \A i \in 1..n : f[i] = f[i - 1] \o ss[i]
    <3> SUFFICES ASSUME NEW i \in 1..n PROVE f[i] = f[i - 1] \o ss[i]
      OBVIOUS
    <3>1. i - 1 \in 0..n
      OBVIOUS
    <3>2. f[i - 1] \in Seq(S) /\ ss[i] \in Seq(S)
      BY <1>2, <3>1
    <3> HIDE DEF cat
    <3> QED BY <1>3, <2>1, <3>2, Zenon
  <2>3. PICK g : g = [i \in 1..n |-> f[i]]
    OBVIOUS
  <2>4. \A i \in 1..n : g[i] = IF i = 1 THEN ss[i] ELSE g[i - 1] \o ss[i]
    <3> SUFFICES ASSUME NEW i \in 1..n PROVE g[i] = IF i = 1 THEN ss[i] ELSE g[i - 1] \o ss[i]
      OBVIOUS
    <3>1. g[i] = f[i - 1] \o ss[i]
      BY <2>2, <2>3
    <3>2. CASE i = 1
      <4>1. f[i - 1] = <<>>
        BY <2>1, <3>2
      <4>2. <<>> \o ss[i] = ss[i]
        BY <1>2, ConcatEmptySeq
      <4> QED BY <3>1, <3>2, <4>1, <4>2
    <3>3. CASE i # 1
      <4>1. i - 1 \in 1..n
        BY <3>3
      <4>2. g[i - 1] = f[i - 1]
        BY <2>3, <4>1
      <4> QED BY <3>1, <3>3, <4>2
    <3> QED BY <3>2, <3>3
  <2>5. Is(g)
    <3>1. g = [i \in 1..n |-> g[i]]
      BY <2>3
    <3> QED BY <2>4, <3>1
  <2>6. PICK e : e = CHOOSE x : Is(x)
    OBVIOUS
  <2>7. Is(e)
    <3> HIDE DEF Is
    <3> QED BY <2>5, <2>6
  <2>8. FlattenSeq(ss) = e[n]
    <3>1. n \in 1..n /\ Len(ss) # 0
      BY <1>1, <1>7
    <3> QED BY <1>1, <2>6, <3>1 DEF FlattenSeq
  <2>9. \A i \in 1..n : e[i] = IF i = 1 THEN ss[i] ELSE e[i - 1] \o ss[i]
    BY <2>7
  <2> DEFINE T == {i \in 1..n : e[i] # f[i]}
  <2>10. T = {}
    <3> SUFFICES ASSUME T # {} PROVE FALSE
      OBVIOUS
    <3>1. T \in SUBSET Nat
      OBVIOUS
    <3>2. PICK i \in T : \A j \in T : i <= j
      BY <3>1, LeastNatural
    <3>3. i \in 1..n /\ e[i] # f[i]
      BY <3>2
    <3>4. f[i] = f[i - 1] \o ss[i]
      BY <2>2, <3>3
    <3>5. CASE i = 1
      <4>1. f[i - 1] = <<>>
        BY <2>1, <3>5
      <4>2. <<>> \o ss[i] = ss[i]
        BY <1>2, <3>3, ConcatEmptySeq
      <4> QED BY <2>9, <3>3, <3>4, <3>5, <4>1, <4>2
    <3>6. CASE i # 1
      <4>1. i - 1 \in 1..n /\ ~(i <= i - 1)
        BY <3>3, <3>6
      <4>2. e[i - 1] = f[i - 1]
        BY <3>2, <4>1
      <4> QED BY <2>9, <3>3, <3>4, <3>6, <4>2
    <3> QED BY <3>5, <3>6
  <2>11. e[n] = f[n]
    <3>1. n \in 1..n
      BY <1>7
    <3> QED BY <2>10, <3>1
  <2> QED BY <1>4, <2>1, <2>8, <2>11
<1> QED BY <1>6, <1>7

\* What is in the slices is in the flat one, in the same order.
LEMMA FlattenIsFlat ==
  ASSUME NEW S, NEW ss \in Seq(Seq(S))
  PROVE  FlattenSeq(ss) \in Seq(S) /\ \E g, h : FlatOf(FlattenSeq(ss), g, h, ss, Len(ss))
<1> DEFINE cat == [p \in Seq(S) \X Seq(S) |-> p[1] \o p[2]]
           I == [i \in 0..Len(ss) |-> {q \in Seq(S) : \E g, h : FlatOf(q, g, h, ss, i)}]
<1>1. cat \in [Seq(S) \X Seq(S) -> Seq(S)] /\ FlattenSeq(ss) = Looped(cat, <<>>, ss)
  BY FlattenLoop, Zenon
<1>2. \A a, b \in Seq(S) : cat[<<a, b>>] = a \o b
  OBVIOUS
<1>3. Len(ss) \in Nat
  OBVIOUS
<1>4. \A i \in 0..Len(ss) : \A q : q \in I[i] <=> q \in Seq(S) /\ \E g, h : FlatOf(q, g, h, ss, i)
  OBVIOUS
<1> HIDE DEF cat, I
<1>5. <<>> \in Seq(S) /\ <<>> \in I[0]
  <2>1. <<>> \in Seq(S) /\ Len(<<>>) = 0
    BY EmptySeq
  <2>2. PICK e : e = [k \in 1..0 |-> 0]
    OBVIOUS
  <2>3. FlatOf(<<>>, e, e, ss, 0)
    BY <2>1, <2>2 DEF FlatOf
  <2>4. 0 \in 0..Len(ss)
    BY <1>3
  <2> QED BY <1>4, <2>1, <2>3, <2>4, Zenon
<1>6. ASSUME NEW i \in 1..Len(ss), NEW q \in Seq(S), q \in I[i - 1]
      PROVE  cat[<<q, ss[i]>>] \in I[i]
  <2>1. i - 1 \in 0..Len(ss) /\ i \in 0..Len(ss)
    BY <1>3
  <2>2. PICK g, h : FlatOf(q, g, h, ss, i - 1)
    BY <1>4, <1>6, <2>1, Zenon
  <2>3. q \o ss[i] \in Seq(S) /\ \E e, f : FlatOf(q \o ss[i], e, f, ss, i)
    BY <2>2, FlatMore, Zenon
  <2>4. ss[i] \in Seq(S)
    BY ElementOfSeq
  <2>5. cat[<<q, ss[i]>>] = q \o ss[i]
    BY <1>2, <2>4, Zenon
  <2> QED BY <1>4, <2>1, <2>3, <2>5, Zenon
<1>7. Looped(cat, <<>>, ss) \in Seq(S) /\ Looped(cat, <<>>, ss) \in I[Len(ss)]
  BY <1>1, <1>5, <1>6, LoopKeeps, Zenon
<1>8. Len(ss) \in 0..Len(ss)
  BY <1>3
<1> QED BY <1>1, <1>4, <1>7, <1>8, Zenon

-----------------------------------------------------------------------------
(* What a list of texts keeps of the points of a text.                     *)

\* The texts divide P among them, in order.
Division(texts, P) ==
  /\ InSequence(texts)
  /\ \A k \in 1..Len(texts) : texts[k] # <<>> /\ Points(texts[k]) \subseteq P
  /\ \A p \in P : \E k \in 1..Len(texts) : p \in Points(texts[k])

\* The texts say P, except for L; they may repeat what another says.
Says(texts, P, L) ==
  /\ texts \in Seq(Text)
  /\ \A k \in 1..Len(texts) :
       texts[k] # <<>> /\ InOrder(texts[k]) /\ Points(texts[k]) \subseteq P
  /\ \A p \in P : p \in L \/ \E k \in 1..Len(texts) : p \in Points(texts[k])
  /\ P # {} => texts # <<>>
  /\ \A k, l \in 1..Len(texts) : k < l => EndsBefore(texts[k], texts[l])

\* The end of a text is a point of it.
LEMMA EndIsPoint ==
  ASSUME NEW text \in Text, text # <<>>
  PROVE  /\ EndOf(text) \in Stretch
         /\ \E p \in Points(text) : p[1] = EndOf(text).id
<1>1. PICK n \in Nat \ {0} : n = Len(text)
  BY EmptySeq DEF Text
<1>2. n \in 1..Len(text) /\ DOMAIN text = 1..n
  BY <1>1 DEF Text
<1>3. text[n] \in Stretch
  BY <1>2, ElementOfSeq DEF Text
<1>4. text[n].id \in Ids(text)
  BY <1>2, <1>1 DEF Ids
<1>5. \E p \in Points(text) : p[1] = text[n].id
  BY <1>4, IdsOfPoints
<1> QED BY <1>1, <1>3, <1>5 DEF EndOf

\* Of two texts that follow each other the first ends first.
LEMMA BeforeEnds ==
  ASSUME NEW a \in Text, NEW b \in Text, a # <<>>, b # <<>>, Before(Points(a), Points(b))
  PROVE  EndsBefore(a, b)
<1>1. PICK p \in Points(a) : p[1] = EndOf(a).id
  BY EndIsPoint
<1>2. PICK q \in Points(b) : q[1] = EndOf(b).id
  BY EndIsPoint
<1>3. p[1] < q[1]
  BY DEF Before
<1> QED BY <1>1, <1>2, <1>3 DEF EndsBefore

\* A division says everything.
LEMMA DivisionSays ==
  ASSUME NEW P, NEW texts, Division(texts, P)
  PROVE  Says(texts, P, {})
<1>1. PICK n \in Nat : n = Len(texts)
  BY DEF Division, InSequence
<1>2. texts \in Seq(Text) /\ \A k \in 1..n : texts[k] \in Text
  BY <1>1, ElementOfSeq DEF Division, InSequence
<1>3. \A k \in 1..n : texts[k] # <<>> /\ InOrder(texts[k]) /\ Points(texts[k]) \subseteq P
  BY <1>1 DEF Division, InSequence
<1>4. \A p \in P : \E k \in 1..n : p \in Points(texts[k])
  BY <1>1 DEF Division
<1>5. \A k, l \in 1..n : k < l => EndsBefore(texts[k], texts[l])
  <2> SUFFICES ASSUME NEW k \in 1..n, NEW l \in 1..n, k < l PROVE EndsBefore(texts[k], texts[l])
    OBVIOUS
  <2>1. Before(Points(texts[k]), Points(texts[l]))
    BY <1>1 DEF Division, InSequence
  <2> QED BY <1>2, <1>3, <2>1, BeforeEnds
<1>6. ASSUME P # {} PROVE texts # <<>>
  <2>1. PICK p \in P : TRUE
    BY <1>6
  <2>2. PICK k \in 1..n : p \in Points(texts[k])
    BY <1>4
  <2> QED BY <1>1, <2>2
<1> QED BY <1>1, <1>2, <1>3, <1>4, <1>5, <1>6 DEF Says

\* Divided again, what is divided is still.
LEMMA FlatDivision ==
  ASSUME NEW P, NEW texts, Division(texts, P), NEW ss \in Seq(Seq(Text)), Len(ss) = Len(texts),
         \A i \in 1..Len(ss) : Division(ss[i], Points(texts[i]))
  PROVE  Division(FlattenSeq(ss), P)
<1>1. PICK n \in Nat : n = Len(texts) /\ n = Len(ss)
  BY DEF Division, InSequence
<1>2. PICK q \in Seq(Text) : q = FlattenSeq(ss) /\ \E g, h : FlatOf(q, g, h, ss, n)
  BY <1>1, FlattenIsFlat, Zenon
<1>3. PICK g, h : FlatOf(q, g, h, ss, n)
  BY <1>2
<1>4. PICK w \in Nat : w = Len(q)
  OBVIOUS
<1>5. /\ g \in [1..w -> 1..n] /\ h \in [1..w -> Nat]
      /\ \A k \in 1..w : h[k] \in 1..Len(ss[g[k]]) /\ q[k] = ss[g[k]][h[k]]
      /\ \A k, l \in 1..w : k < l => g[k] < g[l] \/ (g[k] = g[l] /\ h[k] < h[l])
      /\ \A i \in 1..n : \A j \in 1..Len(ss[i]) : \E k \in 1..w : g[k] = i /\ h[k] = j
  BY <1>3, <1>4 DEF FlatOf
<1>6. ASSUME NEW i \in 1..n, NEW j \in 1..Len(ss[i])
      PROVE  ss[i][j] # <<>> /\ InOrder(ss[i][j]) /\ Points(ss[i][j]) \subseteq Points(texts[i])
  BY <1>1 DEF Division, InSequence
<1>7. \A k \in 1..w : g[k] \in 1..n
  BY <1>5
<1>8. ASSUME NEW k \in 1..w
      PROVE  q[k] # <<>> /\ InOrder(q[k]) /\ Points(q[k]) \subseteq Points(texts[g[k]])
  <2>1. PICK i \in 1..n : i = g[k]
    BY <1>7
  <2>2. PICK j \in 1..Len(ss[i]) : j = h[k] /\ q[k] = ss[i][j]
    BY <1>5, <2>1
  <2>3. ss[i][j] # <<>> /\ InOrder(ss[i][j]) /\ Points(ss[i][j]) \subseteq Points(texts[i])
    BY <1>6
  <2> QED BY <2>1, <2>2, <2>3
<1>9. \A i \in 1..n : Points(texts[i]) \subseteq P
  BY <1>1 DEF Division
<1>10. \A k \in 1..w : Points(q[k]) \subseteq P
  BY <1>7, <1>8, <1>9
<1>11. ASSUME NEW k \in 1..w, NEW l \in 1..w, k < l
       PROVE  Before(Points(q[k]), Points(q[l]))
  <2>1. CASE g[k] < g[l]
    <3>1. Before(Points(texts[g[k]]), Points(texts[g[l]]))
      BY <1>1, <1>7, <2>1 DEF Division, InSequence
    <3>2. Points(q[k]) \subseteq Points(texts[g[k]]) /\ Points(q[l]) \subseteq Points(texts[g[l]])
      BY <1>8
    <3> QED BY <3>1, <3>2 DEF Before
  <2>2. CASE g[k] = g[l] /\ h[k] < h[l]
    <3>1. PICK i \in 1..n : i = g[k]
      BY <1>7
    <3>2. h[k] \in 1..Len(ss[i]) /\ h[l] \in 1..Len(ss[i]) /\ q[k] = ss[i][h[k]] /\ q[l] = ss[i][h[l]]
      BY <1>5, <2>2, <3>1
    <3>3. \A a, b \in 1..Len(ss[i]) : a < b => Before(Points(ss[i][a]), Points(ss[i][b]))
      BY <1>1, <3>1 DEF Division, InSequence
    <3> QED BY <2>2, <3>2, <3>3
  <2> QED BY <1>5, <1>11, <2>1, <2>2
<1>12. ASSUME NEW p \in P PROVE \E k \in 1..w : p \in Points(q[k])
  <2>1. PICK i \in 1..n : p \in Points(texts[i])
    BY <1>1 DEF Division
  <2>2. PICK j \in 1..Len(ss[i]) : p \in Points(ss[i][j])
    BY <1>1, <2>1 DEF Division
  <2>3. PICK k \in 1..w : g[k] = i /\ h[k] = j
    BY <1>5
  <2> QED BY <1>5, <2>2, <2>3
<1>13. InSequence(q)
  BY <1>4, <1>8, <1>11 DEF InSequence
<1>14. Division(q, P)
  BY <1>4, <1>8, <1>10, <1>12, <1>13 DEF Division
<1> QED BY <1>2, <1>14

\* What is divided, and then each part told, is told.
LEMMA FlatSays ==
  ASSUME NEW P, NEW L, NEW texts, Division(texts, P), NEW ss \in Seq(Seq(Text)), Len(ss) = Len(texts),
         \A i \in 1..Len(ss) : Says(ss[i], Points(texts[i]), L)
  PROVE  Says(FlattenSeq(ss), P, L)
<1>1. PICK n \in Nat : n = Len(texts) /\ n = Len(ss)
  BY DEF Division, InSequence
<1>2. PICK q \in Seq(Text) : q = FlattenSeq(ss) /\ \E g, h : FlatOf(q, g, h, ss, n)
  BY <1>1, FlattenIsFlat, Zenon
<1>3. PICK g, h : FlatOf(q, g, h, ss, n)
  BY <1>2
<1>4. PICK w \in Nat : w = Len(q)
  OBVIOUS
<1>5. /\ g \in [1..w -> 1..n] /\ h \in [1..w -> Nat]
      /\ \A k \in 1..w : h[k] \in 1..Len(ss[g[k]]) /\ q[k] = ss[g[k]][h[k]]
      /\ \A k, l \in 1..w : k < l => g[k] < g[l] \/ (g[k] = g[l] /\ h[k] < h[l])
      /\ \A i \in 1..n : \A j \in 1..Len(ss[i]) : \E k \in 1..w : g[k] = i /\ h[k] = j
  BY <1>3, <1>4 DEF FlatOf
<1>6. ASSUME NEW i \in 1..n, NEW j \in 1..Len(ss[i])
      PROVE  ss[i][j] # <<>> /\ InOrder(ss[i][j]) /\ Points(ss[i][j]) \subseteq Points(texts[i])
  BY <1>1 DEF Says
<1>7. \A k \in 1..w : g[k] \in 1..n /\ q[k] \in Text
  BY <1>4, <1>5, ElementOfSeq
<1>8. ASSUME NEW k \in 1..w
      PROVE  q[k] # <<>> /\ InOrder(q[k]) /\ Points(q[k]) \subseteq Points(texts[g[k]])
  <2>1. PICK i \in 1..n : i = g[k]
    BY <1>7
  <2>2. PICK j \in 1..Len(ss[i]) : j = h[k] /\ q[k] = ss[i][j]
    BY <1>5, <2>1
  <2>3. ss[i][j] # <<>> /\ InOrder(ss[i][j]) /\ Points(ss[i][j]) \subseteq Points(texts[i])
    BY <1>6
  <2> QED BY <2>1, <2>2, <2>3
<1>9. \A i \in 1..n : Points(texts[i]) \subseteq P
  BY <1>1 DEF Division
<1>10. \A k \in 1..w : Points(q[k]) \subseteq P
  BY <1>7, <1>8, <1>9
<1>11. ASSUME NEW k \in 1..w, NEW l \in 1..w, k < l
       PROVE  EndsBefore(q[k], q[l])
  <2>1. CASE g[k] < g[l]
    <3>1. Before(Points(texts[g[k]]), Points(texts[g[l]]))
      BY <1>1, <1>7, <2>1 DEF Division, InSequence
    <3>2. Points(q[k]) \subseteq Points(texts[g[k]]) /\ Points(q[l]) \subseteq Points(texts[g[l]])
      BY <1>8
    <3>3. Before(Points(q[k]), Points(q[l]))
      BY <3>1, <3>2 DEF Before
    <3> QED BY <1>7, <1>8, <3>3, BeforeEnds
  <2>2. CASE g[k] = g[l] /\ h[k] < h[l]
    <3>1. PICK i \in 1..n : i = g[k]
      BY <1>7
    <3>2. h[k] \in 1..Len(ss[i]) /\ h[l] \in 1..Len(ss[i]) /\ q[k] = ss[i][h[k]] /\ q[l] = ss[i][h[l]]
      BY <1>5, <2>2, <3>1
    <3>3. \A a, b \in 1..Len(ss[i]) : a < b => EndsBefore(ss[i][a], ss[i][b])
      BY <1>1, <3>1 DEF Says
    <3> QED BY <2>2, <3>2, <3>3
  <2> QED BY <1>5, <1>11, <2>1, <2>2
<1>12. ASSUME NEW p \in P, p \notin L PROVE \E k \in 1..w : p \in Points(q[k])
  <2>1. PICK i \in 1..n : p \in Points(texts[i])
    BY <1>1 DEF Division
  <2>2. PICK j \in 1..Len(ss[i]) : p \in Points(ss[i][j])
    BY <1>1, <1>12, <2>1 DEF Says
  <2>3. PICK k \in 1..w : g[k] = i /\ h[k] = j
    BY <1>5
  <2> QED BY <1>5, <2>2, <2>3
<1>13. ASSUME P # {} PROVE q # <<>>
  <2>1. PICK p \in P : TRUE
    BY <1>13
  <2>2. PICK i \in 1..n : p \in Points(texts[i])
    BY <1>1 DEF Division
  <2>3. ss[i] # <<>> /\ ss[i] \in Seq(Text)
    BY <1>1, <2>2 DEF Says
  <2>4. 1 \in 1..Len(ss[i])
    BY <2>3, EmptySeq
  <2>5. PICK k \in 1..w : g[k] = i /\ h[k] = 1
    BY <1>5, <2>4
  <2> QED BY <1>4, <2>5
<1>14. Says(q, P, L)
  BY <1>4, <1>8, <1>10, <1>11, <1>12, <1>13 DEF Says
<1> QED BY <1>2, <1>14

-----------------------------------------------------------------------------
(* Where chunks begin.                                                     *)

\* The text that texts m to n are joined to.
LEMMA RangeOfDivision ==
  ASSUME NEW P, NEW texts, Division(texts, P), NEW gap \in Gaps,
         NEW m \in 1..Len(texts), NEW n \in 1..Len(texts), m <= n
  PROVE  LET q == AllJoined(SubSeq(texts, m, n), gap)
         IN  /\ q \in Text /\ q # <<>> /\ InOrder(q) /\ Points(q) \subseteq P
             /\ \A p : p \in Points(q) <=> \E k \in m..n : p \in Points(texts[k])
             /\ AllDivided(texts) => Divided(q)
             /\ m = n => q = texts[n]
<1>1. PICK w \in Nat : w = Len(texts)
  BY DEF Division, InSequence
<1>2. InSequence(texts) /\ texts \in Seq(Text) /\ m \in 1..w /\ n \in 1..w /\ m \in m..n
  BY <1>1 DEF Division, InSequence
<1>3. PICK q : q = AllJoined(SubSeq(texts, m, n), gap)
  OBVIOUS
<1>4. SaysAll(q, texts, m, n) /\ (m = n => q = texts[n])
  BY <1>2, <1>3, RangeJoined
<1>5. /\ q \in Text /\ InOrder(q) /\ (AllDivided(texts) => Divided(q))
      /\ \A p : p \in Points(q) <=> \E k \in m..n : p \in Points(texts[k])
  BY <1>4 DEF SaysAll
<1>6. texts[m] \in Text /\ texts[m] # <<>>
  BY <1>2, ElementOfSeq DEF Division
<1>7. PICK p \in Points(texts[m]) : TRUE
  BY <1>6, IdsOfPoints
<1>8. p \in Points(q)
  BY <1>2, <1>5
<1>9. q # <<>>
  BY <1>5, <1>8, IdsOfPoints
<1>10. \A k \in m..n : Points(texts[k]) \subseteq P
  BY <1>1, <1>2 DEF Division
<1>11. Points(q) \subseteq P
  BY <1>5, <1>10
<1> QED BY <1>3, <1>4, <1>5, <1>9, <1>11

\* One more text, and a separator, in a chunk.
LEMMA RangeRunes ==
  ASSUME NEW P, NEW texts, Division(texts, P), NEW gap \in Gaps,
         NEW m \in 1..Len(texts), NEW n \in 1..Len(texts), m < n
  PROVE  Runes(AllJoined(SubSeq(texts, m, n), gap))
           = Runes(AllJoined(SubSeq(texts, m, n - 1), gap)) + Gap(gap) + Runes(texts[n])
<1>1. PICK w \in Nat : w = Len(texts)
  BY DEF Division, InSequence
<1>2. texts \in Seq(Text) /\ m \in 1..w /\ n \in 1..w /\ n - 1 \in 1..w /\ m <= n - 1 /\ m <= n
  BY <1>1 DEF Division, InSequence
<1>3. PICK r \in Seq(Text) : r = SubSeq(texts, m, n - 1) /\ SubSeq(texts, m, n) = Append(r, texts[n])
  <2>1. /\ SubSeq(texts, m, n - 1) \in Seq(Text)
        /\ SubSeq(texts, m, n) = Append(SubSeq(texts, m, n - 1), texts[n])
    BY <1>2, PartAppend, Zenon
  <2> QED BY <2>1
<1>4. texts[n] \in Text /\ texts[n] # <<>>
  BY <1>1, <1>2, ElementOfSeq DEF Division
<1>5. PICK k \in 1..Len(texts) : k = n - 1 /\ m <= k
  BY <1>1, <1>2
<1>6. AllJoined(SubSeq(texts, m, k), gap) \in Text /\ AllJoined(SubSeq(texts, m, k), gap) # <<>>
  BY <1>5, RangeOfDivision
<1>7. PICK q \in Text : q = AllJoined(r, gap) /\ q # <<>>
  BY <1>3, <1>5, <1>6
<1>8. AllJoined(Append(r, texts[n]), gap) \in {Joined(AllJoined(r, gap), gap, texts[n])}
  BY <1>4, AllJoinedAppend, Zenon
<1>9. AllJoined(SubSeq(texts, m, n), gap) = Joined(q, gap, texts[n])
  BY <1>3, <1>7, <1>8
<1>10. Runes(Joined(q, gap, texts[n])) = Runes(q) + Gap(gap) + Runes(texts[n])
  BY <1>4, <1>7, JoinedRunes
<1> QED BY <1>3, <1>7, <1>9, <1>10

\* Texts m to n are one chunk, or a text that is too long.
Fits(texts, max, gap, m, n) ==
  \/ m = n /\ Runes(texts[m]) > max
  \/ Runes(AllJoined(SubSeq(texts, m, n), gap)) <= max

\* After texts 1 to i: what is between two begins fits, and `c` runes are
\* counted for what is after the last.
FitSoFar(c, begins, texts, max, gap, i) ==
  /\ \A m, n \in 1..i : (m <= n /\ \A j \in m + 1..n : j \notin begins) => Fits(texts, max, gap, m, n)
  /\ \A m \in 1..i : (\A j \in m + 1..i + 1 : j \notin begins) =>
                       Runes(AllJoined(SubSeq(texts, m, i), gap)) <= c
  /\ c = 0 => i = 0 \/ i + 1 \in begins

\* A chunk of one text.
LEMMA FitsAlone ==
  ASSUME NEW P, NEW texts, Division(texts, P), NEW gap \in Gaps, NEW i \in 1..Len(texts)
  PROVE  /\ Runes(AllJoined(SubSeq(texts, i, i), gap)) = Runes(texts[i])
         /\ Runes(texts[i]) \in Nat /\ Runes(texts[i]) >= 1
<1>1. AllJoined(SubSeq(texts, i, i), gap) = texts[i] /\ texts[i] # <<>> /\ texts[i] \in Text
  <2>1. i <= i
    BY DEF Division, InSequence
  <2>2. AllJoined(SubSeq(texts, i, i), gap) = texts[i]
    BY <2>1, RangeOfDivision
  <2>3. texts[i] # <<>> /\ texts[i] \in Text
    BY ElementOfSeq DEF Division, InSequence
  <2> QED BY <2>2, <2>3
<1> QED BY <1>1, RunesNat

\* A text that is too long.
LEMMA PackTooLong ==
  ASSUME NEW P, NEW texts, Division(texts, P), NEW gap \in Gaps, NEW max \in Nat,
         NEW i \in 1..Len(texts), NEW c \in Nat, NEW begins \in SUBSET Nat,
         FitSoFar(c, begins, texts, max, gap, i - 1), Runes(texts[i]) > max
  PROVE  FitSoFar(0, begins \cup {i, i + 1}, texts, max, gap, i)
<1>0. i \in Nat \ {0}
  BY DEF Division, InSequence
<1>1. ASSUME NEW m \in 1..i, NEW n \in 1..i, m <= n, \A j \in m + 1..n : j \notin begins \cup {i, i + 1}
      PROVE  Fits(texts, max, gap, m, n)
  <2>1. CASE n = i
    <3>1. m = i
      BY <1>0, <1>1, <2>1
    <3> QED BY <2>1, <3>1 DEF Fits
  <2>2. CASE n # i
    <3>1. m \in 1..i - 1 /\ n \in 1..i - 1
      BY <1>0, <1>1, <2>2
    <3>2. \A j \in m + 1..n : j \notin begins
      BY <1>1
    <3> QED BY <1>1, <3>1, <3>2 DEF FitSoFar
  <2> QED BY <2>1, <2>2
<1>2. ASSUME NEW m \in 1..i, \A j \in m + 1..i + 1 : j \notin begins \cup {i, i + 1}
      PROVE  FALSE
  <2>1. i + 1 \in m + 1..i + 1
    BY <1>0
  <2> QED BY <1>2, <2>1
<1> QED BY <1>1, <1>2 DEF FitSoFar

\* A text that begins a chunk.
LEMMA PackNext ==
  ASSUME NEW P, NEW texts, Division(texts, P), NEW gap \in Gaps, NEW max \in Nat,
         NEW i \in 1..Len(texts), NEW c \in Nat, NEW begins \in SUBSET Nat,
         FitSoFar(c, begins, texts, max, gap, i - 1), Runes(texts[i]) <= max,
         NEW d \in Nat, d >= Runes(texts[i])
  PROVE  FitSoFar(d, begins \cup {i}, texts, max, gap, i)
<1>0. i \in Nat \ {0}
  BY DEF Division, InSequence
<1>1. /\ Runes(AllJoined(SubSeq(texts, i, i), gap)) = Runes(texts[i])
      /\ Runes(texts[i]) \in Nat /\ Runes(texts[i]) >= 1
  BY FitsAlone
<1>2. ASSUME NEW m \in 1..i, NEW n \in 1..i, m <= n, \A j \in m + 1..n : j \notin begins \cup {i}
      PROVE  Fits(texts, max, gap, m, n)
  <2>1. CASE n = i
    <3>1. m = i
      BY <1>0, <1>2, <2>1
    <3> QED BY <1>1, <2>1, <3>1 DEF Fits
  <2>2. CASE n # i
    <3>1. m \in 1..i - 1 /\ n \in 1..i - 1
      BY <1>0, <1>2, <2>2
    <3>2. \A j \in m + 1..n : j \notin begins
      BY <1>2
    <3> QED BY <1>2, <3>1, <3>2 DEF FitSoFar
  <2> QED BY <2>1, <2>2
<1>3. ASSUME NEW m \in 1..i, \A j \in m + 1..i + 1 : j \notin begins \cup {i}
      PROVE  Runes(AllJoined(SubSeq(texts, m, i), gap)) <= d
  <2>1. m = i
    BY <1>0, <1>3
  <2> QED BY <1>1, <2>1
<1>4. d # 0
  BY <1>1
<1> QED BY <1>2, <1>3, <1>4 DEF FitSoFar

\* A text that is added to a chunk.
LEMMA PackMore ==
  ASSUME NEW P, NEW texts, Division(texts, P), NEW gap \in Gaps, NEW max \in Nat,
         NEW i \in 1..Len(texts), NEW c \in Nat, NEW begins \in SUBSET Nat,
         FitSoFar(c, begins, texts, max, gap, i - 1),
         NEW d \in Nat, d = c + Sep(c, gap) + Runes(texts[i]), d <= max
  PROVE  FitSoFar(d, begins, texts, max, gap, i)
<1>0. i \in Nat \ {0} /\ Len(texts) \in Nat
  BY DEF Division, InSequence
<1>1. /\ Runes(AllJoined(SubSeq(texts, i, i), gap)) = Runes(texts[i])
      /\ Runes(texts[i]) \in Nat /\ Runes(texts[i]) >= 1
  BY FitsAlone
<1>2. Sep(c, gap) \in Nat /\ (c # 0 => Sep(c, gap) = Gap(gap)) /\ Gap(gap) \in Nat
  BY GapIsNat DEF Gaps, Sep
<1>3. ASSUME NEW m \in 1..i, \A j \in m + 1..i : j \notin begins
      PROVE  Runes(AllJoined(SubSeq(texts, m, i), gap)) <= d
  <2>1. CASE m = i
    BY <1>1, <1>2, <2>1
  <2>2. CASE m # i
    <3>1. m \in 1..i - 1 /\ m < i /\ (i - 1) + 1 = i /\ i - 1 # 0 /\ m \in 1..Len(texts) /\ i \in m + 1..i
      BY <1>0, <2>2
    <3>2. Runes(AllJoined(SubSeq(texts, m, i - 1), gap)) <= c
      BY <1>3, <3>1 DEF FitSoFar
    <3>3. c # 0
      BY <1>3, <3>1 DEF FitSoFar
    <3>4. Runes(AllJoined(SubSeq(texts, m, i), gap))
            = Runes(AllJoined(SubSeq(texts, m, i - 1), gap)) + Gap(gap) + Runes(texts[i])
      BY <3>1, RangeRunes
    <3>5. Runes(AllJoined(SubSeq(texts, m, i - 1), gap)) \in Nat
      <4>1. PICK k \in 1..Len(texts) : k = i - 1 /\ m <= k
        BY <1>0, <3>1
      <4>2. AllJoined(SubSeq(texts, m, k), gap) \in Text
        BY <3>1, <4>1, RangeOfDivision
      <4> QED BY <4>1, <4>2, RunesNat
    <3> QED BY <1>1, <1>2, <3>2, <3>3, <3>4, <3>5
  <2> QED BY <2>1, <2>2
<1>4. ASSUME NEW m \in 1..i, NEW n \in 1..i, m <= n, \A j \in m + 1..n : j \notin begins
      PROVE  Fits(texts, max, gap, m, n)
  <2>1. CASE n = i
    <3>1. Runes(AllJoined(SubSeq(texts, m, i), gap)) <= d
      BY <1>3, <1>4, <2>1
    <3>2. Runes(AllJoined(SubSeq(texts, m, i), gap)) \in Nat
      <4>1. m \in 1..Len(texts) /\ m <= i
        BY <1>0, <1>4
      <4>2. AllJoined(SubSeq(texts, m, i), gap) \in Text
        BY <4>1, RangeOfDivision
      <4> QED BY <4>2, RunesNat
    <3> QED BY <2>1, <3>1, <3>2 DEF Fits
  <2>2. CASE n # i
    <3>1. m \in 1..i - 1 /\ n \in 1..i - 1
      BY <1>0, <1>4, <2>2
    <3> QED BY <1>4, <3>1 DEF FitSoFar
  <2> QED BY <2>1, <2>2
<1>5. ASSUME NEW m \in 1..i, \A j \in m + 1..i + 1 : j \notin begins
      PROVE  Runes(AllJoined(SubSeq(texts, m, i), gap)) <= d
  <2>1. \A j \in m + 1..i : j \in m + 1..i + 1
    BY <1>0
  <2> QED BY <1>3, <1>5, <2>1
<1>6. d # 0
  BY <1>1, <1>2
<1> QED BY <1>4, <1>5, <1>6 DEF FitSoFar

\* What is between two begins fits.
LEMMA BeginsFit ==
  ASSUME NEW P, NEW texts, Division(texts, P), NEW gap \in Gaps, NEW max \in Nat,
         NEW carried \in BOOLEAN
  PROVE  \A m, n \in 1..Len(texts) :
           (m <= n /\ \A j \in m + 1..n : j \notin Begins(texts, max, gap, carried))
             => Fits(texts, max, gap, m, n)
<1>1. PICK w \in Nat : w = Len(texts) /\ DOMAIN texts = 1..w
  BY DEF Division, InSequence
<1> DEFINE Acc == [counted : Nat, begins : SUBSET Nat]
           Next(p) ==
             LET i    == p[2]
                 size == Runes(texts[i])
                 sep  == Sep(p[1].counted, gap)
                 all  == p[1].counted + sep + size
             IN  IF size > max
                 THEN [counted |-> 0, begins |-> p[1].begins \cup {i, i + 1}]
                 ELSE IF all > max
                 THEN [counted |-> IF carried THEN sep + size ELSE size,
                       begins  |-> p[1].begins \cup {i}]
                 ELSE [counted |-> all, begins |-> p[1].begins]
           pack == [p \in Acc \X DOMAIN texts |-> Next(p)]
           I == [i \in 0..w |-> {a \in Acc : FitSoFar(a.counted, a.begins, texts, max, gap, i)}]
<1>2. PICK s \in Seq(1..w) : s = [i \in DOMAIN texts |-> i] /\ Len(s) = w /\ \A i \in 1..w : s[i] = i
  <2>1. PICK s : s = [i \in DOMAIN texts |-> i]
    OBVIOUS
  <2>2. s \in [1..w -> 1..w] /\ \A i \in 1..w : s[i] = i
    BY <1>1, <2>1
  <2>3. s \in Seq(1..w) /\ Len(s) = w
    BY <2>2, FunctionIsSeq
  <2> QED BY <2>1, <2>2, <2>3
<1>3. PICK a \in Acc : a = [counted |-> 0, begins |-> {}]
  OBVIOUS
<1>4. Begins(texts, max, gap, carried) = Looped(pack, a, s).begins
  BY <1>2, <1>3 DEF Begins
<1>5. \A i \in 1..w : Runes(texts[i]) \in Nat
  BY <1>1, FitsAlone
<1>6. \A c \in Nat : Sep(c, gap) \in Nat
  BY GapIsNat DEF Sep, Gaps
<1>7. \A x \in Acc : \A i \in 1..w :
        /\ Runes(texts[i]) > max =>
             pack[<<x, i>>] = [counted |-> 0, begins |-> x.begins \cup {i, i + 1}]
        /\ (Runes(texts[i]) <= max /\ x.counted + Sep(x.counted, gap) + Runes(texts[i]) > max) =>
             pack[<<x, i>>] = [counted |-> IF carried THEN Sep(x.counted, gap) + Runes(texts[i])
                                           ELSE Runes(texts[i]),
                               begins  |-> x.begins \cup {i}]
        /\ (Runes(texts[i]) <= max /\ x.counted + Sep(x.counted, gap) + Runes(texts[i]) <= max) =>
             pack[<<x, i>>] = [counted |-> x.counted + Sep(x.counted, gap) + Runes(texts[i]),
                               begins  |-> x.begins]
  <2> SUFFICES ASSUME NEW x \in Acc, NEW i \in 1..w
      PROVE
        /\ Runes(texts[i]) > max =>
             pack[<<x, i>>] = [counted |-> 0, begins |-> x.begins \cup {i, i + 1}]
        /\ (Runes(texts[i]) <= max /\ x.counted + Sep(x.counted, gap) + Runes(texts[i]) > max) =>
             pack[<<x, i>>] = [counted |-> IF carried THEN Sep(x.counted, gap) + Runes(texts[i])
                                           ELSE Runes(texts[i]),
                               begins  |-> x.begins \cup {i}]
        /\ (Runes(texts[i]) <= max /\ x.counted + Sep(x.counted, gap) + Runes(texts[i]) <= max) =>
             pack[<<x, i>>] = [counted |-> x.counted + Sep(x.counted, gap) + Runes(texts[i]),
                               begins  |-> x.begins]
    OBVIOUS
  <2>1. pack[<<x, i>>] = Next(<<x, i>>)
    <3> HIDE DEF Next, Acc
    <3> QED BY <1>1
  <2>2. PICK size \in Nat : size = Runes(texts[i])
    BY <1>5
  <2>3. PICK sep \in Nat : sep = Sep(x.counted, gap)
    BY <1>6
  <2>4. Next(<<x, i>>) = IF size > max
                 THEN [counted |-> 0, begins |-> x.begins \cup {i, i + 1}]
                 ELSE IF x.counted + sep + size > max
                 THEN [counted |-> IF carried THEN sep + size ELSE size,
                       begins  |-> x.begins \cup {i}]
                 ELSE [counted |-> x.counted + sep + size, begins |-> x.begins]
    BY <2>2, <2>3, Zenon
  <2> HIDE DEF Next, pack
  <2>5. x.counted \in Nat
    OBVIOUS
  <2> QED BY <2>1, <2>2, <2>3, <2>4, <2>5
<1>8. \A i \in 0..w : \A x : x \in I[i] <=> x \in Acc /\ FitSoFar(x.counted, x.begins, texts, max, gap, i)
  OBVIOUS
<1>9. a \in I[0]
  <2>1. FitSoFar(0, {}, texts, max, gap, 0)
    BY DEF FitSoFar
  <2>2. a.counted = 0 /\ a.begins = {} /\ 0 \in 0..w
    BY <1>3
  <2> HIDE DEF I, Acc
  <2> QED BY <1>8, <2>1, <2>2
<1>10. ASSUME NEW i \in 1..w, NEW x \in Acc
       PROVE  pack[<<x, i>>] \in Acc /\ (x \in I[i - 1] => pack[<<x, i>>] \in I[i])
  <2>0. i \in 0..w /\ i - 1 \in 0..w /\ i \in 1..Len(texts) /\ i \in Nat /\ i + 1 \in Nat
    BY <1>1
  <2>1. PICK c \in Nat : c = x.counted
    OBVIOUS
  <2>2. PICK b \in SUBSET Nat : b = x.begins
    OBVIOUS
  <2>3. PICK size \in Nat : size = Runes(texts[i])
    BY <1>5
  <2>4. PICK sep \in Nat : sep = Sep(c, gap)
    BY <1>6
  <2>5. PICK y : y = pack[<<x, i>>]
    OBVIOUS
  <2>6. /\ size > max => y = [counted |-> 0, begins |-> b \cup {i, i + 1}]
        /\ (size <= max /\ c + sep + size > max) =>
             y = [counted |-> IF carried THEN sep + size ELSE size, begins |-> b \cup {i}]
        /\ (size <= max /\ c + sep + size <= max) => y = [counted |-> c + sep + size, begins |-> b]
    <3> HIDE DEF pack
    <3> QED BY <1>7, <2>1, <2>2, <2>3, <2>4, <2>5
  <2>7. ASSUME NEW d \in Nat, NEW e \in SUBSET Nat, y = [counted |-> d, begins |-> e],
               x \in I[i - 1] => FitSoFar(d, e, texts, max, gap, i)
        PROVE  y \in Acc /\ (x \in I[i - 1] => y \in I[i])
    <3>1. y \in Acc /\ y.counted = d /\ y.begins = e
      BY <2>7
    <3> HIDE DEF I, Acc
    <3> QED BY <1>8, <2>0, <2>7, <3>1
  <2>8. x \in I[i - 1] => FitSoFar(c, b, texts, max, gap, i - 1)
    <3> HIDE DEF I, Acc
    <3> QED BY <1>8, <2>0, <2>1, <2>2
  <2> HIDE DEF I, pack, Acc
  <2>9. CASE size > max
    <3>1. b \cup {i, i + 1} \in SUBSET Nat
      BY <2>0
    <3>2. x \in I[i - 1] => FitSoFar(0, b \cup {i, i + 1}, texts, max, gap, i)
      BY <2>0, <2>3, <2>8, <2>9, PackTooLong
    <3> QED BY <2>5, <2>6, <2>7, <2>9, <3>1, <3>2
  <2>10. CASE size <= max /\ c + sep + size > max
    <3>1. PICK d \in Nat : d = (IF carried THEN sep + size ELSE size) /\ d >= size
      OBVIOUS
    <3>2. b \cup {i} \in SUBSET Nat
      BY <2>0
    <3>3. x \in I[i - 1] => FitSoFar(d, b \cup {i}, texts, max, gap, i)
      BY <2>0, <2>3, <2>8, <2>10, <3>1, PackNext
    <3> QED BY <2>5, <2>6, <2>7, <2>10, <3>1, <3>2, <3>3
  <2>11. CASE size <= max /\ c + sep + size <= max
    <3>1. PICK d \in Nat : d = c + sep + size
      OBVIOUS
    <3>2. x \in I[i - 1] => FitSoFar(d, b, texts, max, gap, i)
      BY <2>0, <2>3, <2>4, <2>8, <2>11, <3>1, PackMore
    <3> QED BY <2>5, <2>6, <2>7, <2>11, <3>1, <3>2
  <2> QED BY <2>9, <2>10, <2>11
<1>11. pack \in [Acc \X (1..w) -> Acc]
  <2> HIDE DEF Acc, I
  <2>1. \A p \in Acc \X (1..w) : \E x \in Acc, i \in 1..w : p = <<x, i>>
    OBVIOUS
  <2>2. \A p \in Acc \X (1..w) : pack[p] \in Acc
    <3> HIDE DEF pack
    <3> QED BY <1>10, <2>1
  <2>3. pack = [p \in Acc \X (1..w) |-> pack[p]]
    <3> HIDE DEF Next
    <3> QED BY <1>1
  <2> HIDE DEF pack
  <2> QED BY <2>2, <2>3
<1> HIDE DEF pack, Acc, I
<1>12. \A i \in 1..Len(s) : \A x \in Acc : x \in I[i - 1] => pack[<<x, s[i]>>] \in I[i]
  BY <1>2, <1>10
<1>13. Looped(pack, a, s) \in I[Len(s)]
  BY <1>9, <1>11, <1>12, LoopKeeps, Zenon
<1>14. PICK y : y = Looped(pack, a, s) /\ FitSoFar(y.counted, y.begins, texts, max, gap, w)
  <2>1. w \in 0..w
    OBVIOUS
  <2> QED BY <1>2, <1>8, <1>13, <2>1
<1>15. Begins(texts, max, gap, carried) = y.begins
  BY <1>4, <1>14
<1> QED BY <1>1, <1>14, <1>15 DEF FitSoFar

-----------------------------------------------------------------------------
(* Groups of texts joined, and a text cut.                                 *)

\* Group k of l groups of 1..n is from u[k] to v[k].
Ranges(u, v, l, n) ==
  /\ u \in [1..l -> 1..n] /\ v \in [1..l -> 1..n]
  /\ \A k \in 1..l : u[k] <= v[k]
  /\ \A k, i \in 1..l : k < i => v[k] < u[i]
  /\ \A i \in 1..n : \E k \in 1..l : i \in u[k]..v[k]

GroupRanges(r, u, v, s, begins) ==
  /\ Ranges(u, v, Len(r), Len(s))
  /\ \A k \in 1..Len(r) : r[k] = SubSeq(s, u[k], v[k])
  /\ \A k \in 2..Len(r) : u[k] \in begins
  /\ \A k \in 1..Len(r) : \A i \in u[k] + 1..v[k] : i \notin begins

\* Grouped makes ranges of the slice: a group begins where `begins` says and
\* nowhere else.
LEMMA GroupedRanges ==
  ASSUME NEW E, NEW s \in Seq(E), NEW begins
  PROVE  /\ Grouped(s, begins) \in Seq(Seq(E))
         /\ \E u, v : GroupRanges(Grouped(s, begins), u, v, s, begins)
<1>1. PICK n \in Nat : n = Len(s)
  OBVIOUS
<1>2. Grouped(s, begins) \in Seq(Seq(E)) /\ \E b : GroupsAre(Grouped(s, begins), b, s, begins, Len(s))
  BY GroupedDivides, Zenon
<1>3. PICK r \in Seq(Seq(E)) : r = Grouped(s, begins) /\ \E b : GroupsAre(r, b, s, begins, n)
  BY <1>1, <1>2
<1>4. PICK l \in Nat : l = Len(r)
  OBVIOUS
<1>5. PICK b : GroupsAre(r, b, s, begins, n)
  BY <1>3
<1>6. /\ b \in [0..l -> 0..n]
      /\ \A k \in 1..l : r[k] = SubSeq(s, b[k - 1] + 1, b[k])
      /\ \A k, i \in 0..l : k < i => b[k] < b[i]
      /\ \A i \in 1..n : \E k \in 1..l : b[k - 1] < i /\ i <= b[k]
      /\ \A k \in 1..l - 1 : b[k] + 1 \in begins
      /\ \A k \in 1..l : \A i \in b[k - 1] + 2..b[k] : i \notin begins
  BY <1>4, <1>5 DEF GroupsAre
<1>7. PICK u : u = [k \in 1..l |-> b[k - 1] + 1]
  OBVIOUS
<1>8. PICK v : v = [k \in 1..l |-> b[k]]
  OBVIOUS
<1>9. ASSUME NEW k \in 1..l
      PROVE  /\ u[k] \in 1..n /\ v[k] \in 1..n /\ u[k] <= v[k]
             /\ b[k - 1] \in Nat /\ u[k] = b[k - 1] + 1 /\ v[k] = b[k]
  <2>1. k - 1 \in 0..l /\ k \in 0..l /\ k - 1 < k
    OBVIOUS
  <2>2. b[k - 1] \in 0..n /\ b[k] \in 0..n /\ b[k - 1] < b[k]
    BY <1>6, <2>1
  <2>3. u[k] = b[k - 1] + 1 /\ v[k] = b[k]
    BY <1>7, <1>8
  <2> QED BY <2>2, <2>3
<1>10. ASSUME NEW k \in 1..l, NEW i \in 1..l, k < i PROVE v[k] < u[i]
  <2>1. PICK j \in 0..l : j = i - 1
    OBVIOUS
  <2>2. k \in 0..l /\ (k < j \/ k = j)
    BY <1>10, <2>1
  <2>3. b[k] \in 0..n /\ b[j] \in 0..n /\ (k < j => b[k] < b[j])
    BY <1>6, <2>1, <2>2
  <2>4. u[i] = b[j] + 1 /\ v[k] = b[k]
    BY <1>9, <2>1
  <2> QED BY <2>2, <2>3, <2>4
<1>11. ASSUME NEW i \in 1..n PROVE \E k \in 1..l : i \in u[k]..v[k]
  <2>1. PICK k \in 1..l : b[k - 1] < i /\ i <= b[k]
    BY <1>6
  <2>2. b[k - 1] \in Nat /\ u[k] = b[k - 1] + 1 /\ v[k] = b[k] /\ v[k] \in 1..n
    BY <1>9
  <2>3. i \in u[k]..v[k]
    BY <2>1, <2>2
  <2> QED BY <2>3
<1>12. u \in [1..l -> 1..n] /\ v \in [1..l -> 1..n]
  BY <1>7, <1>8, <1>9
<1>13. Ranges(u, v, l, n)
  BY <1>9, <1>10, <1>11, <1>12 DEF Ranges
<1>14. ASSUME NEW k \in 1..l
       PROVE  r[k] = SubSeq(s, u[k], v[k]) /\ \A i \in u[k] + 1..v[k] : i \notin begins
  <2>1. u[k] = b[k - 1] + 1 /\ v[k] = b[k] /\ b[k - 1] \in Nat
    BY <1>9
  <2>2. u[k] + 1 = b[k - 1] + 2
    BY <2>1
  <2> QED BY <1>6, <2>1, <2>2
<1>a. ASSUME NEW k \in 2..l PROVE u[k] \in begins
  <2>1. PICK j \in 1..l - 1 : j = k - 1
    OBVIOUS
  <2>2. k \in 1..l /\ b[j] + 1 \in begins
    BY <1>6
  <2>3. u[k] = b[j] + 1
    BY <1>9, <2>1, <2>2
  <2> QED BY <2>2, <2>3
<1>15. GroupRanges(r, u, v, s, begins)
  BY <1>1, <1>4, <1>13, <1>14, <1>a DEF GroupRanges
<1> QED BY <1>3, <1>15

\* The ranges are in their order.
LEMMA RangeOf ==
  ASSUME NEW l \in Nat, NEW n \in Nat, NEW u, NEW v, Ranges(u, v, l, n), NEW k \in 1..l
  PROVE  /\ u[k] \in 1..n /\ v[k] \in 1..n /\ u[k] <= v[k]
         /\ \A i \in u[k]..v[k] : i \in 1..n
         /\ \A j \in 1..l : k < j => \A x \in u[k]..v[k], y \in u[j]..v[j] : x < y
<1>1. /\ \A j \in 1..l : u[j] \in 1..n /\ v[j] \in 1..n /\ u[j] <= v[j]
      /\ \A j, i \in 1..l : j < i => v[j] < u[i]
  BY DEF Ranges
<1>2. ASSUME NEW j \in 1..l, k < j, NEW x \in u[k]..v[k], NEW y \in u[j]..v[j] PROVE x < y
  <2>1. v[k] < u[j] /\ u[j] \in 1..n /\ v[j] \in 1..n /\ u[k] \in 1..n /\ v[k] \in 1..n
    BY <1>1, <1>2
  <2> QED BY <2>1
<1>3. \A i \in u[k]..v[k] : i \in 1..n
  BY <1>1
<1> QED BY <1>1, <1>2, <1>3

\* A division whose groups are joined is one.
LEMMA DivisionJoined ==
  ASSUME NEW P, NEW texts, Division(texts, P), NEW gap \in Gaps, NEW l \in Nat, NEW u, NEW v,
         Ranges(u, v, l, Len(texts)), NEW q \in Seq(Text), Len(q) = l,
         \A k \in 1..l : q[k] = AllJoined(SubSeq(texts, u[k], v[k]), gap)
  PROVE  Division(q, P) /\ (AllDivided(texts) => AllDivided(q))
<1>1. PICK n \in Nat : n = Len(texts)
  BY DEF Division, InSequence
<1>r. Ranges(u, v, l, n)
  BY <1>1
<1>2. ASSUME NEW k \in 1..l
      PROVE  /\ q[k] # <<>> /\ InOrder(q[k]) /\ Points(q[k]) \subseteq P
             /\ \A p : p \in Points(q[k]) <=> \E i \in u[k]..v[k] : p \in Points(texts[i])
             /\ AllDivided(texts) => Divided(q[k])
  <2>0. u[k] \in 1..n /\ v[k] \in 1..n /\ u[k] <= v[k]
    BY <1>r, RangeOf, Zenon
  <2>1. PICK m \in 1..n : m = u[k]
    BY <2>0
  <2>2. PICK e \in 1..n : e = v[k] /\ m <= e
    BY <2>0, <2>1
  <2>3. /\ q[k] # <<>> /\ InOrder(q[k]) /\ Points(q[k]) \subseteq P
        /\ \A p : p \in Points(q[k]) <=> \E i \in m..e : p \in Points(texts[i])
        /\ AllDivided(texts) => Divided(q[k])
    <3>1. q[k] = AllJoined(SubSeq(texts, m, e), gap)
      BY <2>1, <2>2
    <3>2. m \in 1..Len(texts) /\ e \in 1..Len(texts)
      BY <1>1
    <3> QED BY <2>2, <3>1, <3>2, RangeOfDivision
  <2> QED BY <2>1, <2>2, <2>3
<1>3. ASSUME NEW k \in 1..l, NEW i \in 1..l, k < i
      PROVE  Before(Points(q[k]), Points(q[i]))
  <2> SUFFICES ASSUME NEW p \in Points(q[k]), NEW r \in Points(q[i]) PROVE p[1] < r[1]
    BY DEF Before
  <2>1. PICK x \in u[k]..v[k] : p \in Points(texts[x])
    BY <1>2
  <2>2. PICK y \in u[i]..v[i] : r \in Points(texts[y])
    BY <1>2
  <2>3. x \in 1..n /\ y \in 1..n /\ x < y
    BY <1>r, <1>3, <2>1, <2>2, RangeOf, Zenon
  <2>4. Before(Points(texts[x]), Points(texts[y]))
    BY <1>1, <2>3 DEF Division, InSequence
  <2> QED BY <2>1, <2>2, <2>4 DEF Before
<1>4. ASSUME NEW p \in P PROVE \E k \in 1..l : p \in Points(q[k])
  <2>1. PICK i \in 1..n : p \in Points(texts[i])
    BY <1>1 DEF Division
  <2>2. PICK k \in 1..l : i \in u[k]..v[k]
    BY <1>r DEF Ranges
  <2> QED BY <1>2, <2>1, <2>2
<1>5. InSequence(q)
  BY <1>2, <1>3 DEF InSequence
<1>6. Division(q, P)
  BY <1>2, <1>4, <1>5 DEF Division
<1> QED BY <1>2, <1>6 DEF AllDivided

\* Inside the text no part of the levels ends.
Stuck(text, levels) == \A i \in 1..Len(text) - 1 : \A level \in levels : ~EndsPart(text[i], level)

\* The parts of a text.
PartsAre(q, u, v, l, text) ==
  /\ Ranges(u, v, l, Len(text))
  /\ Len(q) = l
  /\ \A k \in 1..l : q[k] = SubSeq(text, u[k], v[k])

\* What a part has of the text.
PartsSay(q, u, v, l, text) ==
  \A k \in 1..l : /\ Len(q[k]) = v[k] + 1 - u[k]
                  /\ \A i \in 1..Len(q[k]) : q[k][i] = text[u[k] + i - 1]

\* A text cut into parts is divided.
LEMMA DivisionCut ==
  ASSUME NEW text \in Text, InOrder(text), NEW l \in Nat, NEW u, NEW v,
         NEW q \in Seq(Text), PartsAre(q, u, v, l, text), NEW levels
  PROVE  /\ Division(q, Points(text))
         /\ Divided(text) => AllDivided(q)
         /\ Stuck(text, levels) => \A k \in 1..l : Stuck(q[k], levels)
         /\ PartsSay(q, u, v, l, text)
<1>a. /\ Ranges(u, v, l, Len(text))
      /\ Len(q) = l
      /\ \A k \in 1..l : q[k] = SubSeq(text, u[k], v[k])
  BY DEF PartsAre
<1>1. PICK n \in Nat : n = Len(text) /\ DOMAIN text = 1..n
  BY DEF Text
<1>r. Ranges(u, v, l, n)
  BY <1>a, <1>1
<1>0. ASSUME NEW k \in 1..l
      PROVE  u[k] \in 1..n /\ v[k] \in 1..n /\ u[k] <= v[k]
  BY <1>r, RangeOf, Zenon
<1>2. ASSUME NEW k \in 1..l
      PROVE  /\ q[k] \in Text /\ Len(q[k]) = v[k] + 1 - u[k] /\ Len(q[k]) \in Nat \ {0}
             /\ \A i \in 1..Len(q[k]) : q[k][i] = text[u[k] + i - 1] /\ u[k] + i - 1 \in u[k]..v[k]
             /\ \A i \in u[k]..v[k] : \E j \in 1..Len(q[k]) : q[k][j] = text[i]
  <2>1. PICK m \in 1..n : m = u[k]
    BY <1>0
  <2>2. PICK e \in 1..n : e = v[k] /\ m <= e
    BY <1>0, <2>1
  <2>3. q[k] = SubSeq(text, m, e) /\ text \in Seq(Stretch) /\ m \in 1..Len(text) /\ e \in 1..Len(text)
    BY <1>a, <1>1, <2>1, <2>2 DEF Text
  <2>4. PICK x \in Text : x = q[k]
    BY <1>a, ElementOfSeq
  <2>5. /\ Len(x) = e + 1 - m
        /\ \A i \in 1..(e + 1 - m) : x[i] = text[m + i - 1] /\ m + i - 1 \in m..e
        /\ \A i \in m..e : i + 1 - m \in 1..(e + 1 - m) /\ x[i + 1 - m] = text[i]
    <3>1. /\ Len(SubSeq(text, m, e)) = e + 1 - m
          /\ \A i \in 1..(e + 1 - m) : SubSeq(text, m, e)[i] = text[m + i - 1] /\ m + i - 1 \in m..e
          /\ \A i \in m..e : i + 1 - m \in 1..(e + 1 - m) /\ SubSeq(text, m, e)[i + 1 - m] = text[i]
      BY <2>2, <2>3, PartOf
    <3> QED BY <2>3, <2>4, <3>1
  <2>6. Len(x) \in Nat \ {0}
    BY <2>2, <2>5
  <2>7. \A i \in m..e : \E j \in 1..Len(x) : x[j] = text[i]
    BY <2>5
  <2> QED BY <2>1, <2>2, <2>4, <2>5, <2>6, <2>7
<1>4. ASSUME NEW k \in 1..l
      PROVE  /\ q[k] # <<>> /\ InOrder(q[k])
             /\ \A p : p \in Points(q[k]) <=>
                         \E i \in u[k]..v[k] : p \in {text[i].id} \X (text[i].from..text[i].to)
  <2>1. PICK w \in Nat \ {0} : w = Len(q[k])
    BY <1>2
  <2>2. /\ q[k] \in Text
        /\ \A i \in 1..w : q[k][i] = text[u[k] + i - 1] /\ u[k] + i - 1 \in u[k]..v[k]
        /\ \A i \in u[k]..v[k] : \E j \in 1..w : q[k][j] = text[i]
    BY <1>2, <2>1
  <2>3. q[k] # <<>> /\ DOMAIN q[k] = 1..w
    <3>1. Len(<<>>) = 0
      BY EmptySeq
    <3> QED BY <2>1, <2>2, <3>1 DEF Text
  <2>4. ASSUME NEW i \in 1..w, NEW j \in 1..w, i < j PROVE q[k][i].id < q[k][j].id
    <3>0. u[k] \in 1..n /\ v[k] \in 1..n
      BY <1>0
    <3>1. PICK x \in u[k]..v[k] : x = u[k] + i - 1 /\ q[k][i] = text[x]
      BY <2>2, Zenon
    <3>2. PICK y \in u[k]..v[k] : y = u[k] + j - 1 /\ q[k][j] = text[y]
      BY <2>2, Zenon
    <3>3. x < y /\ x \in 1..n /\ y \in 1..n
      <4>1. PICK m \in 1..n : m = u[k]
        BY <3>0
      <4>2. PICK e \in 1..n : e = v[k]
        BY <3>0
      <4>3. x \in m..e /\ y \in m..e /\ x = m + i - 1 /\ y = m + j - 1
        BY <3>1, <3>2, <4>1, <4>2
      <4> QED BY <2>4, <4>3
    <3>4. text[x].id < text[y].id
      BY <1>1, <3>3 DEF InOrder
    <3> QED BY <3>1, <3>2, <3>4
  <2>5. InOrder(q[k])
    BY <2>3, <2>4 DEF InOrder
  <2>6. \A p : p \in Points(q[k]) <=> \E i \in 1..w : p \in {q[k][i].id} \X (q[k][i].from..q[k][i].to)
    BY <2>1, <2>2, PointsOf, Zenon
  <2>7. ASSUME NEW p, NEW i \in 1..w, p \in {q[k][i].id} \X (q[k][i].from..q[k][i].to)
        PROVE  \E j \in u[k]..v[k] : p \in {text[j].id} \X (text[j].from..text[j].to)
    <3>1. PICK j \in u[k]..v[k] : q[k][i] = text[j]
      BY <2>2
    <3> QED BY <2>7, <3>1
  <2>8. ASSUME NEW p, NEW i \in u[k]..v[k], p \in {text[i].id} \X (text[i].from..text[i].to)
        PROVE  \E j \in 1..w : p \in {q[k][j].id} \X (q[k][j].from..q[k][j].to)
    <3>1. PICK j \in 1..w : q[k][j] = text[i]
      BY <2>2
    <3> QED BY <2>8, <3>1
  <2> QED BY <2>3, <2>5, <2>6, <2>7, <2>8, Zenon
<1>5. \A p : p \in Points(text) <=> \E i \in 1..n : p \in {text[i].id} \X (text[i].from..text[i].to)
  BY <1>1, PointsOf
<1>6. ASSUME NEW k \in 1..l PROVE Points(q[k]) \subseteq Points(text)
  <2>1. \A i \in u[k]..v[k] : i \in 1..n
    BY <1>r, RangeOf, Zenon
  <2> QED BY <1>4, <1>5, <2>1, Zenon
<1>7. ASSUME NEW p \in Points(text) PROVE \E k \in 1..l : p \in Points(q[k])
  <2>1. PICK i \in 1..n : p \in {text[i].id} \X (text[i].from..text[i].to)
    BY <1>5
  <2>2. PICK k \in 1..l : i \in u[k]..v[k]
    BY <1>r DEF Ranges
  <2>4. p \in Points(q[k])
    BY <1>4, <2>1, <2>2, Zenon
  <2> QED BY <2>4
<1>8. ASSUME NEW k \in 1..l, NEW i \in 1..l, k < i
      PROVE  Before(Points(q[k]), Points(q[i]))
  <2> SUFFICES ASSUME NEW p \in Points(q[k]), NEW r \in Points(q[i]) PROVE p[1] < r[1]
    BY DEF Before
  <2>1. PICK x \in u[k]..v[k] : p \in {text[x].id} \X (text[x].from..text[x].to)
    BY <1>4, Zenon
  <2>2. PICK y \in u[i]..v[i] : r \in {text[y].id} \X (text[y].from..text[y].to)
    BY <1>4, Zenon
  <2>4. x \in 1..n /\ y \in 1..n /\ x < y
    BY <1>r, <1>8, <2>1, <2>2, RangeOf, Zenon
  <2>5. text[x].id < text[y].id
    BY <1>1, <2>4 DEF InOrder
  <2> QED BY <2>1, <2>2, <2>5
<1>9. InSequence(q)
  BY <1>a, <1>4, <1>8 DEF InSequence
<1>10. Division(q, Points(text))
  BY <1>a, <1>4, <1>6, <1>7, <1>9 DEF Division
<1>11. ASSUME NEW k \in 1..l, NEW i \in 1..Len(q[k]), i < Len(q[k])
       PROVE  \E x \in 1..n : x < n /\ q[k][i] = text[x]
  <2>0. u[k] \in 1..n /\ v[k] \in 1..n /\ Len(q[k]) = v[k] + 1 - u[k]
    BY <1>0, <1>2
  <2>1. PICK x \in u[k]..v[k] : x = u[k] + i - 1 /\ q[k][i] = text[x]
    <3>1. q[k][i] = text[u[k] + i - 1] /\ u[k] + i - 1 \in u[k]..v[k]
      BY <1>2
    <3> QED BY <3>1
  <2>2. x \in 1..n /\ x < n
    <3>1. PICK w \in Nat : w = Len(q[k])
      BY <1>2
    <3>2. PICK m \in 1..n : m = u[k]
      BY <2>0
    <3>3. PICK e \in 1..n : e = v[k]
      BY <2>0
    <3>4. i \in 1..w /\ i < w /\ w = e + 1 - m /\ x \in m..e /\ x = m + i - 1
      BY <1>11, <2>0, <2>1, <3>1, <3>2, <3>3
    <3> QED BY <3>4
  <2> QED BY <2>1, <2>2
<1>12. ASSUME Divided(text) PROVE AllDivided(q)
  <2> SUFFICES ASSUME NEW k \in 1..l, NEW i \in 1..Len(q[k]), i < Len(q[k])
               PROVE  q[k][i].ends # "none" \/ q[k][i].after # "none"
    <3>1. \A k \in 1..l : DOMAIN q[k] = 1..Len(q[k])
      BY <1>2 DEF Text
    <3> QED BY <1>a, <3>1 DEF AllDivided, Divided
  <2>1. PICK x \in 1..n : x < n /\ q[k][i] = text[x]
    BY <1>11
  <2> QED BY <1>1, <1>12, <2>1 DEF Divided
<1>13. ASSUME Stuck(text, levels), NEW k \in 1..l PROVE Stuck(q[k], levels)
  <2> SUFFICES ASSUME NEW i \in 1..Len(q[k]) - 1, NEW level \in levels
               PROVE  ~EndsPart(q[k][i], level)
    BY DEF Stuck
  <2>1. i \in 1..Len(q[k]) /\ i < Len(q[k])
    BY <1>2
  <2>2. PICK x \in 1..n : x < n /\ q[k][i] = text[x]
    BY <1>11, <2>1
  <2>3. x \in 1..Len(text) - 1
    BY <1>1, <2>2
  <2> QED BY <1>13, <2>2, <2>3 DEF Stuck
<1>14. PartsSay(q, u, v, l, text)
  BY <1>2 DEF PartsSay
<1> QED BY <1>10, <1>12, <1>13, <1>14

-----------------------------------------------------------------------------
(* A text cut at one level.                                                *)

\* What no level of either set divides.
LEMMA StuckBoth ==
  ASSUME NEW text, NEW a, NEW b, Stuck(text, a), Stuck(text, b)
  PROVE  Stuck(text, a \cup b)
BY DEF Stuck

\* Cut divides a text wherever a part ends, and nowhere else.
LEMMA CutParts ==
  ASSUME NEW text \in Text, InOrder(text), Divided(text), NEW levels, Stuck(text, levels), NEW level
  PROVE  LET q == Cut(text, level)
         IN  /\ Division(q, Points(text)) /\ AllDivided(q)
             /\ \A k \in 1..Len(q) : Stuck(q[k], levels \cup {level})
             /\ Len(q) <= 1 => Stuck(text, {level})
<1>1. PICK n \in Nat : n = Len(text)
  BY DEF Text
<1>2. PICK D : D = {i \in 2..n : EndsPart(text[i - 1], level)}
  OBVIOUS
<1>3. Cut(text, level) = Grouped(text, D) /\ text \in Seq(Stretch)
  BY <1>1, <1>2 DEF Cut, Text
<1>4. Grouped(text, D) \in Seq(Seq(Stretch)) /\ \E u, v : GroupRanges(Grouped(text, D), u, v, text, D)
  BY <1>3, GroupedRanges, Zenon
<1>5. PICK q \in Seq(Text) : q = Cut(text, level) /\ \E u, v : GroupRanges(q, u, v, text, D)
  BY <1>3, <1>4 DEF Text
<1>6. PICK u, v : GroupRanges(q, u, v, text, D)
  BY <1>5
<1>7. PICK l \in Nat : l = Len(q)
  OBVIOUS
<1>8. /\ Ranges(u, v, l, Len(text))
      /\ \A k \in 1..l : q[k] = SubSeq(text, u[k], v[k])
      /\ \A k \in 1..l : \A i \in u[k] + 1..v[k] : i \notin D
  BY <1>7, <1>6 DEF GroupRanges
<1>9. /\ Division(q, Points(text)) /\ AllDivided(q)
      /\ \A k \in 1..l : Stuck(q[k], levels)
      /\ \A k \in 1..l : /\ Len(q[k]) = v[k] + 1 - u[k]
                         /\ \A i \in 1..Len(q[k]) : q[k][i] = text[u[k] + i - 1]
  <2>1. PartsAre(q, u, v, l, text)
    BY <1>7, <1>8 DEF PartsAre
  <2>2. /\ Division(q, Points(text)) /\ AllDivided(q) /\ PartsSay(q, u, v, l, text)
        /\ \A k \in 1..l : Stuck(q[k], levels)
    BY <2>1, DivisionCut, Zenon
  <2> QED BY <2>2 DEF PartsSay
<1>r. Ranges(u, v, l, n)
  BY <1>1, <1>8
<1>10. ASSUME NEW k \in 1..l
       PROVE  \A i \in u[k]..v[k] - 1 : ~EndsPart(text[i], level)
  <2>1. u[k] \in 1..n /\ v[k] \in 1..n
    BY <1>r, RangeOf, Zenon
  <2>2. PICK m \in 1..n : m = u[k]
    BY <2>1
  <2>3. PICK e \in 1..n : e = v[k]
    BY <2>1
  <2> SUFFICES ASSUME NEW i \in m..e - 1 PROVE ~EndsPart(text[i], level)
    BY <2>2, <2>3
  <2>4. PICK j \in 2..n : j = i + 1 /\ j \in m + 1..e /\ j - 1 = i
    OBVIOUS
  <2>5. j \notin D
    BY <1>8, <2>2, <2>3, <2>4
  <2> QED BY <1>2, <2>4, <2>5
<1>11. ASSUME NEW k \in 1..l PROVE Stuck(q[k], {level})
  <2> SUFFICES ASSUME NEW i \in 1..Len(q[k]) - 1 PROVE ~EndsPart(q[k][i], level)
    BY DEF Stuck
  <2>1. u[k] \in 1..n /\ v[k] \in 1..n
    BY <1>r, RangeOf, Zenon
  <2>2. PICK m \in 1..n : m = u[k]
    BY <2>1
  <2>3. PICK e \in 1..n : e = v[k]
    BY <2>1
  <2>4. PICK w \in Int : w = Len(q[k]) /\ w = e + 1 - m
    BY <1>9, <2>2, <2>3
  <2>5. i \in 1..w /\ i \in 1..w - 1
    BY <2>4
  <2>6. q[k][i] = text[m + i - 1]
    BY <1>9, <2>2, <2>4, <2>5
  <2>7. m + i - 1 \in m..e - 1
    BY <2>4, <2>5
  <2>8. ~EndsPart(text[m + i - 1], level)
    BY <1>10, <2>2, <2>3, <2>7
  <2> QED BY <2>6, <2>8
<1>12. \A k \in 1..l : Stuck(q[k], levels \cup {level})
  BY <1>9, <1>11, StuckBoth
<1>13. ASSUME l <= 1 PROVE Stuck(text, {level})
  <2> SUFFICES ASSUME NEW i \in 1..n - 1 PROVE ~EndsPart(text[i], level)
    BY <1>1 DEF Stuck
  <2>1. i \in 1..n /\ i + 1 \in 1..n
    OBVIOUS
  <2>2. PICK k \in 1..l : i \in u[k]..v[k]
    BY <1>r, <2>1 DEF Ranges
  <2>3. PICK j \in 1..l : i + 1 \in u[j]..v[j]
    BY <1>r, <2>1 DEF Ranges
  <2>4. j = k
    BY <1>13
  <2>5. i \in u[k]..v[k] - 1
    <3>1. u[k] \in 1..n /\ v[k] \in 1..n
      BY <1>r, RangeOf, Zenon
    <3> QED BY <2>2, <2>3, <2>4, <3>1
  <2> QED BY <1>10, <2>5
<1> QED BY <1>5, <1>7, <1>9, <1>12, <1>13

\* Spaces for line ends change neither what is said nor where sentences end.
LEMMA OneLineKeeps ==
  ASSUME NEW text \in Text, InOrder(text), Divided(text)
  PROVE  LET q == OneLine(text)
         IN  /\ q \in Text /\ Len(q) = Len(text) /\ Points(q) = Points(text)
             /\ InOrder(q) /\ Divided(q)
             /\ \A i \in 1..Len(text) : q[i].ends = text[i].ends
<1>1. PICK n \in Nat : n = Len(text) /\ DOMAIN text = 1..n
  BY DEF Text
<1>2. PICK q : q = OneLine(text)
  OBVIOUS
<1>3. /\ q = [i \in 1..n |-> q[i]]
      /\ \A i \in 1..n : q[i] = IF text[i].after = "line" THEN [text[i] EXCEPT !.after = "space"] ELSE text[i]
  BY <1>1, <1>2 DEF OneLine
<1>4. \A i \in 1..n : text[i] \in Stretch
  BY <1>1, ElementOfSeq DEF Text
<1>5. ASSUME NEW i \in 1..n
      PROVE  /\ q[i] \in Stretch /\ q[i].id = text[i].id /\ q[i].from = text[i].from
             /\ q[i].to = text[i].to /\ q[i].ends = text[i].ends
             /\ text[i].after # "none" => q[i].after # "none"
  <2>1. PICK t \in Stretch : t = text[i]
    BY <1>4
  <2>2. CASE t.after = "line"
    <3>1. q[i] = [t EXCEPT !.after = "space"]
      BY <1>3, <2>1, <2>2
    <3>2. [t EXCEPT !.after = "space"] \in Stretch
      BY StretchFacts DEF Gaps
    <3>3. /\ [t EXCEPT !.after = "space"].id = t.id /\ [t EXCEPT !.after = "space"].from = t.from
          /\ [t EXCEPT !.after = "space"].to = t.to /\ [t EXCEPT !.after = "space"].ends = t.ends
          /\ [t EXCEPT !.after = "space"].after = "space"
      BY DEF Stretch
    <3> QED BY <2>1, <3>1, <3>2, <3>3
  <2>3. CASE t.after # "line"
    BY <1>3, <2>1, <2>3
  <2> QED BY <2>2, <2>3
<1>6. q \in Seq(Stretch) /\ Len(q) = n /\ DOMAIN q = 1..n
  <2>1. q \in [1..n -> Stretch]
    BY <1>3, <1>5
  <2> QED BY <2>1, FunctionIsSeq
<1>7. q \in Text
  BY <1>6 DEF Text
<1>8. InOrder(q)
  BY <1>1, <1>5, <1>6 DEF InOrder
<1>9. Divided(q)
  BY <1>1, <1>5, <1>6 DEF Divided
<1>10. \A p : p \in Points(q) <=> p \in Points(text)
  <2>1. \A p : p \in Points(q) <=> \E i \in 1..n : p \in {q[i].id} \X (q[i].from..q[i].to)
    BY <1>6, <1>7, PointsOf
  <2>2. \A p : p \in Points(text) <=> \E i \in 1..n : p \in {text[i].id} \X (text[i].from..text[i].to)
    BY <1>1, PointsOf
  <2>3. \A i \in 1..n : {q[i].id} \X (q[i].from..q[i].to) = {text[i].id} \X (text[i].from..text[i].to)
    BY <1>5
  <2> QED BY <2>1, <2>2, <2>3, Zenon
<1> QED BY <1>1, <1>2, <1>5, <1>6, <1>7, <1>8, <1>9, <1>10

\* Parts that are short enough or that no level so far divides.
PartsOf(max, levels) == {t \in Text : Runes(t) <= max \/ (Divided(t) /\ Stuck(t, levels))}

\* packSegments makes a division of a division, and what is still too long
\* cannot be divided at the levels before.
LEMMA PackedSegments ==
  ASSUME NEW P, NEW segments, Division(segments, P), AllDivided(segments), NEW max \in Nat,
         NEW levels, \A k \in 1..Len(segments) : Stuck(segments[k], levels)
  PROVE  /\ Division(PackSegments(segments, max), P)
         /\ PackSegments(segments, max) \in Seq(PartsOf(max, levels))
<1>1. PICK n \in Nat : n = Len(segments)
  BY DEF Division, InSequence
<1>2. segments \in Seq(Text) /\ "space" \in Gaps
  BY DEF Division, InSequence, Gaps
<1>3. PICK B : B = Begins(segments, max, "space", FALSE)
  OBVIOUS
<1>4. PICK r \in Seq(Seq(Text)) : r = Grouped(segments, B) /\ \E u, v : GroupRanges(r, u, v, segments, B)
  <2>1. /\ Grouped(segments, B) \in Seq(Seq(Text))
        /\ \E u, v : GroupRanges(Grouped(segments, B), u, v, segments, B)
    BY <1>2, GroupedRanges, Zenon
  <2> QED BY <2>1
<1>5. PICK u, v : GroupRanges(r, u, v, segments, B)
  BY <1>4
<1>6. PICK l \in Nat : l = Len(r) /\ DOMAIN r = 1..l
  OBVIOUS
<1>7. /\ Ranges(u, v, l, n)
      /\ \A k \in 1..l : r[k] = SubSeq(segments, u[k], v[k])
      /\ \A k \in 1..l : \A i \in u[k] + 1..v[k] : i \notin B
  BY <1>1, <1>5, <1>6 DEF GroupRanges
<1>8. PICK q : q = PackSegments(segments, max)
  OBVIOUS
<1>9. q = [k \in 1..l |-> AllJoined(r[k], "space")]
  BY <1>3, <1>4, <1>6, <1>8 DEF PackSegments
<1>10. \A k \in 1..l : q[k] = AllJoined(SubSeq(segments, u[k], v[k]), "space")
  BY <1>7, <1>9
<1>11. ASSUME NEW k \in 1..l PROVE q[k] \in Text /\ q[k] \in PartsOf(max, levels)
  <2>0. u[k] \in 1..n /\ v[k] \in 1..n /\ u[k] <= v[k]
    BY <1>7, RangeOf, Zenon
  <2>1. PICK m \in 1..n : m = u[k]
    BY <2>0
  <2>2. PICK e \in 1..n : e = v[k] /\ m <= e
    BY <2>0, <2>1
  <2>3. q[k] = AllJoined(SubSeq(segments, m, e), "space") /\ m \in 1..Len(segments) /\ e \in 1..Len(segments)
    BY <1>1, <1>10, <2>1, <2>2
  <2>4. q[k] \in Text /\ (m = e => q[k] = segments[e])
    BY <1>2, <2>2, <2>3, RangeOfDivision
  <2>5. \A j \in m + 1..e : j \notin B
    BY <1>7, <2>1, <2>2
  <2>6. Fits(segments, max, "space", m, e)
    BY <1>2, <1>3, <2>2, <2>3, <2>5, BeginsFit
  <2>7. CASE Runes(q[k]) <= max
    BY <2>4, <2>7 DEF PartsOf
  <2>8. CASE m = e
    BY <1>1, <2>4, <2>8 DEF PartsOf, AllDivided
  <2> QED BY <2>3, <2>4, <2>6, <2>7, <2>8 DEF Fits
<1>12. q \in Seq(Text) /\ q \in Seq(PartsOf(max, levels)) /\ Len(q) = l
  <2>1. q \in [1..l -> Text] /\ q \in [1..l -> PartsOf(max, levels)]
    BY <1>9, <1>11
  <2> QED BY <2>1, FunctionIsSeq
<1>13. Division(q, P)
  BY <1>1, <1>2, <1>7, <1>10, <1>12, DivisionJoined
<1> QED BY <1>8, <1>12, <1>13

\* A text divides itself.
LEMMA DivisionOne ==
  ASSUME NEW text \in Text, text # <<>>, InOrder(text)
  PROVE  Division(<<text>>, Points(text)) /\ <<text>> \in Seq(Text)
<1>1. PICK q \in Seq(Text) : q = <<text>>
  <2>1. <<text>> \in Seq(Text)
    OBVIOUS
  <2> QED BY <2>1
<1>2. Len(q) = 1 /\ q[1] = text /\ \A k \in 1..Len(q) : k = 1
  BY <1>1
<1>3. Division(q, Points(text))
  BY <1>2 DEF Division, InSequence
<1> QED BY <1>1, <1>3

\* One level of splitRecursive.
LEMMA CutAtParts ==
  ASSUME NEW max \in Nat, NEW levels, NEW level, level = "sentence" => levels = {},
         NEW text \in PartsOf(max, levels), text # <<>>, InOrder(text)
  PROVE  /\ Division(CutAt(text, level, max), Points(text))
         /\ CutAt(text, level, max) \in Seq(PartsOf(max, levels \cup {level}))
<1>0. text \in Text
  BY DEF PartsOf
<1>1. PICK line \in Text : line = IF level = "sentence" THEN OneLine(text) ELSE text
  <2>1. ASSUME level = "sentence" PROVE OneLine(text) \in Text
    <3>1. PICK n \in Nat : n = Len(text) /\ DOMAIN text = 1..n
      BY <1>0 DEF Text
    <3>2. \A i \in 1..n : text[i] \in Stretch
      BY <1>0, <3>1, ElementOfSeq DEF Text
    <3>3. \A t \in Stretch : [t EXCEPT !.after = "space"] \in Stretch
      BY StretchFacts DEF Gaps
    <3>4. OneLine(text) \in [1..n -> Stretch]
      BY <3>1, <3>2, <3>3 DEF OneLine
    <3> QED BY <3>4, FunctionIsSeq DEF Text
  <2> QED BY <1>0, <2>1
<1>2. CASE Runes(text) <= max
  <2>1. CutAt(text, level, max) = <<text>>
    BY <1>2 DEF CutAt
  <2>2. text \in PartsOf(max, levels \cup {level})
    BY <1>0, <1>2 DEF PartsOf
  <2>3. <<text>> \in Seq(PartsOf(max, levels \cup {level}))
    BY <2>2
  <2> QED BY <1>0, <2>1, <2>3, DivisionOne
<1>3. CASE ~(Runes(text) <= max)
  <2>1. Divided(text) /\ Stuck(text, levels)
    BY <1>3 DEF PartsOf
  <2>2. /\ InOrder(line) /\ Divided(line) /\ Points(line) = Points(text) /\ Len(line) = Len(text)
        /\ \A i \in 1..Len(text) : EndsPart(line[i], level) <=> EndsPart(text[i], level)
        /\ Stuck(line, levels)
    <3>1. CASE level = "sentence"
      <4>1. /\ line \in Text /\ Len(line) = Len(text) /\ Points(line) = Points(text)
            /\ InOrder(line) /\ Divided(line)
            /\ \A i \in 1..Len(text) : line[i].ends = text[i].ends
        BY <1>0, <1>1, <2>1, <3>1, OneLineKeeps
      <4>2. \A i \in 1..Len(text) : EndsPart(line[i], level) <=> EndsPart(text[i], level)
        BY <3>1, <4>1 DEF EndsPart
      <4>3. Stuck(line, levels)
        BY <3>1 DEF Stuck
      <4> QED BY <4>1, <4>2, <4>3
    <3>2. CASE level # "sentence"
      BY <1>1, <2>1, <3>2
    <3> QED BY <3>1, <3>2
  <2>3. PICK q : q = Cut(line, level)
    OBVIOUS
  <2>4. /\ Division(q, Points(text)) /\ AllDivided(q)
        /\ \A k \in 1..Len(q) : Stuck(q[k], levels \cup {level})
        /\ Len(q) <= 1 => Stuck(line, {level})
    BY <2>2, <2>3, CutParts
  <2>5. CASE Len(q) <= 1
    <3>1. CutAt(text, level, max) = <<text>>
      BY <1>1, <2>3, <2>5 DEF CutAt
    <3>2. Stuck(text, {level})
      <4>1. PICK n \in Nat : n = Len(text)
        BY <1>0 DEF Text
      <4>2. \A i \in 1..n - 1 : i \in 1..n /\ ~EndsPart(line[i], level)
        BY <2>2, <2>4, <2>5, <4>1 DEF Stuck
      <4>3. \A i \in 1..n - 1 : ~EndsPart(text[i], level)
        BY <2>2, <4>1, <4>2
      <4> QED BY <4>1, <4>3 DEF Stuck
    <3>3. text \in PartsOf(max, levels \cup {level})
      BY <1>0, <2>1, <3>2, StuckBoth DEF PartsOf
    <3>4. <<text>> \in Seq(PartsOf(max, levels \cup {level}))
      BY <3>3
    <3> QED BY <1>0, <3>1, <3>4, DivisionOne
  <2>6. CASE ~(Len(q) <= 1)
    <3>1. CutAt(text, level, max) = PackSegments(q, max)
      BY <1>1, <1>3, <2>3, <2>6 DEF CutAt
    <3> QED BY <2>4, <3>1, PackedSegments
  <2> QED BY <2>5, <2>6
<1> QED BY <1>2, <1>3

\* One level of splitRecursive for every text.
LEMMA EachCutAtParts ==
  ASSUME NEW max \in Nat, NEW levels, NEW level, level # "sentence",
         NEW P, NEW texts, Division(texts, P), texts \in Seq(PartsOf(max, levels))
  PROVE  /\ Division(EachCutAt(texts, level, max), P)
         /\ EachCutAt(texts, level, max) \in Seq(PartsOf(max, levels \cup {level}))
<1>1. PICK n \in Nat : n = Len(texts) /\ DOMAIN texts = 1..n
  BY DEF Division, InSequence
<1>2. PICK T : T = PartsOf(max, levels \cup {level})
  OBVIOUS
<1>3. T \subseteq Text
  BY <1>2 DEF PartsOf
<1>4. ASSUME NEW i \in 1..n
      PROVE  /\ Division(CutAt(texts[i], level, max), Points(texts[i]))
             /\ CutAt(texts[i], level, max) \in Seq(T)
  <2>1. texts[i] \in PartsOf(max, levels)
    BY <1>1, ElementOfSeq
  <2>2. texts[i] # <<>> /\ InOrder(texts[i])
    BY <1>1 DEF Division, InSequence
  <2> QED BY <1>2, <2>1, <2>2, CutAtParts
<1>5. PICK ss : ss = [i \in 1..n |-> CutAt(texts[i], level, max)]
  OBVIOUS
<1>6. ss \in Seq(Seq(T)) /\ Len(ss) = n
  <2>1. ss \in [1..n -> Seq(T)]
    BY <1>4, <1>5
  <2> QED BY <2>1, FunctionIsSeq, Zenon
<1>7. Seq(T) \subseteq Seq(Text)
  BY <1>3, SeqMonotonic
<1>8. ss \in Seq(Seq(Text))
  BY <1>6, <1>7, SeqMonotonic, Zenon
<1>9. \A i \in 1..n : Division(ss[i], Points(texts[i]))
  BY <1>4, <1>5
<1>10. EachCutAt(texts, level, max) = FlattenSeq(ss)
  BY <1>1, <1>5 DEF EachCutAt
<1>11. FlattenSeq(ss) \in Seq(T)
  BY <1>6, FlattenIsFlat, Zenon
<1>12. Division(FlattenSeq(ss), P)
  BY <1>1, <1>6, <1>8, <1>9, FlatDivision
<1> QED BY <1>2, <1>10, <1>11, <1>12

-----------------------------------------------------------------------------
(* The windows of a stretch.                                               *)

\* A text of one stretch.
LEMMA OneStretch ==
  ASSUME NEW t \in Stretch
  PROVE  /\ <<t>> \in Text /\ <<t>> # <<>> /\ InOrder(<<t>>) /\ EndOf(<<t>>) = t
         /\ Runes(<<t>>) = RunesOf(t)
         /\ \A p : p \in Points(<<t>>) <=> p \in {t.id} \X (t.from..t.to)
<1>1. <<>> \in Seq(Stretch) /\ Append(<<>>, t) = <<t>> /\ <<t>> \in Seq(Stretch)
  OBVIOUS
<1>2. PICK u \in Text : u = <<t>> /\ Len(u) = 1 /\ u[1] = t /\ DOMAIN u = 1..1 /\ u # <<>>
  <2>1. <<t>> \in Text
    BY <1>1 DEF Text
  <2>2. Len(<<t>>) = 1 /\ <<t>>[1] = t /\ DOMAIN <<t>> = 1..1 /\ <<t>> # <<>>
    OBVIOUS
  <2> QED BY <2>1, <2>2
<1>3. WithGaps(u) = RunesOf(t) + Gap(t.after)
  <2>1. <<>> \in Text
    BY <1>1 DEF Text
  <2>2. WithGaps(<<>>) = 0 /\ WithGaps(Append(<<>>, t)) = WithGaps(<<>>) + (RunesOf(t) + Gap(t.after))
    BY <2>1, WithGapsAppend
  <2>3. PICK x \in Nat : x = RunesOf(t) + Gap(t.after)
    BY StretchFacts, GapIsNat
  <2> QED BY <1>1, <1>2, <2>2, <2>3
<1>4. Runes(u) = RunesOf(t)
  BY <1>2, <1>3, StretchFacts, GapIsNat DEF Runes
<1>5. \A p : p \in Points(u) <=> p \in {t.id} \X (t.from..t.to)
  <2>1. \A p : p \in Points(u) <=> \E i \in 1..Len(u) : p \in {u[i].id} \X (u[i].from..u[i].to)
    BY PointsOf
  <2> QED BY <1>2, <2>1
<1>6. InOrder(u) /\ EndOf(u) = t
  BY <1>2 DEF InOrder, EndOf
<1> QED BY <1>2, <1>4, <1>5, <1>6

IsWindow(x, t, max) ==
  /\ Len(x) = 1 /\ x[1].id = t.id
  /\ t.from <= x[1].from /\ x[1].to <= t.to
  /\ RunesOf(x[1]) <= max

\* The windows so far: they begin before `next` and reach at least to `top`.
SlidTo(out, next, top, t, max) ==
  /\ \A k \in 1..Len(out) : IsWindow(out[k], t, max) /\ out[k][1].from < next
  /\ \A k, l \in 1..Len(out) : k < l => out[k][1].from < out[l][1].from
  /\ \A x \in t.from..top : \E k \in 1..Len(out) : x \in out[k][1].from..out[k][1].to

\* One more window.
LEMMA SlideMore ==
  ASSUME NEW t \in Stretch, NEW max \in Nat, NEW out \in Seq(Text),
         NEW from \in Nat, NEW to \in Nat, t.from <= from, from <= to, to <= t.to,
         to + 1 - from <= max, SlidTo(out, from, from - 1, t, max),
         NEW next \in Nat, from < next
  PROVE  LET w == [t EXCEPT !.from = from, !.to = to]
         IN  /\ w \in Stretch /\ <<w>> \in Text /\ Append(out, <<w>>) \in Seq(Text)
             /\ SlidTo(Append(out, <<w>>), next, to, t, max)
<1>1. PICK w \in Stretch : /\ w = [t EXCEPT !.from = from, !.to = to]
                           /\ w.id = t.id /\ w.from = from /\ w.to = to
  <2>1. from \in Nat \ {0} /\ t.id \in Nat
    BY StretchFacts
  <2>2. PICK w : w = [t EXCEPT !.from = from, !.to = to]
    OBVIOUS
  <2>3. w.id = t.id /\ w.from = from /\ w.to = to
    BY <2>2 DEF Stretch
  <2>4. w \in Stretch
    BY <2>1, <2>2 DEF Stretch
  <2> QED BY <2>2, <2>3, <2>4
<1>2. PICK u \in Text : u = <<w>> /\ Len(u) = 1 /\ u[1] = w
  <2>1. <<w>> \in Text
    BY OneStretch
  <2> QED BY <2>1
<1>3. IsWindow(u, t, max)
  BY <1>1, <1>2 DEF IsWindow, RunesOf
<1>4. PICK n \in Nat : n = Len(out)
  OBVIOUS
<1>5. PICK q \in Seq(Text) : /\ q = Append(out, u) /\ Len(q) = n + 1 /\ q[n + 1] = u
                             /\ \A k \in 1..n : q[k] = out[k]
  <2>1. /\ Append(out, u) \in Seq(Text) /\ Len(Append(out, u)) = Len(out) + 1
        /\ \A k \in 1..Len(out) : Append(out, u)[k] = out[k]
        /\ Append(out, u)[Len(out) + 1] = u
    BY AppendProperties
  <2> QED BY <1>4, <2>1
<1>6. /\ \A k \in 1..n : IsWindow(out[k], t, max) /\ out[k][1].from < from
      /\ \A k, l \in 1..n : k < l => out[k][1].from < out[l][1].from
      /\ \A x \in t.from..from - 1 : \E k \in 1..n : x \in out[k][1].from..out[k][1].to
  BY <1>4 DEF SlidTo
<1>t. t.from \in Nat
  BY StretchFacts
<1>7. \A k \in 1..n : out[k][1].from \in Nat
  <2> SUFFICES ASSUME NEW k \in 1..n PROVE out[k][1].from \in Nat
    OBVIOUS
  <2>1. PICK x \in Text : x = out[k]
    BY <1>4, ElementOfSeq
  <2>2. 1 \in 1..Len(x)
    BY <1>6, <2>1 DEF IsWindow
  <2>3. x[1] \in Stretch
    BY <2>2, ElementOfSeq DEF Text
  <2> QED BY <2>1, <2>3, StretchFacts
<1>8. ASSUME NEW k \in 1..n + 1 PROVE IsWindow(q[k], t, max) /\ q[k][1].from < next
  <2>1. CASE k = n + 1
    BY <1>1, <1>2, <1>3, <1>5, <2>1
  <2>2. CASE k # n + 1
    <3>1. k \in 1..n
      BY <2>2
    <3>2. q[k] = out[k] /\ out[k][1].from < from /\ out[k][1].from \in Nat
      BY <1>5, <1>6, <1>7, <3>1
    <3> QED BY <1>6, <3>1, <3>2
  <2> QED BY <2>1, <2>2
<1>9. ASSUME NEW k \in 1..n + 1, NEW l \in 1..n + 1, k < l PROVE q[k][1].from < q[l][1].from
  <2>0. k \in 1..n
    BY <1>9
  <2>1. CASE l = n + 1
    <3>1. q[l][1].from = from
      BY <1>1, <1>2, <1>5, <2>1
    <3> QED BY <1>5, <1>6, <2>0, <3>1
  <2>2. CASE l # n + 1
    <3>1. l \in 1..n
      BY <2>2
    <3> QED BY <1>5, <1>6, <1>9, <2>0, <3>1
  <2> QED BY <2>1, <2>2
<1>10. ASSUME NEW x \in t.from..to PROVE \E k \in 1..n + 1 : x \in q[k][1].from..q[k][1].to
  <2>1. CASE x < from
    <3>1. x \in t.from..from - 1
      BY <1>t, <2>1
    <3>2. PICK k \in 1..n : x \in out[k][1].from..out[k][1].to
      BY <1>6, <3>1
    <3>3. k \in 1..n + 1 /\ q[k] = out[k]
      BY <1>5
    <3> QED BY <3>2, <3>3
  <2>2. CASE ~(x < from)
    <3>1. x \in from..to
      BY <1>t, <2>2
    <3>2. q[n + 1][1].from = from /\ q[n + 1][1].to = to
      BY <1>1, <1>2, <1>5
    <3> QED BY <3>1, <3>2
  <2> QED BY <2>1, <2>2
<1>11. SlidTo(q, next, to, t, max)
  BY <1>5, <1>8, <1>9, <1>10 DEF SlidTo
<1> QED BY <1>1, <1>2, <1>5, <1>11

\* Less that is covered.
LEMMA LowerTop ==
  ASSUME NEW out, NEW next, NEW t \in Stretch, NEW max, NEW top \in Nat, NEW low \in Int, low <= top,
         SlidTo(out, next, top, t, max)
  PROVE  SlidTo(out, next, low, t, max)
<1>1. t.from \in Nat
  BY StretchFacts
<1>2. \A x \in t.from..low : x \in t.from..top
  BY <1>1
<1> QED BY <1>2 DEF SlidTo

\* When the windows reach the end of the stretch, they say it.
LEMMA WindowsSay ==
  ASSUME NEW t \in Stretch, NEW max \in Nat, NEW out \in Seq(Text), NEW next,
         SlidTo(out, next, t.to, t, max)
  PROVE  /\ Says(out, Points(<<t>>), {})
         /\ \A k \in 1..Len(out) : Runes(out[k]) \in 1..max
<1>1. PICK n \in Nat : n = Len(out)
  OBVIOUS
<1>2. ASSUME NEW k \in 1..n
      PROVE  \E w \in Stretch : /\ out[k] = <<w>> /\ w = out[k][1] /\ w.id = t.id /\ t.from <= w.from
                                /\ w.to <= t.to /\ RunesOf(w) <= max
  <2>1. PICK x \in Text : x = out[k]
    BY <1>1, ElementOfSeq
  <2>2. IsWindow(x, t, max)
    BY <1>1, <2>1 DEF SlidTo
  <2>3. 1 \in 1..Len(x) /\ Len(x) = 1
    BY <2>2 DEF IsWindow
  <2>4. x[1] \in Stretch
    BY <2>3, ElementOfSeq DEF Text
  <2>5. x = <<x[1]>>
    BY <2>3 DEF Text
  <2> QED BY <2>1, <2>2, <2>4, <2>5 DEF IsWindow
<1>3. ASSUME NEW k \in 1..n
      PROVE  /\ out[k] # <<>> /\ InOrder(out[k]) /\ Points(out[k]) \subseteq Points(<<t>>)
             /\ Runes(out[k]) \in 1..max /\ EndOf(out[k]) = out[k][1] /\ out[k][1].id = t.id
             /\ \A p : p \in Points(out[k]) <=> p \in {t.id} \X (out[k][1].from..out[k][1].to)
  <2>1. PICK w \in Stretch : /\ out[k] = <<w>> /\ w = out[k][1] /\ w.id = t.id /\ t.from <= w.from
                             /\ w.to <= t.to /\ RunesOf(w) <= max
    BY <1>2
  <2>2. /\ <<w>> # <<>> /\ InOrder(<<w>>) /\ EndOf(<<w>>) = w /\ Runes(<<w>>) = RunesOf(w)
        /\ \A p : p \in Points(<<w>>) <=> p \in {w.id} \X (w.from..w.to)
    BY OneStretch
  <2>3. \A p : p \in Points(<<t>>) <=> p \in {t.id} \X (t.from..t.to)
    BY OneStretch
  <2>4. /\ t.from \in Nat /\ t.to \in Nat /\ w.from \in Nat /\ w.to \in Nat
        /\ RunesOf(w) \in Nat /\ RunesOf(w) >= 1
    BY StretchFacts
  <2>5. \A y \in w.from..w.to : y \in t.from..t.to
    BY <2>1, <2>4
  <2>6. Points(<<w>>) \subseteq Points(<<t>>)
    BY <2>1, <2>2, <2>3, <2>5
  <2>7. RunesOf(w) \in 1..max
    BY <2>1, <2>4
  <2> QED BY <2>1, <2>2, <2>6, <2>7
<1>4. \A k, l \in 1..n : k < l => EndsBefore(out[k], out[l])
  BY <1>1, <1>3 DEF SlidTo, EndsBefore
<1>5. ASSUME NEW p \in Points(<<t>>) PROVE \E k \in 1..n : p \in Points(out[k])
  <2>1. p \in {t.id} \X (t.from..t.to)
    BY OneStretch
  <2>2. PICK x \in t.from..t.to : p = <<t.id, x>>
    BY <2>1
  <2>3. PICK k \in 1..n : x \in out[k][1].from..out[k][1].to
    BY <1>1, <2>2 DEF SlidTo
  <2>4. p \in {t.id} \X (out[k][1].from..out[k][1].to)
    BY <2>2, <2>3
  <2> QED BY <1>3, <2>4
<1>6. Points(<<t>>) # {} => out # <<>>
  <2>1. ASSUME NEW k \in 1..n PROVE out # <<>>
    BY <1>1, EmptySeq
  <2> QED BY <1>5, <2>1
<1>7. Says(out, Points(<<t>>), {})
  BY <1>1, <1>3, <1>4, <1>5, <1>6 DEF Says
<1> QED BY <1>1, <1>3, <1>7

\* The windows cover the stretch, and none is longer than `max`.
LEMMA SlidingSays ==
  ASSUME NEW max \in Nat \ {0}, NEW text \in Text, Len(text) = 1
  PROVE  /\ Says(Sliding(text, max), Points(text), {})
         /\ \A k \in 1..Len(Sliding(text, max)) : Runes(Sliding(text, max)[k]) \in 1..max
<1>1. PICK t \in Stretch : t = text[1] /\ text = <<t>>
  <2>1. text[1] \in Stretch
    BY ElementOfSeq DEF Text
  <2> QED BY <2>1 DEF Text
<1>2. PICK n \in Nat : n = RunesOf(t) /\ n >= 1 /\ n = t.to + 1 - t.from
  BY StretchFacts DEF RunesOf
<1>t. PICK f \in Nat : f = t.from /\ t.to \in Nat /\ n = t.to + 1 - f
  BY <1>2, StretchFacts
<1>o. PICK o \in Nat : o = OverlapRunes
  BY ChunkConstants
<1>e. PICK b \in Nat : b = t.to /\ n = b + 1 - f
  BY <1>t
<1> DEFINE Acc == [out : Seq(Text), start : Nat]
           Next(p) ==
             LET start == p[1].start
                 end   == IF start + max > n THEN n ELSE start + max
                 next  == IF end > start + OverlapRunes THEN end - OverlapRunes
                          ELSE start + max
                 window == [t EXCEPT !.from = t.from + start, !.to = t.from + end - 1]
             IN  IF start >= n THEN p[1]
                 ELSE [out |-> Append(p[1].out, <<window>>), start |-> next]
           slide == [p \in Acc \X (1..n) |-> Next(p)]
           Good(out, start, i) ==
             /\ i <= start \/ n <= start
             /\ SlidTo(out, f + start, IF start < n THEN f + start - 1 ELSE t.to, t, max)
           I == [i \in 0..n |-> {a \in Acc : Good(a.out, a.start, i)}]
<1>3. PICK s \in Seq(1..n) : s = [i \in 1..n |-> i] /\ Len(s) = n /\ \A i \in 1..n : s[i] = i
  <2>1. PICK s : s = [i \in 1..n |-> i]
    OBVIOUS
  <2>2. s \in [1..n -> 1..n] /\ \A i \in 1..n : s[i] = i
    BY <2>1
  <2>3. s \in Seq(1..n) /\ Len(s) = n
    BY <2>2, FunctionIsSeq
  <2> QED BY <2>1, <2>2, <2>3
<1>4. PICK a \in Acc : a = [out |-> <<>>, start |-> 0] /\ a.out = <<>> /\ a.start = 0
  <2>1. <<>> \in Seq(Text)
    OBVIOUS
  <2>2. PICK u \in Seq(Text) : u = <<>>
    BY <2>1
  <2>3. PICK c \in Acc : c = [out |-> u, start |-> 0] /\ c.out = u /\ c.start = 0
    <3>1. [out |-> u, start |-> 0] \in Acc
      OBVIOUS
    <3> HIDE DEF Acc
    <3> QED BY <3>1
  <2> HIDE DEF Acc
  <2> QED BY <2>2, <2>3
<1>5. Sliding(text, max) = Looped(slide, a, s).out
  BY <1>1, <1>2, <1>3, <1>4 DEF Sliding
<1>6. \A i \in 0..n : \A x : x \in I[i] <=> x \in Acc /\ Good(x.out, x.start, i)
  OBVIOUS
<1>7. a \in I[0]
  <2>1. SlidTo(<<>>, f + 0, f - 1, t, max)
    <3>1. Len(<<>>) = 0 /\ \A x \in f..f - 1 : FALSE
      OBVIOUS
    <3> QED BY <1>t, <3>1 DEF SlidTo
  <2>2. f + 0 - 1 = f - 1 /\ 0 < n
    BY <1>2
  <2>3. Good(<<>>, 0, 0)
    BY <2>1, <2>2
  <2> HIDE DEF I, Good, Acc
  <2>4. 0 \in 0..n
    OBVIOUS
  <2> QED BY <1>4, <1>6, <2>3, <2>4
<1>8. ASSUME NEW i \in 1..n, NEW x \in Acc
      PROVE  slide[<<x, i>>] \in Acc /\ (x \in I[i - 1] => slide[<<x, i>>] \in I[i])
  <2>0. i \in 0..n /\ i - 1 \in 0..n
    OBVIOUS
  <2>1. PICK start \in Nat : start = x.start
    OBVIOUS
  <2>2. PICK end \in Nat : end = IF start + max > n THEN n ELSE start + max
    OBVIOUS
  <2>3. PICK next \in Nat : next = IF end > start + o THEN end - o ELSE start + max
    <3> HIDE DEF I, Good, Acc, slide, Next
    <3>1. CASE end > start + o
      <4>1. end - o \in Nat
        BY <3>1
      <4> QED BY <3>1, <4>1
    <3>2. CASE ~(end > start + o)
      <4>1. start + max \in Nat
        OBVIOUS
      <4> QED BY <3>2, <4>1
    <3> QED BY <3>1, <3>2
  <2>4. slide[<<x, i>>] = Next(<<x, i>>)
    <3> HIDE DEF Next, Acc
    <3> QED OBVIOUS
  <2>5. PICK out \in Seq(Text) : out = x.out
    OBVIOUS
  <2>6. PICK w : w = [t EXCEPT !.from = t.from + start, !.to = t.from + end - 1]
    OBVIOUS
  <2>7. Next(<<x, i>>) = IF start >= n THEN x
                         ELSE [out |-> Append(out, <<w>>), start |-> next]
    BY <1>o, <2>1, <2>2, <2>3, <2>5, <2>6, Zenon
  <2>8. CASE start >= n
    <3>1. slide[<<x, i>>] = x
      BY <2>4, <2>7, <2>8, Zenon
    <3>2. Good(out, start, i - 1) => Good(out, start, i)
      BY <2>8
    <3> HIDE DEF I, Good, Acc, slide
    <3> QED BY <1>6, <2>0, <2>1, <2>5, <3>1, <3>2
  <2>9. CASE start < n
    <3>1. PICK y : y = [out |-> Append(out, <<w>>), start |-> next]
      OBVIOUS
    <3>2. slide[<<x, i>>] = y
      <4>1. ~(start >= n)
        BY <2>9
      <4> QED BY <2>4, <2>7, <3>1, <4>1, Zenon
    <3>3. /\ start < end /\ end <= n /\ end <= start + max /\ start < next
          /\ next >= n => end = n
          /\ next < n => next <= end
      BY <2>2, <2>3, <2>9
    <3>4. PICK from \in Nat : from = f + start
      OBVIOUS
    <3>5. PICK to \in Nat : to = f + end - 1
      BY <3>3
    <3>6. /\ t.from <= from /\ from <= to /\ to <= t.to /\ to + 1 - from <= max
          /\ f + next \in Nat /\ from < f + next
      <4>1. f <= from /\ from <= to /\ to <= b /\ to + 1 - from <= max
        BY <1>e, <3>3, <3>4, <3>5
      <4>2. f + next \in Nat /\ from < f + next
        BY <3>3, <3>4
      <4> QED BY <1>e, <1>t, <4>1, <4>2
    <3>7. w = [t EXCEPT !.from = from, !.to = to]
      <4>1. t.from + start = from /\ t.from + end - 1 = to
        BY <1>t, <3>4, <3>5
      <4> QED BY <2>6, <4>1, Zenon
    <3>8. w \in Stretch /\ <<w>> \in Text /\ Append(out, <<w>>) \in Seq(Text)
      <4>0. from \in Nat \ {0} /\ t.id \in Nat
        <5>1. f # 0 /\ t.id \in Nat
          BY <1>t, StretchFacts, Zenon
        <5>2. f <= from
          BY <3>4
        <5> QED BY <5>1, <5>2
      <4>1. PICK v \in Stretch : v = w
        BY <3>6, <3>7, <4>0 DEF Stretch
      <4>2. <<v>> \in Text
        BY OneStretch
      <4>3. PICK u \in Text : u = <<w>>
        BY <4>1, <4>2
      <4>4. Append(out, u) \in Seq(Text)
        BY AppendProperties
      <4> QED BY <4>1, <4>2, <4>3, <4>4
    <3>9. ASSUME Good(out, start, i - 1)
          PROVE  Good(Append(out, <<w>>), next, i)
      <4>1. SlidTo(out, from, from - 1, t, max)
        BY <2>9, <3>4, <3>9
      <4>2. SlidTo(Append(out, <<w>>), f + next, to, t, max)
        BY <3>6, <3>7, <4>1, SlideMore
      <4>3. PICK top \in Int : top = (IF next < n THEN f + next - 1 ELSE t.to) /\ top <= to
        <5>1. CASE next < n
          <6>1. f + next - 1 \in Int /\ f + next - 1 <= to
            BY <3>3, <3>5, <5>1
          <6> QED BY <5>1, <6>1
        <5>2. CASE ~(next < n)
          <6>1. b \in Int /\ b <= to
            BY <1>e, <3>3, <3>5, <5>2
          <6> QED BY <1>e, <5>2, <6>1
        <5> QED BY <5>1, <5>2
      <4>4. SlidTo(Append(out, <<w>>), f + next, top, t, max)
        BY <4>2, <4>3, LowerTop
      <4>5. i <= next \/ n <= next
        BY <2>9, <3>3, <3>9
      <4> QED BY <4>3, <4>4, <4>5
    <3>10. y \in Acc /\ y.out = Append(out, <<w>>) /\ y.start = next
      <4>1. PICK q \in Seq(Text) : q = Append(out, <<w>>)
        BY <3>8
      <4>2. y = [out |-> q, start |-> next]
        BY <3>1, <4>1, Zenon
      <4>3. y \in Acc /\ y.out = q /\ y.start = next
        BY <4>2
      <4> QED BY <4>1, <4>3
    <3> HIDE DEF I, Good, Acc, slide
    <3>11. x \in I[i - 1] => Good(out, start, i - 1)
      <4>1. x \in I[i - 1] => Good(x.out, x.start, i - 1)
        BY <1>6, <2>0, Zenon
      <4> QED BY <2>1, <2>5, <4>1, Zenon
    <3>12. Good(Append(out, <<w>>), next, i) => y \in I[i]
      <4>1. Good(y.out, y.start, i) => y \in I[i]
        BY <1>6, <2>0, <3>10, Zenon
      <4> QED BY <3>10, <4>1, Zenon
    <3>13. x \in I[i - 1] => y \in I[i]
      BY <3>9, <3>11, <3>12, Zenon
    <3> QED BY <3>2, <3>10, <3>13
  <2>10. start >= n \/ start < n
    OBVIOUS
  <2> HIDE DEF I, Good, Acc, slide
  <2> QED BY <2>8, <2>9, <2>10
<1>9. slide \in [Acc \X (1..n) -> Acc]
  <2> HIDE DEF Acc, I
  <2>1. \A p \in Acc \X (1..n) : \E x \in Acc, i \in 1..n : p = <<x, i>>
    OBVIOUS
  <2>2. \A p \in Acc \X (1..n) : slide[p] \in Acc
    <3> HIDE DEF slide
    <3> QED BY <1>8, <2>1
  <2>3. slide = [p \in Acc \X (1..n) |-> slide[p]]
    <3> HIDE DEF Next
    <3> QED OBVIOUS
  <2> HIDE DEF slide
  <2> QED BY <2>2, <2>3
<1> HIDE DEF slide, Acc, I
<1>10. \A i \in 1..Len(s) : \A x \in Acc : x \in I[i - 1] => slide[<<x, s[i]>>] \in I[i]
  BY <1>3, <1>8
<1>11. Looped(slide, a, s) \in I[Len(s)]
  BY <1>7, <1>9, <1>10, LoopKeeps, Zenon
<1>12. PICK y \in Acc : y = Looped(slide, a, s) /\ Good(y.out, y.start, n)
  <2>1. n \in 0..n
    OBVIOUS
  <2> HIDE DEF Good
  <2> QED BY <1>3, <1>6, <1>11, <2>1
<1>13. PICK out \in Seq(Text) : out = y.out /\ out = Sliding(text, max)
  BY <1>5, <1>12 DEF Acc
<1>14. SlidTo(out, f + y.start, t.to, t, max)
  BY <1>12, <1>13 DEF Acc
<1> QED BY <1>1, <1>13, <1>14, WindowsSay

-----------------------------------------------------------------------------
(* splitRecursive.                                                         *)

AllFit(texts, max) == \A k \in 1..Len(texts) : Runes(texts[k]) \in 1..max

\* Every chunk fits if those of each slice do.
LEMMA FlatFits ==
  ASSUME NEW max \in Nat, NEW ss \in Seq(Seq(Text)),
         \A i \in 1..Len(ss) : AllFit(ss[i], max)
  PROVE  AllFit(FlattenSeq(ss), max)
<1>1. PICK S : S = {t \in Text : Runes(t) \in 1..max}
  OBVIOUS
<1>2. PICK n \in Nat : n = Len(ss)
  OBVIOUS
<1>3. ASSUME NEW i \in 1..n PROVE ss[i] \in Seq(S)
  <2>1. PICK q \in Seq(Text) : q = ss[i]
    BY <1>2, ElementOfSeq
  <2>2. PICK l \in Nat : l = Len(q) /\ q \in [1..l -> Text]
    OBVIOUS
  <2>3. \A k \in 1..l : q[k] \in S
    BY <1>1, <1>2, <2>1, <2>2, ElementOfSeq DEF AllFit
  <2>4. q \in [1..l -> S]
    BY <2>2, <2>3
  <2> QED BY <2>1, <2>4, FunctionIsSeq
<1>4. ss \in Seq(Seq(S))
  <2>1. ss \in [1..n -> Seq(S)]
    BY <1>2, <1>3
  <2> QED BY <2>1, FunctionIsSeq
<1>5. FlattenSeq(ss) \in Seq(S)
  BY <1>4, FlattenIsFlat, Zenon
<1> QED BY <1>1, <1>5, ElementOfSeq DEF AllFit

\* What no level divides is one stretch.
LEMMA OnePart ==
  ASSUME NEW text \in Text, text # <<>>, Divided(text),
         Stuck(text, (({} \cup {"sentence"}) \cup {"clause"}) \cup {"line"} \cup {"word"})
  PROVE  Len(text) = 1
<1>1. PICK n \in Nat \ {0} : n = Len(text) /\ DOMAIN text = 1..n
  BY EmptySeq DEF Text
<1>2. ASSUME n > 1 PROVE FALSE
  <2>1. 1 \in 1..n /\ 1 \in 1..n - 1 /\ 1 < n
    BY <1>2
  <2>2. PICK t \in Stretch : t = text[1]
    BY <1>1, <2>1, ElementOfSeq DEF Text
  <2>3. t.ends # "none" \/ t.after # "none"
    BY <1>1, <2>1, <2>2 DEF Divided
  <2>4. ~EndsPart(t, "sentence") /\ ~EndsPart(t, "clause") /\ ~EndsPart(t, "word")
    BY <1>1, <2>1, <2>2 DEF Stuck
  <2>5. t.ends \in {"none", "clause", "sentence"}
    BY StretchFacts
  <2> QED BY <2>3, <2>4, <2>5 DEF EndsPart
<1> QED BY <1>1, <1>2

\* splitRecursive: sentences, clauses, lines, words and at last windows say every
\* rune of a text of any length, in order, in chunks of at most `max` runes.
THEOREM SplitRecursiveSays ==
  ASSUME NEW max \in Nat \ {0}, NEW text \in Text, text # <<>>, InOrder(text), Divided(text)
  PROVE  Says(SplitRecursive(text, max), Points(text), {}) /\ AllFit(SplitRecursive(text, max), max)
<1>1. PICK P : P = Points(text)
  OBVIOUS
<1>2. PICK sentences : sentences = CutAt(text, "sentence", max)
  OBVIOUS
<1>3. PICK clauses : clauses = EachCutAt(sentences, "clause", max)
  OBVIOUS
<1>4. PICK lines : lines = EachCutAt(clauses, "line", max)
  OBVIOUS
<1>5. PICK words : words = EachCutAt(lines, "word", max)
  OBVIOUS
<1>6. Division(sentences, P) /\ sentences \in Seq(PartsOf(max, {} \cup {"sentence"}))
  <2>1. text \in PartsOf(max, {})
    BY DEF PartsOf, Stuck
  <2> QED BY <1>1, <1>2, <2>1, CutAtParts
<1>7. Division(clauses, P) /\ clauses \in Seq(PartsOf(max, ({} \cup {"sentence"}) \cup {"clause"}))
  BY <1>3, <1>6, EachCutAtParts
<1>8. Division(lines, P) /\ lines \in Seq(PartsOf(max, (({} \cup {"sentence"}) \cup {"clause"}) \cup {"line"}))
  BY <1>4, <1>7, EachCutAtParts
<1>9. /\ Division(words, P)
      /\ words \in Seq(PartsOf(max, (({} \cup {"sentence"}) \cup {"clause"}) \cup {"line"} \cup {"word"}))
  BY <1>5, <1>8, EachCutAtParts
<1>10. PICK n \in Nat : n = Len(words) /\ DOMAIN words = 1..n
  BY <1>9
<1>11. PICK ss : ss = [i \in DOMAIN words |-> IF Runes(words[i]) <= max THEN <<words[i]>>
                                      ELSE Sliding(words[i], max)]
  OBVIOUS
<1>12. ASSUME NEW i \in 1..n
       PROVE  Says(ss[i], Points(words[i]), {}) /\ AllFit(ss[i], max)
  <2>1. PICK w : w = words[i]
    OBVIOUS
  <2>2. /\ w \in PartsOf(max, (({} \cup {"sentence"}) \cup {"clause"}) \cup {"line"} \cup {"word"})
        /\ w # <<>> /\ InOrder(w)
    BY <1>9, <1>10, <2>1, ElementOfSeq DEF Division, InSequence
  <2>3. w \in Text
    BY <2>2 DEF PartsOf
  <2>4. Runes(w) \in Nat /\ Runes(w) >= 1
    BY <2>2, <2>3, RunesNat
  <2>5. CASE Runes(w) <= max
    <3>1. ss[i] = <<w>>
      BY <1>10, <1>11, <2>1, <2>5
    <3>2. Division(<<w>>, Points(w))
      BY <2>2, <2>3, DivisionOne
    <3>3. Says(<<w>>, Points(w), {})
      BY <3>2, DivisionSays
    <3>4. AllFit(<<w>>, max)
      <4>1. Len(<<w>>) = 1 /\ <<w>>[1] = w
        OBVIOUS
      <4>2. PICK q : q = <<w>>
        OBVIOUS
      <4>3. Len(q) = 1 /\ \A k \in 1..1 : q[k] = w
        BY <4>1, <4>2
      <4>4. AllFit(q, max)
        BY <2>4, <2>5, <4>3 DEF AllFit
      <4> QED BY <4>2, <4>4
    <3> QED BY <2>1, <3>1, <3>3, <3>4
  <2>6. CASE ~(Runes(w) <= max)
    <3>1. ss[i] = Sliding(w, max)
      BY <1>10, <1>11, <2>1, <2>6
    <3>2. Len(w) = 1
      BY <2>2, <2>3, <2>6, OnePart DEF PartsOf
    <3>3. Says(Sliding(w, max), Points(w), {}) /\ AllFit(Sliding(w, max), max)
      BY <2>3, <3>2, SlidingSays DEF AllFit
    <3> QED BY <2>1, <3>1, <3>3
  <2> QED BY <2>5, <2>6
<1>13. ss \in Seq(Seq(Text)) /\ Len(ss) = n
  <2>1. \A i \in 1..n : ss[i] \in Seq(Text)
    BY <1>12 DEF Says
  <2>2. ss \in [1..n -> Seq(Text)]
    BY <1>10, <1>11, <2>1
  <2> QED BY <2>2, FunctionIsSeq
<1>14. Says(FlattenSeq(ss), P, {})
  BY <1>9, <1>10, <1>12, <1>13, FlatSays
<1>15. AllFit(FlattenSeq(ss), max)
  BY <1>12, <1>13, FlatFits
<1>16. SplitRecursive(text, max) = FlattenSeq(ss)
  <2>1. SplitRecursive(text, max) = EachSlid(words, max)
    BY <1>2, <1>3, <1>4, <1>5, Zenon DEF SplitRecursive
  <2> QED BY <1>11, <2>1, Zenon DEF EachSlid
<1> QED BY <1>1, <1>14, <1>15, <1>16

-----------------------------------------------------------------------------
(* packUnits.                                                              *)

\* The indices in g are those from m to n.
Selects(g, s, m, n) == g[1] = m /\ [j \in DOMAIN g |-> s[g[j]]] = SubSeq(s, m, n)

\* A range of indexes selects the range of the texts.
LEMMA IndexRange ==
  ASSUME NEW E, NEW s \in Seq(E), NEW m \in 1..Len(s), NEW n \in 1..Len(s), m <= n,
         NEW id, id = [i \in 1..Len(s) |-> i]
  PROVE  Selects(SubSeq(id, m, n), s, m, n)
<1>0. PICK g : g = SubSeq(id, m, n)
  OBVIOUS
<1>1. PICK w \in Nat : w = Len(s)
  OBVIOUS
<1>a. id \in Seq(1..w) /\ Len(id) = w /\ \A i \in 1..w : id[i] = i
  <2>1. id \in [1..w -> 1..w] /\ \A i \in 1..w : id[i] = i
    BY <1>1
  <2> QED BY <2>1, FunctionIsSeq
<1>2. m \in 1..Len(id) /\ n \in 1..Len(id)
  BY <1>1, <1>a
<1>3. PICK l \in Nat : l = n + 1 - m /\ l >= 1
  BY <1>1
<1>4. /\ g \in Seq(1..w) /\ Len(g) = l
      /\ \A j \in 1..l : g[j] = id[m + j - 1] /\ m + j - 1 \in m..n
  <2>1. /\ SubSeq(id, m, n) \in Seq(1..w)
        /\ Len(SubSeq(id, m, n)) = n + 1 - m
        /\ \A i \in 1..(n + 1 - m) : SubSeq(id, m, n)[i] = id[m + i - 1] /\ m + i - 1 \in m..n
    BY <1>2, <1>a, PartOf
  <2> QED BY <1>0, <1>3, <2>1
<1>5. \A j \in 1..l : g[j] = m + j - 1
  BY <1>1, <1>a, <1>4
<1>6. PICK q \in Seq(E) : /\ q = SubSeq(s, m, n) /\ Len(q) = l
                          /\ \A j \in 1..l : q[j] = s[m + j - 1]
  <2>1. /\ SubSeq(s, m, n) \in Seq(E) /\ Len(SubSeq(s, m, n)) = n + 1 - m
        /\ \A i \in 1..(n + 1 - m) : SubSeq(s, m, n)[i] = s[m + i - 1] /\ m + i - 1 \in m..n
    BY PartOf
  <2>2. PICK q : q = SubSeq(s, m, n)
    OBVIOUS
  <2>3. /\ q \in Seq(E) /\ Len(q) = l
        /\ \A j \in 1..l : q[j] = s[m + j - 1]
    BY <1>3, <2>1, <2>2
  <2> QED BY <2>2, <2>3
<1>7. q = [j \in 1..l |-> s[g[j]]]
  <2>1. q = [j \in 1..l |-> q[j]]
    BY <1>6
  <2>2. \A j \in 1..l : q[j] = s[g[j]]
    BY <1>5, <1>6
  <2> QED BY <2>1, <2>2
<1>8. DOMAIN g = 1..l
  BY <1>4
<1>9. g[1] = m
  BY <1>3, <1>5
<1>10. Selects(g, s, m, n)
  BY <1>6, <1>7, <1>8, <1>9 DEF Selects
<1> QED BY <1>0, <1>10

\* What says everything says all that is not lost.
LEMMA SaysLess ==
  ASSUME NEW P, NEW L, NEW texts, Says(texts, P, {})
  PROVE  Says(texts, P, L)
BY DEF Says

\* packUnits says everything in chunks that fit, if `split` does for each text
\* that is too long.
THEOREM PackUnitsSay ==
  ASSUME NEW P, NEW L, NEW texts, Division(texts, P), NEW max \in Nat, NEW split,
         \A i \in 1..Len(texts) : Runes(texts[i]) > max =>
           Says(split[i], Points(texts[i]), L) /\ AllFit(split[i], max)
  PROVE  Says(PackUnits(texts, max, split), P, L) /\ AllFit(PackUnits(texts, max, split), max)
<1>1. PICK n \in Nat : n = Len(texts) /\ DOMAIN texts = 1..n /\ texts \in Seq(Text)
  BY DEF Division, InSequence
<1>2. PICK id \in Seq(1..n) : id = [i \in 1..n |-> i] /\ Len(id) = n /\ \A i \in 1..n : id[i] = i
  <2>1. PICK s : s = [i \in 1..n |-> i]
    OBVIOUS
  <2>2. s \in [1..n -> 1..n] /\ \A i \in 1..n : s[i] = i
    BY <2>1
  <2>3. s \in Seq(1..n) /\ Len(s) = n
    BY <2>2, FunctionIsSeq
  <2> QED BY <2>1, <2>2, <2>3
<1>3. PICK B : B = Begins(texts, max, "blank", TRUE)
  OBVIOUS
<1>4. PICK r \in Seq(Seq(1..n)) : r = Grouped(id, B) /\ \E u, v : GroupRanges(r, u, v, id, B)
  <2>1. Grouped(id, B) \in Seq(Seq(1..n)) /\ \E u, v : GroupRanges(Grouped(id, B), u, v, id, B)
    BY GroupedRanges, Zenon
  <2> QED BY <2>1
<1>5. PICK u, v : GroupRanges(r, u, v, id, B)
  BY <1>4
<1>6. PICK l \in Nat : l = Len(r) /\ DOMAIN r = 1..l
  OBVIOUS
<1>7. /\ Ranges(u, v, l, n)
      /\ \A k \in 1..l : r[k] = SubSeq(id, u[k], v[k])
      /\ \A k \in 1..l : \A i \in u[k] + 1..v[k] : i \notin B
  BY <1>2, <1>5, <1>6 DEF GroupRanges
<1> DEFINE Packs(g) == IF Runes(texts[g[1]]) > max THEN split[g[1]]
                       ELSE <<AllJoined([j \in DOMAIN g |-> texts[g[j]]], "blank")>>
<1>8. PICK ss : ss = [k \in 1..l |-> Packs(r[k])]
  OBVIOUS
<1>9. PackUnits(texts, max, split) = FlattenSeq(ss)
  <2>1. [i \in DOMAIN texts |-> i] = id
    BY <1>1, <1>2
  <2>2. Grouped([i \in DOMAIN texts |-> i], Begins(texts, max, "blank", TRUE)) = r
    BY <1>3, <1>4, <2>1, Zenon
  <2>3. PackUnits(texts, max, split) = FlattenSeq([k \in DOMAIN r |-> Packs(r[k])])
    BY <2>2, Zenon DEF PackUnits
  <2> QED BY <1>6, <1>8, <2>3, Zenon
<1>10. PICK q : q = [k \in 1..l |-> AllJoined(SubSeq(texts, u[k], v[k]), "blank")]
  OBVIOUS
<1>g. "blank" \in Gaps
  BY DEF Gaps
<1>11. ASSUME NEW k \in 1..l
       PROVE  /\ q[k] \in Text
              /\ Says(ss[k], Points(q[k]), L) /\ AllFit(ss[k], max)
  <2>0. u[k] \in 1..n /\ v[k] \in 1..n /\ u[k] <= v[k]
    BY <1>7, RangeOf, Zenon
  <2>1. PICK m \in 1..n : m = u[k]
    BY <2>0
  <2>2. PICK e \in 1..n : e = v[k] /\ m <= e
    BY <2>0, <2>1
  <2>3. PICK x : x = AllJoined(SubSeq(texts, m, e), "blank") /\ x = q[k]
    BY <1>10, <2>1, <2>2
  <2>4. m \in 1..Len(texts) /\ e \in 1..Len(texts)
    BY <1>1
  <2>5. x \in Text /\ x # <<>> /\ InOrder(x) /\ (m = e => x = texts[m])
    BY <1>g, <2>2, <2>3, <2>4, RangeOfDivision
  <2>6. PICK g : g = r[k] /\ g = SubSeq(id, m, e)
    BY <1>7, <2>1, <2>2
  <2>7. g[1] = m /\ [j \in DOMAIN g |-> texts[g[j]]] = SubSeq(texts, m, e)
    <3>1. id = [i \in 1..Len(texts) |-> i]
      BY <1>1, <1>2
    <3>2. m <= e /\ texts \in Seq(Text)
      BY <1>1, <2>2
    <3>3. Selects(SubSeq(id, m, e), texts, m, e)
      BY <2>4, <3>1, <3>2, IndexRange
    <3>4. Selects(g, texts, m, e)
      BY <2>6, <3>3
    <3> QED BY <3>4, Zenon DEF Selects
  <2>8. ss[k] = IF Runes(texts[m]) > max THEN split[m] ELSE <<x>>
    <3>1. ss[k] = Packs(g)
      <4> HIDE DEF Packs
      <4> QED BY <1>8, <2>6
    <3>2. [j \in DOMAIN g |-> texts[g[j]]] = SubSeq(texts, m, e)
      BY <2>7
    <3> QED BY <2>3, <2>7, <3>1, <3>2, Zenon
  <2>9. \A j \in m + 1..e : j \notin B
    BY <1>7, <2>1, <2>2
  <2>10. Runes(texts[m]) \in Nat
    BY <1>g, <2>4, FitsAlone
  <2>11. Runes(x) \in Nat /\ Runes(x) >= 1
    BY <2>5, RunesNat
  <2>12. CASE Runes(texts[m]) > max
    <3>1. ASSUME m < e PROVE FALSE
      <4>1. PICK h \in 1..n : h = m + 1 /\ h \in 1..Len(texts) /\ m < h /\ h - 1 = m /\ m # h
        BY <1>1, <3>1
      <4>2. \A j \in m + 1..h : j \notin B
        BY <2>9, <3>1, <4>1
      <4>3. Fits(texts, max, "blank", m, h)
        <5>1. \A j \in m + 1..h : j \notin Begins(texts, max, "blank", TRUE)
          BY <1>3, <4>2
        <5>2. m <= h /\ TRUE \in BOOLEAN /\ h \in 1..Len(texts)
          BY <4>1
        <5> QED BY <1>g, <2>4, <5>1, <5>2, BeginsFit, Zenon
      <4>4. Runes(AllJoined(SubSeq(texts, m, h), "blank")) <= max
        BY <4>1, <4>3 DEF Fits
      <4>5. Runes(AllJoined(SubSeq(texts, m, h), "blank"))
              = Runes(AllJoined(SubSeq(texts, m, h - 1), "blank")) + Gap("blank") + Runes(texts[h])
        BY <1>g, <2>4, <4>1, RangeRunes
      <4>6. Runes(AllJoined(SubSeq(texts, m, h - 1), "blank")) = Runes(texts[m])
        BY <1>g, <2>4, <4>1, FitsAlone
      <4>7. Runes(texts[h]) \in Nat /\ Gap("blank") \in Nat
        BY <1>g, <4>1, FitsAlone, GapIsNat
      <4> QED BY <2>10, <2>12, <4>4, <4>5, <4>6, <4>7
    <3>2. m = e
      BY <2>2, <3>1
    <3>3. ss[k] = split[m] /\ x = texts[m]
      BY <2>5, <2>8, <2>12, <3>2
    <3> QED BY <2>3, <2>4, <2>5, <2>12, <3>3
  <2>13. CASE ~(Runes(texts[m]) > max)
    <3>1. Fits(texts, max, "blank", m, e)
      BY <1>g, <1>3, <2>2, <2>4, <2>9, BeginsFit
    <3>2. Runes(x) \in 1..max
      BY <2>3, <2>11, <2>13, <3>1 DEF Fits
    <3>3. Division(<<x>>, Points(x))
      BY <2>5, DivisionOne
    <3>4. Says(<<x>>, Points(x), L)
      BY <3>3, DivisionSays, SaysLess
    <3>5. AllFit(<<x>>, max)
      <4>1. Len(<<x>>) = 1 /\ <<x>>[1] = x
        OBVIOUS
      <4>2. PICK z : z = <<x>>
        OBVIOUS
      <4>3. Len(z) = 1 /\ \A i \in 1..1 : z[i] = x
        BY <4>1, <4>2
      <4>4. AllFit(z, max)
        BY <3>2, <4>3 DEF AllFit
      <4> QED BY <4>2, <4>4
    <3> QED BY <2>3, <2>5, <2>8, <2>13, <3>4, <3>5
  <2> QED BY <2>12, <2>13
<1>12. q \in Seq(Text) /\ Len(q) = l
  <2>1. q \in [1..l -> Text]
    BY <1>10, <1>11
  <2> QED BY <2>1, FunctionIsSeq
<1>13. Division(q, P)
  <2>1. \A k \in 1..l : q[k] = AllJoined(SubSeq(texts, u[k], v[k]), "blank")
    BY <1>10
  <2> QED BY <1>1, <1>7, <1>g, <1>12, <2>1, DivisionJoined
<1>14. ss \in Seq(Seq(Text)) /\ Len(ss) = l
  <2>1. \A k \in 1..l : ss[k] \in Seq(Text)
    BY <1>11 DEF Says
  <2>2. ss \in [1..l -> Seq(Text)]
    <3> HIDE DEF Packs
    <3> QED BY <1>8, <2>1
  <2> QED BY <2>2, FunctionIsSeq
<1>15. Says(FlattenSeq(ss), P, L)
  BY <1>11, <1>12, <1>13, <1>14, FlatSays
<1>16. AllFit(FlattenSeq(ss), max)
  BY <1>11, <1>14, FlatFits
<1> QED BY <1>9, <1>15, <1>16

-----------------------------------------------------------------------------
(* Blocks.                                                                 *)

\* The texts of records.
LEMMA TextsOfSeq ==
  ASSUME NEW R, \A x \in R : x.text \in Text, NEW records \in Seq(R)
  PROVE  /\ TextsOf(records) \in Seq(Text) /\ Len(TextsOf(records)) = Len(records)
         /\ \A i \in 1..Len(records) : TextsOf(records)[i] = records[i].text
<1>1. PICK n \in Nat : n = Len(records) /\ DOMAIN records = 1..n
  OBVIOUS
<1>2. \A i \in 1..n : records[i] \in R
  BY <1>1, ElementOfSeq
<1>3. PICK q : q = [i \in 1..n |-> records[i].text]
  OBVIOUS
<1>4. q \in [1..n -> Text]
  BY <1>2, <1>3
<1>5. q \in Seq(Text) /\ Len(q) = n
  BY <1>4, FunctionIsSeq
<1>6. q = TextsOf(records)
  BY <1>1, <1>3 DEF TextsOf
<1> QED BY <1>1, <1>3, <1>5, <1>6

\* The texts of a range of records are the range of their texts.
LEMMA TextsOfRange ==
  ASSUME NEW R, \A x \in R : x.text \in Text, NEW records \in Seq(R),
         NEW m \in 1..Len(records), NEW n \in 1..Len(records), m <= n
  PROVE  TextsOf(SubSeq(records, m, n)) \in {SubSeq(TextsOf(records), m, n)}
<1>1. PICK t \in Seq(Text) : /\ t = TextsOf(records) /\ Len(t) = Len(records)
                             /\ \A i \in 1..Len(records) : t[i] = records[i].text
  BY TextsOfSeq
<1>2. m \in 1..Len(t) /\ n \in 1..Len(t)
  BY <1>1
<1>3. PICK l \in Nat : l = n + 1 - m /\ l >= 1
  OBVIOUS
<1>4. PICK p : p = SubSeq(records, m, n)
  OBVIOUS
<1>5. /\ p \in Seq(R) /\ Len(p) = l
      /\ \A i \in 1..l : p[i] = records[m + i - 1] /\ m + i - 1 \in m..n
  <2>1. /\ SubSeq(records, m, n) \in Seq(R)
        /\ Len(SubSeq(records, m, n)) = n + 1 - m
        /\ \A i \in 1..(n + 1 - m) : SubSeq(records, m, n)[i] = records[m + i - 1] /\ m + i - 1 \in m..n
    BY PartOf
  <2> QED BY <1>3, <1>4, <2>1
<1>6. PICK q : q = SubSeq(t, m, n)
  OBVIOUS
<1>7. /\ q \in Seq(Text) /\ Len(q) = l
      /\ \A i \in 1..l : q[i] = t[m + i - 1] /\ m + i - 1 \in m..n
  <2>1. /\ SubSeq(t, m, n) \in Seq(Text)
        /\ Len(SubSeq(t, m, n)) = n + 1 - m
        /\ \A i \in 1..(n + 1 - m) : SubSeq(t, m, n)[i] = t[m + i - 1] /\ m + i - 1 \in m..n
    BY <1>2, PartOf
  <2> QED BY <1>3, <1>6, <2>1
<1>8. /\ TextsOf(p) \in Seq(Text) /\ Len(TextsOf(p)) = Len(p)
      /\ \A i \in 1..Len(p) : TextsOf(p)[i] = p[i].text
  BY <1>5, TextsOfSeq
<1>9. PICK r \in Seq(Text) : r = TextsOf(p) /\ Len(r) = l /\ \A i \in 1..l : r[i] = p[i].text
  BY <1>5, <1>8
<1>10. \A i \in m..n : i \in 1..Len(records)
  OBVIOUS
<1>11. \A i \in 1..l : r[i] = q[i]
  BY <1>1, <1>5, <1>7, <1>9, <1>10
<1>12. r = q
  <2>1. r = [i \in 1..l |-> r[i]] /\ q = [i \in 1..l |-> q[i]]
    BY <1>7, <1>9
  <2> QED BY <1>11, <2>1
<1>13. TextsOf(SubSeq(records, m, n)) = q
  BY <1>4, <1>9, <1>12
<1> QED BY <1>1, <1>6, <1>13

\* What ChunkConstants says of the lines of a document.
LEMMA LinesDivide ==
  ASSUME NEW d \in Documents
  PROVE  LET texts == TextsOf(d.lines)
         IN  /\ d.lines \in Seq(Lines)
             /\ texts \in Seq(Text) /\ Len(texts) = Len(d.lines)
             /\ \A i \in 1..Len(d.lines) : texts[i] = d.lines[i].text
             /\ InSequence(texts) /\ AllDivided(texts)
<1>1. PICK lines \in Seq(Lines) : lines = d.lines
  BY ChunkConstants
<1>2. PICK n \in Nat : n = Len(lines) /\ DOMAIN lines = 1..n
  OBVIOUS
<1>3. /\ Apart(TextsOf(lines))
      /\ \A i \in 1..n : InOrder(lines[i].text) /\ Divided(lines[i].text)
  BY <1>1, <1>2, ChunkConstants
<1>4. \A x \in Lines : x.text \in Text
  BY DEF Lines
<1>5. PICK t \in Seq(Text) : t = TextsOf(lines) /\ Len(t) = n /\ \A i \in 1..n : t[i] = lines[i].text
  BY <1>2, <1>4, TextsOfSeq
<1>6. \A i, j \in 1..Len(t) : i < j => Before(Points(t[i]), Points(t[j]))
  BY <1>3, <1>5, ApartPoints
<1>7. InSequence(t)
  BY <1>3, <1>5, <1>6 DEF InSequence
<1>8. AllDivided(t)
  BY <1>3, <1>5 DEF AllDivided
<1> QED BY <1>1, <1>2, <1>5, <1>7, <1>8

BlockBegins(d) == IF d.format = "markdown" THEN MarkdownBegins(d.lines) ELSE ParagraphBegins(d.lines)

\* The text of the lines from m to n.
LinesText(d, m, n) == AllJoined(SubSeq(TextsOf(d.lines), m, n), "line")

\* Block b has the lines of group h[b], and every group that has a text is a block.
BlocksAre(blocks, u, v, l, h, d) ==
  /\ Ranges(u, v, l, Len(d.lines))
  /\ \A k \in 2..l : u[k] \in BlockBegins(d)
  /\ h \in [1..Len(blocks) -> 1..l]
  /\ \A b \in 1..Len(blocks) :
       /\ blocks[b] \in Block /\ blocks[b].text # <<>>
       /\ blocks[b].text = LinesText(d, u[h[b]], v[h[b]])
  /\ \A b, c \in 1..Len(blocks) : b < c => h[b] < h[c]
  /\ \A k \in 1..l : LinesText(d, u[k], v[k]) # <<>> => \E b \in 1..Len(blocks) : h[b] = k

\* The blocks of a document are ranges of its lines.
LEMMA BlocksOfLines ==
  ASSUME NEW d \in Documents
  PROVE  /\ Blocks(d) \in Seq(Block)
         /\ \E u, v, l, h : l \in Nat /\ BlocksAre(Blocks(d), u, v, l, h, d)
<1>1. PICK lines \in Seq(Lines) : lines = d.lines
  BY LinesDivide
<1>2. PICK n \in Nat : n = Len(lines)
  OBVIOUS
<1>3. PICK t \in Seq(Text) : t = TextsOf(lines) /\ Len(t) = n /\ InSequence(t)
  BY <1>1, <1>2, LinesDivide
<1>4. PICK B : B = BlockBegins(d)
  OBVIOUS
<1>5. PICK r \in Seq(Seq(Lines)) : r = Grouped(lines, B) /\ \E u, v : GroupRanges(r, u, v, lines, B)
  <2>1. Grouped(lines, B) \in Seq(Seq(Lines)) /\ \E u, v : GroupRanges(Grouped(lines, B), u, v, lines, B)
    BY GroupedRanges, Zenon
  <2> QED BY <2>1
<1>6. PICK u, v : GroupRanges(r, u, v, lines, B)
  BY <1>5
<1>7. PICK l \in Nat : l = Len(r) /\ DOMAIN r = 1..l
  OBVIOUS
<1>8. /\ Ranges(u, v, l, n)
      /\ \A k \in 1..l : r[k] = SubSeq(lines, u[k], v[k])
      /\ \A k \in 2..l : u[k] \in B
  BY <1>2, <1>6, <1>7 DEF GroupRanges
<1>9. PICK s : s = [k \in 1..l |-> ToBlock(r[k])]
  OBVIOUS
<1>10. Blocks(d) = Only(s, {b \in Block : b.text # <<>>})
  <2>1. Blocks(d) = Only([k \in DOMAIN r |-> ToBlock(r[k])], {b \in Block : b.text # <<>>})
    BY <1>1, <1>4, <1>5, Zenon DEF Blocks, BlockBegins
  <2> QED BY <1>7, <1>9, <2>1, Zenon
<1>11. ASSUME NEW k \in 1..l
       PROVE  s[k] \in Block /\ s[k].text = LinesText(d, u[k], v[k])
  <2>0. u[k] \in 1..n /\ v[k] \in 1..n /\ u[k] <= v[k]
    BY <1>8, RangeOf, Zenon
  <2>1. PICK m \in 1..n : m = u[k]
    BY <2>0
  <2>2. PICK e \in 1..n : e = v[k] /\ m <= e
    BY <2>0, <2>1
  <2>3. r[k] = SubSeq(lines, m, e)
    BY <1>8, <2>1, <2>2
  <2>4. TextsOf(r[k]) = SubSeq(t, m, e)
    <3>1. \A x \in Lines : x.text \in Text
      BY DEF Lines
    <3>2. m \in 1..Len(lines) /\ e \in 1..Len(lines)
      BY <1>2
    <3>3. TextsOf(SubSeq(lines, m, e)) \in {SubSeq(TextsOf(lines), m, e)}
      BY <2>2, <3>1, <3>2, TextsOfRange
    <3> QED BY <1>3, <2>3, <3>3
  <2>5. PICK x : x = AllJoined(SubSeq(t, m, e), "line")
    OBVIOUS
  <2>6. s[k] = [heading |-> r[k][1].kind = "heading", text |-> x]
    BY <1>9, <2>4, <2>5 DEF ToBlock
  <2>7. x \in Text
    <3>1. m \in 1..Len(t) /\ e \in 1..Len(t) /\ "line" \in Gaps
      BY <1>3 DEF Gaps
    <3>2. SaysAll(x, t, m, e)
      BY <1>3, <2>2, <2>5, <3>1, RangeJoined
    <3> QED BY <3>2 DEF SaysAll
  <2>8. x = LinesText(d, u[k], v[k])
    BY <1>1, <1>3, <2>1, <2>2, <2>5 DEF LinesText
  <2> QED BY <2>6, <2>7, <2>8 DEF Block
<1>12. s \in Seq(Block) /\ Len(s) = l
  <2>1. s \in [1..l -> Block]
    BY <1>9, <1>11
  <2> QED BY <2>1, FunctionIsSeq
<1>13. PICK T : T = {b \in Block : b.text # <<>>}
  OBVIOUS
<1>14. Only(s, T) \in Seq(T) /\ \E g : Picks(Only(s, T), g, s, T, Len(s))
  BY <1>12, OnlyPicks
<1>15. PICK blocks \in Seq(T) : blocks = Blocks(d) /\ \E g : Picks(blocks, g, s, T, l)
  BY <1>10, <1>12, <1>13, <1>14
<1>16. PICK h : Picks(blocks, h, s, T, l)
  BY <1>15
<1>17. PICK w \in Nat : w = Len(blocks)
  OBVIOUS
<1>18. /\ h \in [1..w -> 1..l]
       /\ \A i \in 1..w : blocks[i] = s[h[i]]
       /\ \A i, j \in 1..w : i < j => h[i] < h[j]
       /\ \A j \in 1..l : s[j] \in T => \E i \in 1..w : h[i] = j
  BY <1>16, <1>17 DEF Picks
<1>19. ASSUME NEW b \in 1..w
       PROVE  /\ blocks[b] \in Block /\ blocks[b].text # <<>>
              /\ blocks[b].text = LinesText(d, u[h[b]], v[h[b]])
  <2>1. blocks[b] \in T
    BY <1>17, ElementOfSeq
  <2>2. PICK k \in 1..l : k = h[b]
    BY <1>18
  <2>3. blocks[b] = s[k]
    BY <1>18, <2>2
  <2> QED BY <1>11, <1>13, <2>1, <2>2, <2>3
<1>20. \A k \in 1..l : LinesText(d, u[k], v[k]) # <<>> => \E b \in 1..w : h[b] = k
  BY <1>11, <1>13, <1>18
<1>21. BlocksAre(blocks, u, v, l, h, d)
  BY <1>1, <1>2, <1>4, <1>8, <1>17, <1>18, <1>19, <1>20 DEF BlocksAre
<1>22. Blocks(d) \in Seq(Block)
  <2>1. T \subseteq Block
    BY <1>13
  <2> QED BY <1>15, <2>1, SeqMonotonic
<1> QED BY <1>15, <1>21, <1>22

\* The blocks divide the text.
LEMMA BlocksDivide ==
  ASSUME NEW d \in Documents
  PROVE  LET texts == TextsOf(Blocks(d))
         IN  /\ Blocks(d) \in Seq(Block)
             /\ Division(texts, PointsAll(TextsOf(d.lines))) /\ AllDivided(texts)
<1>1. PICK t \in Seq(Text) : t = TextsOf(d.lines) /\ Len(t) = Len(d.lines) /\ InSequence(t) /\ AllDivided(t)
  BY LinesDivide
<1>2. PICK n \in Nat : n = Len(t)
  OBVIOUS
<1>3. PICK blocks \in Seq(Block) : /\ blocks = Blocks(d)
                                   /\ \E u, v, l, h : l \in Nat /\ BlocksAre(blocks, u, v, l, h, d)
  BY BlocksOfLines
<1>4. PICK u, v, l, h : l \in Nat /\ BlocksAre(blocks, u, v, l, h, d)
  BY <1>3
<1>5. PICK w \in Nat : w = Len(blocks)
  OBVIOUS
<1>6. /\ Ranges(u, v, l, n)
      /\ h \in [1..w -> 1..l]
      /\ \A b \in 1..w : blocks[b].text # <<>> /\ blocks[b].text = LinesText(d, u[h[b]], v[h[b]])
      /\ \A b, c \in 1..w : b < c => h[b] < h[c]
      /\ \A k \in 1..l : LinesText(d, u[k], v[k]) # <<>> => \E b \in 1..w : h[b] = k
  BY <1>1, <1>2, <1>4, <1>5 DEF BlocksAre
<1>7. PICK q \in Seq(Text) : /\ q = TextsOf(blocks) /\ Len(q) = w
                             /\ \A b \in 1..w : q[b] = blocks[b].text
  <2>1. \A x \in Block : x.text \in Text
    BY DEF Block
  <2> QED BY <1>5, <2>1, TextsOfSeq
<1>8. ASSUME NEW k \in 1..l
      PROVE  SaysAll(LinesText(d, u[k], v[k]), t, u[k], v[k])
  <2>0. u[k] \in 1..n /\ v[k] \in 1..n /\ u[k] <= v[k]
    BY <1>4, <1>6, RangeOf, Zenon
  <2>1. PICK m \in 1..n : m = u[k]
    BY <2>0
  <2>2. PICK e \in 1..n : e = v[k] /\ m <= e
    BY <2>0, <2>1
  <2>3. m \in 1..Len(t) /\ e \in 1..Len(t) /\ "line" \in Gaps
    BY <1>2 DEF Gaps
  <2>4. SaysAll(AllJoined(SubSeq(t, m, e), "line"), t, m, e)
    BY <1>1, <2>2, <2>3, RangeJoined
  <2> QED BY <1>1, <2>1, <2>2, <2>4 DEF LinesText
<1>9. PICK P : /\ P = PointsAll(t)
               /\ \A p : p \in P <=> \E i \in 1..n : p \in Points(t[i])
  <2>1. DOMAIN t = 1..n
    BY <1>2
  <2>2. \A p : p \in PointsAll(t) <=> \E i \in 1..n : p \in Points(t[i])
    BY <2>1, Zenon DEF PointsAll
  <2> QED BY <2>2
<1>11. \A b \in 1..w : h[b] \in 1..l
  BY <1>6
<1>10. ASSUME NEW b \in 1..w
       PROVE  /\ q[b] # <<>> /\ InOrder(q[b]) /\ Divided(q[b])
              /\ \A p : p \in Points(q[b]) <=> \E i \in u[h[b]]..v[h[b]] : p \in Points(t[i])
  <2>1. PICK k \in 1..l : k = h[b]
    BY <1>11
  <2>2. q[b] = LinesText(d, u[k], v[k]) /\ q[b] # <<>>
    <3>1. blocks[b].text # <<>> /\ blocks[b].text = LinesText(d, u[h[b]], v[h[b]])
      BY <1>6, Zenon
    <3>2. q[b] = blocks[b].text
      BY <1>7
    <3> QED BY <2>1, <3>1, <3>2, Zenon
  <2>3. SaysAll(q[b], t, u[k], v[k])
    BY <1>8, <2>2
  <2> QED BY <1>1, <2>1, <2>2, <2>3 DEF SaysAll
<1>12. \A b \in 1..w : Points(q[b]) \subseteq P
  <2> SUFFICES ASSUME NEW b \in 1..w, NEW p \in Points(q[b]) PROVE p \in P
    OBVIOUS
  <2>1. PICK k \in 1..l : k = h[b]
    BY <1>11
  <2>2. PICK i \in u[k]..v[k] : p \in Points(t[i])
    BY <1>10, <2>1
  <2>3. i \in 1..n
    BY <1>4, <1>6, <2>2, RangeOf
  <2> QED BY <1>9, <2>2, <2>3
<1>13. ASSUME NEW b \in 1..w, NEW c \in 1..w, b < c
       PROVE  Before(Points(q[b]), Points(q[c]))
  <2> SUFFICES ASSUME NEW p \in Points(q[b]), NEW r \in Points(q[c]) PROVE p[1] < r[1]
    BY DEF Before
  <2>a. PICK k \in 1..l : k = h[b]
    BY <1>11
  <2>b. PICK j \in 1..l : j = h[c] /\ k < j
    BY <1>6, <1>11, <1>13, <2>a
  <2>1. PICK x \in u[k]..v[k] : p \in Points(t[x])
    BY <1>10, <2>a
  <2>2. PICK y \in u[j]..v[j] : r \in Points(t[y])
    BY <1>10, <2>b
  <2>4. x \in 1..n /\ y \in 1..n /\ x < y
    <3>1. Ranges(u, v, l, n) /\ l \in Nat
      BY <1>4, <1>6
    <3>2. /\ \A i \in u[k]..v[k] : i \in 1..n
          /\ \A i \in u[j]..v[j] : i \in 1..n
          /\ \A z \in u[k]..v[k], z2 \in u[j]..v[j] : z < z2
      BY <2>b, <3>1, RangeOf
    <3> QED BY <2>1, <2>2, <3>2
  <2>5. Before(Points(t[x]), Points(t[y]))
    BY <1>1, <1>2, <2>4 DEF InSequence
  <2> QED BY <2>1, <2>2, <2>5 DEF Before
<1>14. ASSUME NEW p \in P PROVE \E b \in 1..w : p \in Points(q[b])
  <2>1. PICK i \in 1..n : p \in Points(t[i])
    BY <1>9
  <2>2. PICK k \in 1..l : i \in u[k]..v[k]
    BY <1>6, <2>1 DEF Ranges
  <2>3. p \in Points(LinesText(d, u[k], v[k])) /\ LinesText(d, u[k], v[k]) \in Text
    BY <1>8, <2>1, <2>2 DEF SaysAll
  <2>4. LinesText(d, u[k], v[k]) # <<>>
    BY <2>3, IdsOfPoints
  <2>5. PICK b \in 1..w : h[b] = k
    BY <1>6, <2>4
  <2>6. q[b] = LinesText(d, u[k], v[k])
    BY <1>6, <1>7, <2>5
  <2> QED BY <2>3, <2>6
<1>15. InSequence(q)
  BY <1>7, <1>10, <1>13 DEF InSequence
<1>16. Division(q, P) /\ AllDivided(q)
  BY <1>7, <1>10, <1>12, <1>14, <1>15 DEF Division, AllDivided
<1> QED BY <1>1, <1>3, <1>7, <1>9, <1>16

-----------------------------------------------------------------------------
(* Units.                                                                  *)

\* A part of a division is one.
LEMMA PartDivides ==
  ASSUME NEW P, NEW texts, Division(texts, P), NEW m \in 1..Len(texts), NEW n \in 1..Len(texts), m <= n,
         NEW Q, \A p : p \in Q <=> \E k \in m..n : p \in Points(texts[k])
  PROVE  Division(SubSeq(texts, m, n), Q) /\ (AllDivided(texts) => AllDivided(SubSeq(texts, m, n)))
<1>1. texts \in Seq(Text)
  BY DEF Division, InSequence
<1>2. PICK l \in Nat : l = n + 1 - m /\ l >= 1
  OBVIOUS
<1>3. PICK w \in Nat : w = Len(texts) /\ m \in 1..w /\ n \in 1..w
  BY <1>1
<1>4. PICK q \in Seq(Text) : q = SubSeq(texts, m, n) /\ Len(q) = l
                             /\ \A i \in 1..l : q[i] = texts[m + i - 1]
                             /\ \A k \in m..n : k + 1 - m \in 1..l /\ q[k + 1 - m] = texts[k]
  <2>1. /\ SubSeq(texts, m, n) \in Seq(Text) /\ Len(SubSeq(texts, m, n)) = n + 1 - m
        /\ \A i \in 1..(n + 1 - m) : SubSeq(texts, m, n)[i] = texts[m + i - 1] /\ m + i - 1 \in m..n
        /\ \A i \in m..n : i + 1 - m \in 1..(n + 1 - m) /\ SubSeq(texts, m, n)[i + 1 - m] = texts[i]
    BY <1>1, PartOf
  <2>2. PICK q : q = SubSeq(texts, m, n)
    OBVIOUS
  <2>3. /\ q \in Seq(Text) /\ Len(q) = l
        /\ \A i \in 1..l : q[i] = texts[m + i - 1]
        /\ \A k \in m..n : k + 1 - m \in 1..l /\ q[k + 1 - m] = texts[k]
    BY <1>2, <2>1, <2>2
  <2> QED BY <2>2, <2>3
<1>5. ASSUME NEW i \in 1..l PROVE \E k \in m..n : k = m + i - 1 /\ k \in 1..w /\ q[i] = texts[k]
  <2>1. m + i - 1 \in m..n /\ m + i - 1 \in 1..w
    BY <1>2, <1>3
  <2> QED BY <1>4, <2>1
<1>6. \A k \in 1..w : texts[k] # <<>> /\ InOrder(texts[k])
  BY <1>3 DEF Division, InSequence
<1>7. \A j, k \in 1..w : j < k => Before(Points(texts[j]), Points(texts[k]))
  BY <1>3 DEF Division, InSequence
<1>8. \A i \in 1..l : InOrder(q[i]) /\ q[i] # <<>> /\ Points(q[i]) \subseteq Q
  BY <1>5, <1>6
<1>9. ASSUME NEW i \in 1..l, NEW j \in 1..l, i < j PROVE Before(Points(q[i]), Points(q[j]))
  <2>1. PICK k \in m..n : k = m + i - 1 /\ k \in 1..w /\ q[i] = texts[k]
    BY <1>5
  <2>2. PICK z \in m..n : z = m + j - 1 /\ z \in 1..w /\ q[j] = texts[z]
    BY <1>5
  <2>3. k < z
    BY <1>9, <2>1, <2>2
  <2> QED BY <1>7, <2>1, <2>2, <2>3
<1>10. ASSUME NEW p \in Q PROVE \E i \in 1..l : p \in Points(q[i])
  <2>1. PICK k \in m..n : p \in Points(texts[k])
    OBVIOUS
  <2>2. k + 1 - m \in 1..l /\ q[k + 1 - m] = texts[k]
    BY <1>4
  <2> QED BY <2>1, <2>2
<1>11. InSequence(q)
  BY <1>4, <1>8, <1>9 DEF InSequence
<1>12. Division(q, Q)
  BY <1>4, <1>8, <1>10, <1>11 DEF Division
<1>13. ASSUME AllDivided(texts) PROVE AllDivided(q)
  <2>1. \A k \in 1..w : Divided(texts[k])
    BY <1>3, <1>13 DEF AllDivided
  <2> QED BY <1>4, <1>5, <2>1 DEF AllDivided
<1> QED BY <1>4, <1>12, <1>13

\* Blocks between which a blank line is put.
IsUnit(unit) ==
  /\ unit \in Seq(Block) /\ unit # <<>>
  /\ Division(TextsOf(unit), Points(UnitText(unit)))
  /\ AllDivided(TextsOf(unit))

\* The units divide the text.
LEMMA UnitsDivide ==
  ASSUME NEW d \in Documents
  PROVE  LET units == Units(d)
         IN  /\ units \in Seq(Seq(Block))
             /\ \A k \in 1..Len(units) : IsUnit(units[k])
             /\ Division([k \in 1..Len(units) |-> UnitText(units[k])], PointsAll(TextsOf(d.lines)))
<1>1. PICK P : P = PointsAll(TextsOf(d.lines))
  OBVIOUS
<1>2. PICK blocks \in Seq(Block) : /\ blocks = Blocks(d)
                                   /\ Division(TextsOf(blocks), P) /\ AllDivided(TextsOf(blocks))
  BY <1>1, BlocksDivide
<1>b. \A x \in Block : x.text \in Text
  BY DEF Block
<1>3. PICK n \in Nat : n = Len(blocks)
  OBVIOUS
<1>4. PICK q \in Seq(Text) : q = TextsOf(blocks) /\ Len(q) = n
  BY <1>b, <1>3, TextsOfSeq
<1>5. Division(q, P) /\ AllDivided(q)
  BY <1>2, <1>4
<1>6. PICK B : B = {i \in DOMAIN blocks : d.format = "plain" \/ blocks[i].heading}
  OBVIOUS
<1>7. PICK r \in Seq(Seq(Block)) : r = Grouped(blocks, B) /\ \E u, v : GroupRanges(r, u, v, blocks, B)
  <2>1. Grouped(blocks, B) \in Seq(Seq(Block)) /\ \E u, v : GroupRanges(Grouped(blocks, B), u, v, blocks, B)
    BY GroupedRanges, Zenon
  <2> QED BY <2>1
<1>8. r = Units(d)
  BY <1>2, <1>6, <1>7, Zenon DEF Units
<1>9. PICK u, v : GroupRanges(r, u, v, blocks, B)
  BY <1>7
<1>10. PICK l \in Nat : l = Len(r)
  OBVIOUS
<1>11. /\ Ranges(u, v, l, n)
       /\ \A k \in 1..l : r[k] = SubSeq(blocks, u[k], v[k])
  BY <1>3, <1>9, <1>10 DEF GroupRanges
<1>g. "blank" \in Gaps
  BY DEF Gaps
<1>12. PICK texts : texts = [k \in 1..l |-> UnitText(r[k])]
  OBVIOUS
<1>13. ASSUME NEW k \in 1..l
       PROVE  /\ IsUnit(r[k]) /\ texts[k] \in Text
              /\ texts[k] = AllJoined(SubSeq(q, u[k], v[k]), "blank")
  <2>0. u[k] \in 1..n /\ v[k] \in 1..n /\ u[k] <= v[k]
    BY <1>11, RangeOf, Zenon
  <2>1. PICK m \in 1..n : m = u[k]
    BY <2>0
  <2>2. PICK e \in 1..n : e = v[k] /\ m <= e
    BY <2>0, <2>1
  <2>3. r[k] = SubSeq(blocks, m, e)
    BY <1>11, <2>1, <2>2
  <2>4. PICK part \in Seq(Text) : part = SubSeq(q, m, e)
    <3>1. m \in 1..Len(q) /\ e \in 1..Len(q)
      BY <1>4
    <3>2. SubSeq(q, m, e) \in Seq(Text)
      BY <2>2, <3>1, PartOf
    <3> QED BY <3>2
  <2>5. TextsOf(r[k]) = part
    <3>1. m \in 1..Len(blocks) /\ e \in 1..Len(blocks)
      BY <1>3
    <3>2. TextsOf(SubSeq(blocks, m, e)) \in {SubSeq(TextsOf(blocks), m, e)}
      BY <1>b, <2>2, <3>1, TextsOfRange
    <3> QED BY <1>4, <2>3, <2>4, <3>2
  <2>6. PICK x : x = AllJoined(part, "blank")
    OBVIOUS
  <2>7. texts[k] = x /\ x = UnitText(r[k])
    BY <1>12, <2>5, <2>6 DEF UnitText
  <2>8. m \in 1..Len(q) /\ e \in 1..Len(q)
    BY <1>4
  <2>9. x \in Text /\ \A p : p \in Points(x) <=> \E i \in m..e : p \in Points(q[i])
    BY <1>5, <1>g, <2>2, <2>4, <2>6, <2>8, RangeOfDivision
  <2>10. Division(part, Points(x)) /\ AllDivided(part)
    BY <1>5, <2>2, <2>4, <2>8, <2>9, PartDivides
  <2>11. r[k] \in Seq(Block) /\ r[k] # <<>>
    <3>1. m \in 1..Len(blocks) /\ e \in 1..Len(blocks)
      BY <1>3
    <3>2. SubSeq(blocks, m, e) \in Seq(Block) /\ Len(SubSeq(blocks, m, e)) = e + 1 - m
      BY <2>2, <3>1, PartOf
    <3>3. PICK z : z = SubSeq(blocks, m, e)
      OBVIOUS
    <3>4. z \in Seq(Block) /\ Len(z) = e + 1 - m /\ e + 1 - m # 0
      BY <2>2, <3>2, <3>3
    <3>5. z # <<>>
      BY <3>4, EmptySeq
    <3> QED BY <2>3, <3>3, <3>4, <3>5
  <2>12. IsUnit(r[k])
    BY <2>5, <2>7, <2>10, <2>11 DEF IsUnit
  <2>13. texts[k] = AllJoined(SubSeq(q, u[k], v[k]), "blank")
    BY <2>1, <2>2, <2>4, <2>6, <2>7
  <2> QED BY <2>7, <2>9, <2>12, <2>13
<1>14. texts \in Seq(Text) /\ Len(texts) = l
  <2>1. texts \in [1..l -> Text]
    BY <1>12, <1>13
  <2> QED BY <2>1, FunctionIsSeq
<1>15. Division(texts, P)
  <2>1. Ranges(u, v, l, Len(q)) /\ \A k \in 1..l : texts[k] = AllJoined(SubSeq(q, u[k], v[k]), "blank")
    BY <1>4, <1>11, <1>13
  <2> QED BY <1>5, <1>g, <1>14, <2>1, DivisionJoined
<1> QED BY <1>1, <1>7, <1>8, <1>10, <1>12, <1>13, <1>15

-----------------------------------------------------------------------------
(* A unit that is too long.                                                *)

\* What loses little loses no more than much.
LEMMA SaysMoreLost ==
  ASSUME NEW P, NEW K, NEW L, K \subseteq L, NEW texts, Says(texts, P, K)
  PROVE  Says(texts, P, L)
BY DEF Says

\* The heading before each of the texts.
LEMMA HeadedSays ==
  ASSUME NEW h \in Text, h # <<>>, InOrder(h), NEW Q, Q # {}, Before(Points(h), Q),
         NEW body, Says(body, Q, {}), NEW max \in Nat, AllFit(body, max),
         NEW most \in Nat, Runes(h) + 2 + max <= most,
         NEW P, \A p : p \in P <=> p \in Points(h) \/ p \in Q
  PROVE  LET out == [i \in DOMAIN body |-> Joined(h, "blank", body[i])]
         IN  Says(out, P, {}) /\ AllFit(out, most)
<1>1. PICK n \in Nat : n = Len(body) /\ DOMAIN body = 1..n /\ body \in Seq(Text)
  BY DEF Says
<1>2. PICK out : out = [i \in 1..n |-> Joined(h, "blank", body[i])]
  OBVIOUS
<1>g. "blank" \in Gaps /\ Gap("blank") = 2
  BY DEF Gaps, Gap
<1>3. \A i \in 1..n : /\ body[i] \in Text /\ body[i] # <<>> /\ InOrder(body[i]) /\ Points(body[i]) \subseteq Q
                      /\ Runes(body[i]) \in 1..max
  BY <1>1, ElementOfSeq DEF Says, AllFit
<1>4. ASSUME NEW i \in 1..n
      PROVE  /\ out[i] \in Text /\ out[i] # <<>> /\ InOrder(out[i])
             /\ Points(out[i]) = Points(h) \cup Points(body[i])
             /\ Runes(out[i]) \in 1..most /\ EndOf(out[i]) = EndOf(body[i])
  <2>1. PICK b \in Text : b = body[i]
    BY <1>3
  <2>2. /\ b # <<>> /\ InOrder(b) /\ Points(b) \subseteq Q /\ Runes(b) \in 1..max
    BY <1>3, <2>1
  <2>3. PICK q \in Text : q = Joined(h, "blank", b)
    BY <1>g, JoinedShape
  <2>4. out[i] = q
    BY <1>2, <2>1, <2>3
  <2>5. Points(q) = Points(h) \cup Points(b)
    BY <1>g, <2>3, JoinedPoints
  <2>6. Before(Points(h), Points(b))
    BY <2>2 DEF Before
  <2>7. InOrder(q)
    BY <1>g, <2>2, <2>3, <2>6, JoinedInOrder
  <2>8. Runes(q) = Runes(h) + 2 + Runes(b) /\ EndOf(q) = EndOf(b)
    BY <1>g, <2>2, <2>3, JoinedRunes
  <2>9. Runes(h) \in Nat
    BY RunesNat
  <2>10. Runes(q) \in 1..most
    BY <2>2, <2>8, <2>9
  <2>11. q # <<>>
    BY <2>10, RunesNat
  <2> QED BY <2>1, <2>4, <2>5, <2>7, <2>8, <2>10, <2>11
<1>5. out \in Seq(Text) /\ Len(out) = n
  <2>1. out \in [1..n -> Text]
    BY <1>2, <1>4
  <2> QED BY <2>1, FunctionIsSeq
<1>6. body # <<>> /\ 1 \in 1..n
  <2>1. body # <<>>
    BY DEF Says
  <2> QED BY <1>1, <2>1, EmptySeq
<1>7. \A i \in 1..n : Points(out[i]) \subseteq P
  BY <1>3, <1>4
<1>8. ASSUME NEW p \in P PROVE \E i \in 1..n : p \in Points(out[i])
  <2>1. CASE p \in Points(h)
    BY <1>4, <1>6, <2>1
  <2>2. CASE p \in Q
    <3>1. PICK i \in 1..n : p \in Points(body[i])
      BY <1>1, <2>2 DEF Says
    <3> QED BY <1>4, <3>1
  <2> QED BY <2>1, <2>2
<1>9. out # <<>>
  BY <1>5, <1>6, EmptySeq
<1>10. \A i, j \in 1..n : i < j => EndsBefore(out[i], out[j])
  <2>1. \A i, j \in 1..n : i < j => EndsBefore(body[i], body[j])
    BY <1>1 DEF Says
  <2> QED BY <1>4, <2>1 DEF EndsBefore
<1>11. Says(out, P, {})
  BY <1>4, <1>5, <1>7, <1>8, <1>9, <1>10 DEF Says
<1>12. AllFit(out, most)
  BY <1>4, <1>5 DEF AllFit
<1> QED BY <1>1, <1>2, <1>11, <1>12

\* Each text of a list is split.
LEMMA BodySays ==
  ASSUME NEW Q, NEW texts, Division(texts, Q), AllDivided(texts), NEW max \in Nat \ {0}
  PROVE  LET body == PackUnits(texts, max, [i \in DOMAIN texts |-> SplitRecursive(texts[i], max)])
         IN  Says(body, Q, {}) /\ AllFit(body, max)
<1>1. PICK n \in Nat : n = Len(texts) /\ DOMAIN texts = 1..n /\ texts \in Seq(Text)
  BY DEF Division, InSequence
<1>2. PICK split : split = [i \in 1..n |-> SplitRecursive(texts[i], max)]
  OBVIOUS
<1>3. \A i \in 1..n : texts[i] \in Text /\ texts[i] # <<>> /\ InOrder(texts[i]) /\ Divided(texts[i])
  BY <1>1, ElementOfSeq DEF Division, InSequence, AllDivided
<1>4. \A i \in 1..n : Says(split[i], Points(texts[i]), {}) /\ AllFit(split[i], max)
  BY <1>2, <1>3, SplitRecursiveSays
<1>5. Says(PackUnits(texts, max, split), Q, {}) /\ AllFit(PackUnits(texts, max, split), max)
  BY <1>1, <1>4, PackUnitsSay
<1> QED BY <1>1, <1>2, <1>5

\* What is lost of a unit that is too long.
LostOf(unit) ==
  IF Len(unit) > 1 /\ unit[1].heading /\ ~Repeated(unit[1]) THEN Points(unit[1].text) ELSE {}

\* A repeated heading, the blank line and what is left for the body fit.
LEMMA AvailableFits ==
  ASSUME NEW heading \in Block, heading.text # <<>>
  PROVE  /\ Available(heading) \in Nat
         /\ Repeated(heading) => /\ Available(heading) \in Nat \ {0}
                                 /\ Runes(heading.text) + 2 + Available(heading) <= MaxRunes
<1>1. PICK h \in Text : h = heading.text
  BY DEF Block
<1>2. PICK w \in Nat : w = Runes(h)
  BY RunesNat
<1>3. PICK m \in Nat \ {0} : m = MaxRunes
  BY ChunkConstants
<1>4. Available(heading) = IF m > w + 2 THEN m - (w + 2) ELSE 0
  BY <1>1, <1>2, <1>3 DEF Available
<1>5. m \div 3 \in Nat
  OBVIOUS
<1>6. Repeated(heading) <=> Available(heading) > m \div 3
  BY <1>3 DEF Repeated
<1>7. PICK a \in Nat : a = Available(heading) /\ (a # 0 => a = m - (w + 2))
  BY <1>4
<1>8. a # 0 => w + 2 + a <= m
  BY <1>7
<1>9. Repeated(heading) => a # 0
  BY <1>5, <1>6, <1>7
<1> QED BY <1>1, <1>2, <1>3, <1>7, <1>8, <1>9

\* The texts of a section after its heading.
LEMMA TailTexts ==
  ASSUME NEW unit \in Seq(Block), Len(unit) > 1
  PROVE  TextsOf(Tail(unit)) \in {SubSeq(TextsOf(unit), 2, Len(unit))}
<1>1. PICK n \in Nat : n = Len(unit) /\ n > 1
  OBVIOUS
<1>2. Tail(unit) = SubSeq(unit, 2, n)
  <2>1. unit # <<>>
    BY <1>1, EmptySeq
  <2>2. Tail(unit) = SubSeq(unit, 2, Len(unit))
    BY <2>1, TailIsSubSeq, Zenon
  <2> QED BY <1>1, <2>2, Zenon
<1>3. \A x \in Block : x.text \in Text
  BY DEF Block
<1>4. 2 \in 1..Len(unit) /\ n \in 1..Len(unit) /\ 2 <= n
  BY <1>1
<1>5. TextsOf(SubSeq(unit, 2, n)) \in {SubSeq(TextsOf(unit), 2, n)}
  BY <1>3, <1>4, TextsOfRange
<1> QED BY <1>1, <1>2, <1>5

\* splitOversizedUnit and splitOversizedMarkdownUnit say everything but a
\* heading that is left out, in chunks that fit.
LEMMA SplitUnitSays ==
  ASSUME NEW unit, IsUnit(unit)
  PROVE  Says(SplitUnit(unit), Points(UnitText(unit)), LostOf(unit)) /\ AllFit(SplitUnit(unit), MaxRunes)
<1>1. PICK n \in Nat : n = Len(unit) /\ n >= 1 /\ unit \in Seq(Block)
  BY EmptySeq DEF IsUnit
<1>b. \A x \in Block : x.text \in Text
  BY DEF Block
<1>2. PICK P : P = Points(UnitText(unit))
  OBVIOUS
<1>3. PICK q \in Seq(Text) : q = TextsOf(unit) /\ Len(q) = n /\ \A i \in 1..n : q[i] = unit[i].text
  BY <1>1, <1>b, TextsOfSeq
<1>4. Division(q, P) /\ AllDivided(q)
  BY <1>2, <1>3 DEF IsUnit
<1>5. PICK heading \in Block : heading = unit[1] /\ heading.text = q[1]
  <2>1. 1 \in 1..n
    BY <1>1
  <2> QED BY <1>1, <1>3, <2>1, ElementOfSeq
<1>6. PICK h \in Text : h = heading.text /\ h = q[1] /\ h # <<>> /\ InOrder(h) /\ Divided(h)
  <2>1. 1 \in 1..Len(q)
    BY <1>1, <1>3
  <2>2. q[1] # <<>> /\ InOrder(q[1]) /\ Divided(q[1])
    BY <1>4, <2>1 DEF Division, InSequence, AllDivided
  <2> QED BY <1>5, <1>b, <2>2
<1>m. MaxRunes \in Nat \ {0} /\ MaxRunes \in Nat
  BY ChunkConstants
<1>7. CASE n = 1
  <2>1. SplitUnit(unit) = SplitRecursive(h, MaxRunes)
    BY <1>1, <1>5, <1>6, <1>7 DEF SplitUnit
  <2>2. UnitText(unit) = h
    <3>1. q = <<q[1]>>
      BY <1>3, <1>7
    <3>2. q = <<h>>
      BY <1>6, <3>1
    <3>3. AllJoined(<<h>>, "blank") = h
      BY AllJoinedOne DEF Gaps
    <3> QED BY <1>3, <3>2, <3>3 DEF UnitText
  <2>3. Says(SplitRecursive(h, MaxRunes), Points(h), {}) /\ AllFit(SplitRecursive(h, MaxRunes), MaxRunes)
    BY <1>6, <1>m, SplitRecursiveSays
  <2>4. Says(SplitRecursive(h, MaxRunes), Points(h), LostOf(unit))
    BY <2>3, SaysMoreLost
  <2> QED BY <2>1, <2>2, <2>3, <2>4
<1>8. CASE n # 1 /\ ~heading.heading
  <2>1. PICK body : body = PackUnits(q, MaxRunes, [i \in DOMAIN q |-> SplitRecursive(q[i], MaxRunes)])
    OBVIOUS
  <2>2. SplitUnit(unit) = body
    BY <1>1, <1>3, <1>5, <1>8, <2>1 DEF SplitUnit
  <2>3. Says(body, P, {}) /\ AllFit(body, MaxRunes)
    BY <1>4, <1>m, <2>1, BodySays
  <2>4. Says(body, P, LostOf(unit))
    BY <2>3, SaysMoreLost
  <2> QED BY <1>2, <2>2, <2>3, <2>4
<1>9. CASE n # 1 /\ heading.heading
  <2>1. 2 \in 1..Len(q) /\ n \in 1..Len(q) /\ 2 <= n /\ 1 \in 1..n /\ 2 \in 1..n
    BY <1>1, <1>3, <1>9
  <2>2. PICK tail : tail = SubSeq(q, 2, n)
    OBVIOUS
  <2>3. TextsOf(Tail(unit)) = tail
    <3>1. TextsOf(Tail(unit)) \in {SubSeq(TextsOf(unit), 2, Len(unit))}
      BY <1>1, <1>9, TailTexts
    <3> QED BY <1>1, <1>3, <2>2, <3>1
  <2>4. PICK Q : \A p : p \in Q <=> p \in P /\ \E k \in 2..n : p \in Points(q[k])
    <3>1. PICK R : R = {p \in P : \E k \in 2..n : p \in Points(q[k])}
      OBVIOUS
    <3>2. \A p : p \in R <=> p \in P /\ \E k \in 2..n : p \in Points(q[k])
      BY <3>1, Zenon
    <3> QED BY <3>2, Zenon
  <2>5. \A k \in 1..n : q[k] \in Text /\ q[k] # <<>> /\ Points(q[k]) \subseteq P
    BY <1>3, <1>4, ElementOfSeq DEF Division
  <2>6. \A p : p \in Q <=> \E k \in 2..n : p \in Points(q[k])
    <3>1. \A k \in 2..n : k \in 1..n
      OBVIOUS
    <3> QED BY <2>4, <2>5, <3>1
  <2>7. Division(tail, Q) /\ AllDivided(tail)
    BY <1>4, <2>1, <2>2, <2>6, PartDivides
  <2>8. \A p : p \in P <=> p \in Points(h) \/ p \in Q
    <3>1. ASSUME NEW p \in P PROVE p \in Points(h) \/ p \in Q
      <4>1. PICK k \in 1..n : p \in Points(q[k])
        BY <1>3, <1>4 DEF Division
      <4>2. k = 1 \/ k \in 2..n
        OBVIOUS
      <4> QED BY <1>6, <2>6, <4>1, <4>2
    <3> QED BY <1>6, <2>1, <2>4, <2>5, <3>1
  <2>9. Q # {}
    <3>1. Points(q[2]) # {}
      BY <2>1, <2>5, IdsOfPoints
    <3>2. 2 \in 2..n
      BY <2>1
    <3> QED BY <2>6, <3>1, <3>2
  <2>10. Before(Points(h), Q)
    <3> SUFFICES ASSUME NEW p \in Points(h), NEW r \in Q PROVE p[1] < r[1]
      BY DEF Before
    <3>1. PICK k \in 2..n : r \in Points(q[k])
      BY <2>6
    <3>2. k \in 1..n /\ 1 < k /\ 1 \in 1..n
      BY <2>1
    <3>3. Before(Points(q[1]), Points(q[k]))
      BY <1>3, <1>4, <3>2 DEF Division, InSequence
    <3> QED BY <1>6, <3>1, <3>3 DEF Before
  <2>11. CASE Repeated(heading)
    <3>1. PICK max \in Nat \ {0} : max = Available(heading) /\ Runes(h) + 2 + max <= MaxRunes
      BY <1>6, <2>11, AvailableFits
    <3>2. PICK body : body = PackUnits(tail, max, [i \in DOMAIN tail |-> SplitRecursive(tail[i], max)])
      OBVIOUS
    <3>3. Says(body, Q, {}) /\ AllFit(body, max)
      BY <2>7, <3>2, BodySays
    <3>4. PICK out : out = [i \in DOMAIN body |-> Joined(h, "blank", body[i])]
      OBVIOUS
    <3>5. SplitUnit(unit) = out
      BY <1>1, <1>5, <1>6, <1>9, <2>3, <2>11, <3>1, <3>2, <3>4, Zenon DEF SplitUnit, Under
    <3>6. Says(out, P, {}) /\ AllFit(out, MaxRunes)
      BY <1>6, <1>m, <2>8, <2>9, <2>10, <3>1, <3>3, <3>4, HeadedSays
    <3>7. Says(out, P, LostOf(unit))
      BY <3>6, SaysMoreLost
    <3> QED BY <1>2, <3>5, <3>6, <3>7
  <2>12. CASE ~Repeated(heading)
    <3>1. PICK body : body = PackUnits(tail, MaxRunes, [i \in DOMAIN tail |-> SplitRecursive(tail[i], MaxRunes)])
      OBVIOUS
    <3>2. Says(body, Q, {}) /\ AllFit(body, MaxRunes)
      BY <1>m, <2>7, <3>1, BodySays
    <3>3. SplitUnit(unit) = body
      BY <1>1, <1>5, <1>9, <2>3, <2>12, <3>1, Zenon DEF SplitUnit
    <3>4. LostOf(unit) = Points(h)
      BY <1>1, <1>5, <1>6, <1>9, <2>12 DEF LostOf
    <3>5. Says(body, P, Points(h))
      BY <2>8, <2>9, <3>2 DEF Says
    <3> QED BY <1>2, <3>2, <3>3, <3>4, <3>5
  <2> QED BY <2>11, <2>12
<1> QED BY <1>7, <1>8, <1>9

-----------------------------------------------------------------------------
(* The chunks of a document.                                               *)

\* All chunks together, before filterChunks.
LEMMA PackedSays ==
  ASSUME NEW d \in Documents, NEW L,
         \A k \in 1..Len(Units(d)) :
           Runes(UnitText(Units(d)[k])) > MaxRunes => LostOf(Units(d)[k]) \subseteq L
  PROVE  Says(Packed(d), PointsAll(TextsOf(d.lines)), L) /\ AllFit(Packed(d), MaxRunes)
<1>1. PICK P : P = PointsAll(TextsOf(d.lines))
  OBVIOUS
<1>2. PICK units \in Seq(Seq(Block)) : units = Units(d)
  BY UnitsDivide
<1>3. PICK n \in Nat : n = Len(units) /\ DOMAIN units = 1..n
  OBVIOUS
<1>4. PICK texts : texts = [k \in 1..n |-> UnitText(units[k])]
  OBVIOUS
<1>5. Division(texts, P) /\ \A k \in 1..n : IsUnit(units[k])
  BY <1>1, <1>2, <1>3, <1>4, UnitsDivide
<1>6. Len(texts) = n /\ \A k \in 1..n : texts[k] = UnitText(units[k])
  <2>1. PICK w \in Nat : w = Len(texts) /\ DOMAIN texts = 1..w
    BY <1>5 DEF Division, InSequence
  <2>2. DOMAIN texts = 1..n
    BY <1>4
  <2>3. w = n
    BY <2>1, <2>2
  <2> QED BY <1>4, <2>1, <2>3
<1>7. PICK split : split = [k \in 1..n |-> SplitUnit(units[k])]
  OBVIOUS
<1>8. ASSUME NEW k \in 1..n, Runes(texts[k]) > MaxRunes
      PROVE  Says(split[k], Points(texts[k]), L) /\ AllFit(split[k], MaxRunes)
  <2>1. /\ Says(SplitUnit(units[k]), Points(UnitText(units[k])), LostOf(units[k]))
        /\ AllFit(SplitUnit(units[k]), MaxRunes)
    BY <1>5, SplitUnitSays
  <2>2. LostOf(units[k]) \subseteq L
    BY <1>2, <1>3, <1>6, <1>8
  <2>3. split[k] = SplitUnit(units[k]) /\ texts[k] = UnitText(units[k])
    BY <1>6, <1>7
  <2> QED BY <2>1, <2>2, <2>3, SaysMoreLost
<1>9. MaxRunes \in Nat
  BY ChunkConstants
<1>10. \A k \in 1..Len(texts) : Runes(texts[k]) > MaxRunes =>
         Says(split[k], Points(texts[k]), L) /\ AllFit(split[k], MaxRunes)
  BY <1>6, <1>8
<1>11. Says(PackUnits(texts, MaxRunes, split), P, L) /\ AllFit(PackUnits(texts, MaxRunes, split), MaxRunes)
  BY <1>5, <1>9, <1>10, PackUnitsSay
<1>12. Packed(d) = PackUnits(texts, MaxRunes, split)
  BY <1>2, <1>3, <1>4, <1>7, Zenon DEF Packed
<1> QED BY <1>1, <1>11, <1>12

\* What filterChunks keeps.
LEMMA KeptSays ==
  ASSUME NEW P, NEW L, NEW max, NEW texts, Says(texts, P, L), AllFit(texts, max)
  PROVE  /\ Kept(texts) \in Seq(Text) /\ AllFit(Kept(texts), max)
         /\ P # {} => Kept(texts) # <<>>
         /\ \A i \in 1..Len(Kept(texts)) : InOrder(Kept(texts)[i])
         /\ \A i, j \in 1..Len(Kept(texts)) : i < j => EndsBefore(Kept(texts)[i], Kept(texts)[j])
         /\ (\A k \in 1..Len(texts) : Runes(texts[k]) >= MinRunes) => Says(Kept(texts), P, L)
<1>1. PICK n \in Nat : n = Len(texts) /\ texts \in Seq(Text)
  BY DEF Says
<1>2. PICK T : T = {t \in Text : Runes(t) >= MinRunes}
  OBVIOUS
<1>3. PICK good : good = Only(texts, T)
  OBVIOUS
<1>4. Kept(texts) = IF good = <<>> THEN texts ELSE good
  BY <1>2, <1>3 DEF Kept
<1>5. \A i \in 1..n : InOrder(texts[i]) /\ texts[i] \in Text /\ texts[i] # <<>> /\ Points(texts[i]) \subseteq P
  BY <1>1, ElementOfSeq DEF Says
<1>6. \A i, j \in 1..n : i < j => EndsBefore(texts[i], texts[j])
  BY <1>1 DEF Says
<1>7. CASE good = <<>>
  <2>1. Kept(texts) = texts
    BY <1>4, <1>7
  <2>2. P # {} => texts # <<>>
    BY DEF Says
  <2> QED BY <1>1, <1>5, <1>6, <2>1, <2>2
<1>8. CASE good # <<>>
  <2>1. Kept(texts) = good
    BY <1>4, <1>8
  <2>2. good \in Seq(T) /\ \E g : Picks(good, g, texts, T, n)
    BY <1>1, <1>3, OnlyPicks
  <2>3. PICK g : Picks(good, g, texts, T, n)
    BY <2>2
  <2>4. PICK w \in Nat : w = Len(good)
    BY <2>2
  <2>5. /\ \A i \in 1..w : g[i] \in 1..n /\ good[i] = texts[g[i]]
        /\ \A i, j \in 1..w : i < j => g[i] < g[j]
        /\ \A j \in 1..n : texts[j] \in T => \E i \in 1..w : g[i] = j
    BY <2>3, <2>4 DEF Picks
  <2>6. good \in Seq(Text)
    <3>1. T \subseteq Text
      BY <1>2
    <3> QED BY <2>2, <3>1, SeqMonotonic
  <2>7. AllFit(good, max)
    BY <1>1, <2>4, <2>5 DEF AllFit
  <2>8. \A i \in 1..w : InOrder(good[i]) /\ good[i] # <<>> /\ Points(good[i]) \subseteq P
    BY <1>5, <2>5
  <2>9. \A i, j \in 1..w : i < j => EndsBefore(good[i], good[j])
    BY <1>6, <2>5
  <2>10. ASSUME \A k \in 1..n : Runes(texts[k]) >= MinRunes PROVE Says(good, P, L)
    <3>1. \A k \in 1..n : texts[k] \in T
      BY <1>2, <1>5, <2>10
    <3>2. ASSUME NEW p \in P, p \notin L PROVE \E k \in 1..w : p \in Points(good[k])
      <4>1. PICK j \in 1..n : p \in Points(texts[j])
        BY <1>1, <3>2 DEF Says
      <4>2. PICK i \in 1..w : g[i] = j
        BY <2>5, <3>1
      <4> QED BY <2>5, <4>1, <4>2
    <3> QED BY <1>8, <2>4, <2>6, <2>8, <2>9, <3>2 DEF Says
  <2> QED BY <1>1, <1>8, <2>1, <2>4, <2>6, <2>7, <2>8, <2>9, <2>10
<1> QED BY <1>7, <1>8

-----------------------------------------------------------------------------
(* Fences.                                                                 *)

\* The step of MarkdownBegins, by the kind of the line.
Scanned(y, x, kind, i) ==
  /\ (x.fence # "none" /\ kind = x.fence) => (y.fence = "none" /\ y.begins = x.begins \cup {i + 1})
  /\ (x.fence # "none" /\ kind # x.fence) => y = x
  /\ (x.fence = "none" /\ kind \in Fences) => (y.fence = kind /\ y.begins = x.begins)
  /\ (x.fence = "none" /\ kind \notin Fences) =>
       (y.fence = "none" /\ y.begins \subseteq x.begins \cup {i, i + 1})

\* Before line i there is no fence, from i to j - 1 the fence of line i, and no
\* block begins between i + 1 and j.
InFence(x, fence, i, j, n) ==
  /\ n < i => (x.fence = "none" /\ \A b \in x.begins : b <= n + 1)
  /\ (i <= n /\ n < j) => (x.fence = fence /\ \A b \in x.begins : b <= i)
  /\ j <= n => \A b \in x.begins : b <= i \/ b > j

ScanAcc == [fence : Fences \cup {"none"}, begins : SUBSET Nat]

\* One line of splitMarkdownBlocks.
LEMMA FenceStep ==
  ASSUME NEW lines \in Seq(Lines), NEW i \in 1..Len(lines), NEW j \in 1..Len(lines), i < j,
         lines[i].kind \in Fences,
         \A k \in 1..i - 1 : lines[k].kind \notin Fences,
         \A k \in i + 1..j - 1 : lines[k].kind # lines[i].kind,
         NEW n \in 1..Len(lines), NEW x \in ScanAcc, NEW y \in ScanAcc,
         Scanned(y, x, lines[n].kind, n), InFence(x, lines[i].kind, i, j, n - 1)
  PROVE  InFence(y, lines[i].kind, i, j, n)
<1>1. PICK w \in Nat : w = Len(lines)
  OBVIOUS
<1>2. i \in 1..w /\ j \in 1..w /\ n \in 1..w
  BY <1>1
<1>f. x.begins \in SUBSET Nat /\ y.begins \in SUBSET Nat /\ "none" \notin Fences
  BY DEF ScanAcc, Fences
<1>3. CASE n < i
  <2>1. x.fence = "none" /\ \A b \in x.begins : b <= n
    BY <1>2, <1>3 DEF InFence
  <2>2. lines[n].kind \notin Fences
    BY <1>2, <1>3
  <2>3. y.fence = "none" /\ y.begins \subseteq x.begins \cup {n, n + 1}
    BY <2>1, <2>2 DEF Scanned
  <2>4. \A b \in y.begins : b <= n + 1
    BY <1>2, <1>f, <2>1, <2>3
  <2> QED BY <1>2, <1>3, <2>3, <2>4 DEF InFence
<1>4. CASE n = i
  <2>1. x.fence = "none" /\ \A b \in x.begins : b <= i
    BY <1>2, <1>4 DEF InFence
  <2>2. y.fence = lines[i].kind /\ y.begins = x.begins
    BY <1>4, <2>1 DEF Scanned
  <2> QED BY <1>2, <1>4, <2>1, <2>2 DEF InFence
<1>5. CASE i < n /\ n < j
  <2>1. x.fence = lines[i].kind /\ \A b \in x.begins : b <= i
    BY <1>2, <1>5 DEF InFence
  <2>2. lines[n].kind # lines[i].kind /\ x.fence # "none"
    BY <1>2, <1>5, <1>f, <2>1
  <2>3. y = x
    BY <2>1, <2>2 DEF Scanned
  <2> QED BY <1>2, <1>5, <2>1, <2>3 DEF InFence
<1>6. CASE n = j
  <2>1. x.fence = lines[i].kind /\ \A b \in x.begins : b <= i
    BY <1>2, <1>6 DEF InFence
  <2>2. x.fence # "none"
    BY <1>f, <2>1
  <2>3. y.begins \subseteq x.begins \cup {j + 1}
    BY <1>6, <2>2 DEF Scanned
  <2>4. \A b \in y.begins : b <= i \/ b > j
    BY <1>2, <2>1, <2>3
  <2> QED BY <1>2, <1>6, <2>4 DEF InFence
<1>7. CASE n > j
  <2>1. \A b \in x.begins : b <= i \/ b > j
    BY <1>2, <1>7 DEF InFence
  <2>2. y.begins \subseteq x.begins \cup {n, n + 1}
    BY DEF Scanned
  <2>3. \A b \in y.begins : b <= i \/ b > j
    BY <1>2, <1>7, <2>1, <2>2
  <2> QED BY <1>2, <1>7, <2>3 DEF InFence
<1> QED BY <1>2, <1>3, <1>4, <1>5, <1>6, <1>7

\* splitMarkdownBlocks: no block begins between the line that opens the first
\* fence and the one that ends it, whatever those in it look like.
THEOREM FenceBegins ==
  ASSUME NEW lines \in Seq(Lines), NEW i \in 1..Len(lines), NEW j \in 1..Len(lines), i < j,
         lines[i].kind \in Fences,
         \A k \in 1..i - 1 : lines[k].kind \notin Fences,
         \A k \in i + 1..j - 1 : lines[k].kind # lines[i].kind
  PROVE  \A b \in MarkdownBegins(lines) : b <= i \/ b > j
<1>1. PICK w \in Nat : w = Len(lines) /\ DOMAIN lines = 1..w
  OBVIOUS
<1>2. PICK s \in Seq(1..w) : s = [k \in DOMAIN lines |-> k] /\ Len(s) = w /\ \A k \in 1..w : s[k] = k
  <2>1. PICK s : s = [k \in DOMAIN lines |-> k]
    OBVIOUS
  <2>2. s \in [1..w -> 1..w] /\ \A k \in 1..w : s[k] = k
    BY <1>1, <2>1
  <2>3. s \in Seq(1..w) /\ Len(s) = w
    BY <2>2, FunctionIsSeq
  <2> QED BY <2>1, <2>2, <2>3
<1> DEFINE Next(p) ==
             LET a    == p[1]
                 k    == p[2]
                 kind == lines[k].kind
             IN  CASE a.fence # "none" /\ kind = a.fence ->
                        [fence |-> "none", begins |-> a.begins \cup {k + 1}]
                   [] a.fence # "none" /\ kind # a.fence -> a
                   [] a.fence = "none" /\ kind \in Fences -> [a EXCEPT !.fence = kind]
                   [] a.fence = "none" /\ kind = "blank" ->
                        [a EXCEPT !.begins = a.begins \cup {k + 1}]
                   [] a.fence = "none" /\ kind \in {"heading", "break"} ->
                        [a EXCEPT !.begins = a.begins \cup {k, k + 1}]
                   [] a.fence = "none" /\ kind = "text" -> a
           scan == [p \in ScanAcc \X DOMAIN lines |-> Next(p)]
           I == [k \in 0..w |-> {a \in ScanAcc : InFence(a, lines[i].kind, i, j, k)}]
<1>3. PICK a \in ScanAcc : a = [fence |-> "none", begins |-> {}]
  BY DEF ScanAcc
<1>4. MarkdownBegins(lines) = Looped(scan, a, s).begins
  BY <1>2, <1>3 DEF MarkdownBegins, ScanAcc
<1>5. ASSUME NEW k \in 1..w, NEW x \in ScanAcc
      PROVE  /\ scan[<<x, k>>] \in ScanAcc
             /\ Scanned(scan[<<x, k>>], x, lines[k].kind, k)
  <2>1. scan[<<x, k>>] = Next(<<x, k>>)
    <3> HIDE DEF Next
    <3> QED BY <1>1
  <2>2. PICK kind : kind = lines[k].kind /\ kind \in {"text", "blank", "heading", "break"} \cup Fences
    <3>1. lines[k] \in Lines
      BY <1>1, ElementOfSeq
    <3> QED BY <3>1 DEF Lines
  <2>3. PICK f \in Fences \cup {"none"} : f = x.fence
    BY DEF ScanAcc
  <2>4. PICK b \in SUBSET Nat : b = x.begins
    BY DEF ScanAcc
  <2>5. PICK y : y = Next(<<x, k>>)
    OBVIOUS
  <2>6. y = CASE f # "none" /\ kind = f -> [fence |-> "none", begins |-> b \cup {k + 1}]
              [] f # "none" /\ kind # f -> x
              [] f = "none" /\ kind \in Fences -> [x EXCEPT !.fence = kind]
              [] f = "none" /\ kind = "blank" -> [x EXCEPT !.begins = b \cup {k + 1}]
              [] f = "none" /\ kind \in {"heading", "break"} -> [x EXCEPT !.begins = b \cup {k, k + 1}]
              [] f = "none" /\ kind = "text" -> x
    BY <2>2, <2>3, <2>4, <2>5, Zenon
  <2>8. CASE f # "none" /\ kind = f
    <3>1. y = [fence |-> "none", begins |-> b \cup {k + 1}]
      BY <2>6, <2>8
    <3>2. y \in ScanAcc /\ y.fence = "none" /\ y.begins = x.begins \cup {k + 1}
      BY <2>4, <3>1 DEF ScanAcc
    <3> QED BY <2>1, <2>2, <2>3, <2>5, <2>8, <3>2 DEF Scanned
  <2>9. CASE f # "none" /\ kind # f
    <3>1. y = x
      BY <2>6, <2>9
    <3> QED BY <2>1, <2>2, <2>3, <2>5, <2>9, <3>1 DEF Scanned
  <2>10. CASE f = "none" /\ kind \in Fences
    <3>1. kind # "blank" /\ kind \notin {"heading", "break"} /\ kind # "text"
      BY <2>10 DEF Fences
    <3>2. y = [x EXCEPT !.fence = kind]
      BY <2>6, <2>10, <3>1
    <3>3. y \in ScanAcc /\ y.fence = kind /\ y.begins = x.begins
      BY <2>10, <3>2 DEF ScanAcc
    <3> QED BY <2>1, <2>2, <2>3, <2>5, <2>10, <3>3 DEF Scanned
  <2>12. b \cup {k + 1} \in SUBSET Nat /\ b \cup {k, k + 1} \in SUBSET Nat
    <3>1. b \subseteq Nat /\ k \in Nat /\ k + 1 \in Nat
      BY <2>4, <1>5
    <3> QED BY <3>1, Zenon
  <2>11. CASE f = "none" /\ kind \notin Fences
    <3>1. y \in ScanAcc /\ y.fence = "none" /\ y.begins \subseteq x.begins \cup {k, k + 1}
      <4>1. CASE kind = "blank"
        <5>1. y = [x EXCEPT !.begins = b \cup {k + 1}]
          BY <2>6, <2>11, <4>1
        <5>2. PICK c \in SUBSET Nat : c = b \cup {k + 1}
          BY <2>12
        <5>3. y \in ScanAcc /\ y.fence = x.fence /\ y.begins = c
          BY <5>1, <5>2 DEF ScanAcc
        <5> QED BY <2>3, <2>4, <2>11, <5>2, <5>3
      <4>2. CASE kind \in {"heading", "break"}
        <5>1. y = [x EXCEPT !.begins = b \cup {k, k + 1}]
          BY <2>6, <2>11, <4>2
        <5>2. PICK c \in SUBSET Nat : c = b \cup {k, k + 1}
          BY <2>12
        <5>3. y \in ScanAcc /\ y.fence = x.fence /\ y.begins = c
          BY <5>1, <5>2 DEF ScanAcc
        <5> QED BY <2>3, <2>4, <2>11, <5>2, <5>3
      <4>3. CASE kind = "text"
        <5>1. y = x
          BY <2>6, <2>11, <4>3
        <5> QED BY <2>3, <2>11, <5>1
      <4> QED BY <2>2, <2>11, <4>1, <4>2, <4>3
    <3> QED BY <2>1, <2>2, <2>3, <2>5, <2>11, <3>1 DEF Scanned, Fences
  <2> QED BY <2>8, <2>9, <2>10, <2>11
<1>6. scan \in [ScanAcc \X (1..w) -> ScanAcc]
  <2>1. \A p \in ScanAcc \X (1..w) : \E x \in ScanAcc, k \in 1..w : p = <<x, k>>
    OBVIOUS
  <2>2. \A p \in ScanAcc \X (1..w) : scan[p] \in ScanAcc
    <3> HIDE DEF scan
    <3> QED BY <1>5, <2>1
  <2>3. scan = [p \in ScanAcc \X (1..w) |-> scan[p]]
    <3> HIDE DEF Next
    <3> QED BY <1>1
  <2> HIDE DEF scan
  <2> QED BY <2>2, <2>3
<1> HIDE DEF scan
<1>7. \A k \in 0..w : \A x : x \in I[k] <=> x \in ScanAcc /\ InFence(x, lines[i].kind, i, j, k)
  OBVIOUS
<1> HIDE DEF I
<1>8. a \in I[0]
  <2>1. InFence(a, lines[i].kind, i, j, 0)
    BY <1>3 DEF InFence
  <2> QED BY <1>7, <2>1
<1>9. ASSUME NEW k \in 1..w, NEW x \in ScanAcc, x \in I[k - 1] PROVE scan[<<x, k>>] \in I[k]
  <2>1. PICK y \in ScanAcc : y = scan[<<x, k>>] /\ Scanned(y, x, lines[k].kind, k)
    BY <1>5
  <2>2. InFence(x, lines[i].kind, i, j, k - 1)
    BY <1>7, <1>9
  <2>3. k \in 1..Len(lines)
    BY <1>1
  <2>4. InFence(y, lines[i].kind, i, j, k)
    BY <2>1, <2>2, <2>3, FenceStep
  <2> QED BY <1>7, <2>1, <2>4
<1>10. \A k \in 1..Len(s) : \A x \in ScanAcc : x \in I[k - 1] => scan[<<x, s[k]>>] \in I[k]
  BY <1>2, <1>9
<1>11. Looped(scan, a, s) \in I[Len(s)]
  BY <1>6, <1>8, <1>10, LoopKeeps, Zenon
<1>12. PICK y : y = Looped(scan, a, s) /\ InFence(y, lines[i].kind, i, j, w)
  <2>1. w \in 0..w
    OBVIOUS
  <2> QED BY <1>2, <1>7, <1>11, <2>1
<1>13. j <= w
  BY <1>1
<1> QED BY <1>4, <1>12, <1>13 DEF InFence

\* No group begins after i and up to j.
NoneBegins(u, l, begins, i, j) ==
  /\ \A k \in 2..l : u[k] \in begins
  /\ \A b \in begins : b <= i \/ b > j

\* Then i and j are in one group.
LEMMA OneGroup ==
  ASSUME NEW l \in Nat, NEW n \in Nat, NEW u, NEW v, Ranges(u, v, l, n), NEW begins,
         NEW i \in 1..n, NEW j \in 1..n, i < j, NoneBegins(u, l, begins, i, j)
  PROVE  \E k \in 1..l : \A x \in i..j : x \in u[k]..v[k]
<1>1. PICK k \in 1..l : i \in u[k]..v[k]
  BY DEF Ranges
<1>2. PICK k2 \in 1..l : j \in u[k2]..v[k2]
  BY DEF Ranges
<1>3. u[k] \in 1..n /\ v[k] \in 1..n /\ u[k2] \in 1..n /\ v[k2] \in 1..n
  BY DEF Ranges
<1>4. PICK a \in 1..n, b \in 1..n, c \in 1..n, e \in 1..n :
        a = u[k] /\ b = v[k] /\ c = u[k2] /\ e = v[k2]
  BY <1>3
<1>5. a <= i /\ i <= b /\ c <= j /\ j <= e
  BY <1>1, <1>2, <1>4
<1>6. CASE k2 = k
  <2>1. \A x \in i..j : x \in a..b
    BY <1>4, <1>5, <1>6
  <2> QED BY <1>4, <2>1
<1>7. CASE k2 < k
  <2>1. e < a
    BY <1>4, <1>7 DEF Ranges
  <2> QED BY <1>5, <2>1
<1>8. CASE k < k2
  <2>1. b < c
    BY <1>4, <1>8 DEF Ranges
  <2>2. c \in begins
    <3>1. k2 \in 2..l
      BY <1>8
    <3> QED BY <1>4, <3>1 DEF NoneBegins
  <2>3. c <= i \/ c > j
    BY <2>2 DEF NoneBegins
  <2> QED BY <1>5, <2>1, <2>3
<1> QED BY <1>6, <1>7, <1>8

\* The lines of a group are in the text of its block.
LEMMA GroupSays ==
  ASSUME NEW d \in Documents, NEW m \in 1..Len(d.lines), NEW e \in 1..Len(d.lines), m <= e
  PROVE  /\ LinesText(d, m, e) \in Text
         /\ \A k \in m..e : Points(d.lines[k].text) \subseteq Points(LinesText(d, m, e))
<1>1. PICK t \in Seq(Text) : /\ t = TextsOf(d.lines) /\ Len(t) = Len(d.lines) /\ InSequence(t)
                             /\ \A k \in 1..Len(d.lines) : t[k] = d.lines[k].text
  BY LinesDivide
<1>2. PICK n \in Nat : n = Len(t)
  OBVIOUS
<1>3. m \in 1..Len(t) /\ e \in 1..Len(t) /\ "line" \in Gaps
  BY <1>1 DEF Gaps
<1>4. SaysAll(AllJoined(SubSeq(t, m, e), "line"), t, m, e)
  BY <1>1, <1>3, RangeJoined
<1>5. PICK q : q = LinesText(d, m, e) /\ SaysAll(q, t, m, e)
  BY <1>1, <1>4 DEF LinesText
<1>6. ASSUME NEW k \in m..e PROVE Points(d.lines[k].text) \subseteq Points(q)
  <2>1. k \in 1..n
    BY <1>2, <1>3
  <2>2. t[k] = d.lines[k].text
    BY <1>1, <1>2, <2>1
  <2> QED BY <1>5, <1>6, <2>2 DEF SaysAll
<1> QED BY <1>5, <1>6 DEF SaysAll

\* Line i opens the first fence, and up to j no line ends it.
FirstFence(d, i, j) ==
  /\ i < j /\ d.lines[i].kind \in Fences
  /\ \A k \in 1..i - 1 : d.lines[k].kind \notin Fences
  /\ \A k \in i + 1..j - 1 : d.lines[k].kind # d.lines[i].kind

\* The first fence of a document is in one block.
LEMMA FenceWhole ==
  ASSUME NEW d \in Documents, d.format = "markdown",
         NEW i \in 1..Len(d.lines), NEW j \in 1..Len(d.lines), FirstFence(d, i, j)
  PROVE  \E b \in DOMAIN Blocks(d) :
           \A k \in i..j : Ids(d.lines[k].text) \subseteq Ids(Blocks(d)[b].text)
<1>1. PICK lines \in Seq(Lines) : lines = d.lines
  BY LinesDivide
<1>2. PICK n \in Nat : n = Len(lines) /\ DOMAIN lines = 1..n
  OBVIOUS
<1>3. i \in 1..n /\ j \in 1..n
  BY <1>1, <1>2
<1>4. \A b \in MarkdownBegins(lines) : b <= i \/ b > j
  <2>1. i \in 1..Len(lines) /\ j \in 1..Len(lines)
    BY <1>1
  <2>2. /\ i < j /\ lines[i].kind \in Fences
        /\ \A k \in 1..i - 1 : lines[k].kind \notin Fences
        /\ \A k \in i + 1..j - 1 : lines[k].kind # lines[i].kind
    BY <1>1 DEF FirstFence
  <2> QED BY <2>1, <2>2, FenceBegins
<1>5. PICK blocks \in Seq(Block) : /\ blocks = Blocks(d)
                                   /\ \E u, v, l, h : l \in Nat /\ BlocksAre(blocks, u, v, l, h, d)
  BY BlocksOfLines
<1>6. PICK u, v, l, h : l \in Nat /\ BlocksAre(blocks, u, v, l, h, d)
  BY <1>5
<1>7. /\ l \in Nat /\ Ranges(u, v, l, n)
      /\ \A k \in 2..l : u[k] \in MarkdownBegins(lines)
  BY <1>1, <1>2, <1>6 DEF BlocksAre, BlockBegins
<1>8. PICK k \in 1..l : \A x \in i..j : x \in u[k]..v[k]
  <2>1. PICK B : B = MarkdownBegins(lines)
    OBVIOUS
  <2>2. NoneBegins(u, l, B, i, j)
    BY <1>4, <1>7, <2>1 DEF NoneBegins
  <2>3. i < j
    BY DEF FirstFence
  <2> QED BY <1>3, <1>7, <2>2, <2>3, OneGroup
<1>9. u[k] \in 1..n /\ v[k] \in 1..n /\ u[k] <= v[k]
  BY <1>7, RangeOf, Zenon
<1>10. PICK m \in 1..n, e \in 1..n : m = u[k] /\ e = v[k] /\ m <= e
  BY <1>9
<1>11. PICK q \in Text : /\ q = LinesText(d, m, e)
                         /\ \A x \in m..e : Points(lines[x].text) \subseteq Points(q)
  <2>1. m \in 1..Len(d.lines) /\ e \in 1..Len(d.lines)
    BY <1>1, <1>2
  <2> QED BY <1>1, <1>10, <2>1, GroupSays
<1>12. \A x \in 1..n : lines[x].text \in Text
  <2> SUFFICES ASSUME NEW x \in 1..n PROVE lines[x].text \in Text
    OBVIOUS
  <2>1. lines[x] \in Lines
    BY <1>2, ElementOfSeq
  <2> QED BY <2>1 DEF Lines
<1>13. \A x \in i..j : x \in 1..n /\ x \in m..e
  BY <1>3, <1>8, <1>10
<1>14. q # <<>>
  <2>1. lines[i].kind # "blank"
    BY <1>1 DEF Fences, FirstFence
  <2>2. lines[i].text # <<>>
    BY <1>1, <1>2, <1>3, <2>1, ChunkConstants
  <2>3. i \in i..j
    BY <1>3 DEF FirstFence
  <2>4. Points(lines[i].text) \subseteq Points(q) /\ lines[i].text \in Text
    BY <1>11, <1>12, <1>13, <2>3
  <2> QED BY <2>2, <2>4, IdsOfPoints
<1>15. PICK b \in 1..Len(blocks) : h[b] = k
  <2>1. LinesText(d, u[k], v[k]) # <<>>
    BY <1>10, <1>11, <1>14
  <2> QED BY <1>6, <2>1 DEF BlocksAre
<1>16. blocks[b].text = q
  <2>1. blocks[b].text = LinesText(d, u[h[b]], v[h[b]])
    BY <1>6, Zenon DEF BlocksAre
  <2> QED BY <1>10, <1>11, <1>15, <2>1
<1>17. ASSUME NEW x \in i..j PROVE Ids(lines[x].text) \subseteq Ids(blocks[b].text)
  <2>1. lines[x].text \in Text /\ Points(lines[x].text) \subseteq Points(q)
    BY <1>11, <1>12, <1>13
  <2>2. Ids(lines[x].text) \subseteq Ids(q)
    BY <2>1, IdsOfPoints
  <2> QED BY <1>16, <2>2
<1>18. b \in DOMAIN blocks
  OBVIOUS
<1> QED BY <1>1, <1>5, <1>17, <1>18

ChunkIInv ==
  /\ document \in Documents
  /\ chunks # Uncut => chunks = Kept(Packed(document))

\* What TextIsKept calls lost is what SplitUnit leaves out.
LEMMA LostAre ==
  ASSUME document \in Documents
  PROVE  \A k \in 1..Len(Units(document)) :
           Runes(UnitText(Units(document)[k])) > MaxRunes =>
             LostOf(Units(document)[k]) \subseteq UNION {Points(h) : h \in LostHeadings}
<1>1. PICK units : units = Units(document)
  OBVIOUS
<1>2. units \in Seq(Seq(Block))
  BY <1>1, UnitsDivide
<1>3. DOMAIN units = 1..Len(units)
  BY <1>2
<1>4. ASSUME NEW k \in 1..Len(units), Runes(UnitText(units[k])) > MaxRunes
      PROVE  LostOf(units[k]) \subseteq UNION {Points(h) : h \in LostHeadings}
  <2>1. CASE Len(units[k]) > 1 /\ units[k][1].heading /\ ~Repeated(units[k][1])
    <3>1. units[k][1].text \in LostHeadings
      BY <1>1, <1>3, <1>4, <2>1, Zenon DEF LostHeadings
    <3>2. LostOf(units[k]) = Points(units[k][1].text)
      BY <2>1, Zenon DEF LostOf
    <3> QED BY <3>1, <3>2, Zenon
  <2>2. CASE ~(Len(units[k]) > 1 /\ units[k][1].heading /\ ~Repeated(units[k][1]))
    <3>1. LostOf(units[k]) = {}
      BY <2>2, Zenon DEF LostOf
    <3> QED BY <3>1
  <2> QED BY <2>1, <2>2
<1> QED BY <1>1, <1>4

\* FencesAreWhole of every document.
LEMMA FencesHold ==
  ASSUME document \in Documents
  PROVE  FencesAreWhole
<1> DEFINE lines  == document.lines
           fences == {k \in DOMAIN lines : lines[k].kind \in Fences}
           blocks == Blocks(document)
<1>1. lines = document.lines /\ lines \in Seq(Lines)
  BY LinesDivide
<1>3. blocks = Blocks(document)
  OBVIOUS
<1>4. fences = {k \in DOMAIN lines : lines[k].kind \in Fences}
  OBVIOUS
<1> HIDE DEF lines, fences, blocks
<1>2. PICK n \in Nat : n = Len(lines) /\ DOMAIN lines = 1..n
  BY <1>1
<1>5. ASSUME document.format = "markdown", NEW i \in fences, NEW j \in DOMAIN lines,
             i < j, \A k \in fences : k >= i,
             \A k \in i + 1..j - 1 : lines[k].kind # lines[i].kind
      PROVE  \E b \in DOMAIN blocks : \A k \in i..j : Ids(lines[k].text) \subseteq Ids(blocks[b].text)
  <2>1. i \in 1..n /\ j \in 1..n /\ lines[i].kind \in Fences
    BY <1>2, <1>4, <1>5
  <2>2. \A k \in 1..i - 1 : lines[k].kind \notin Fences
    <3> SUFFICES ASSUME NEW k \in 1..i - 1, lines[k].kind \in Fences PROVE FALSE
      OBVIOUS
    <3>1. k \in 1..n /\ ~(k >= i)
      BY <2>1
    <3>2. k \in fences
      BY <1>2, <1>4, <3>1
    <3> QED BY <1>5, <3>1, <3>2
  <2>3. i \in 1..Len(document.lines) /\ j \in 1..Len(document.lines)
    BY <1>1, <1>2, <2>1
  <2>4. FirstFence(document, i, j)
    BY <1>1, <1>5, <2>1, <2>2 DEF FirstFence
  <2>5. \E b \in DOMAIN Blocks(document) :
          \A k \in i..j : Ids(document.lines[k].text) \subseteq Ids(Blocks(document)[b].text)
    BY <1>5, <2>3, <2>4, FenceWhole
  <2> QED BY <1>1, <1>3, <2>5
<1>6. document.format = "markdown" =>
        \A i \in fences : \A j \in DOMAIN lines :
          (/\ i < j /\ \A k \in fences : k >= i
           /\ \A k \in i + 1..j - 1 : lines[k].kind # lines[i].kind) =>
            \E b \in DOMAIN blocks : \A k \in i..j : Ids(lines[k].text) \subseteq Ids(blocks[b].text)
  BY <1>5
<1> QED BY <1>6, Zenon DEF FencesAreWhole, lines, fences, blocks

\* The three properties of the chunks.
LEMMA ChunksHold ==
  ASSUME ChunkIInv
  PROVE  ChunksFit /\ TextIsKept /\ TextInOrder
<1>0. CASE chunks = Uncut
  BY <1>0 DEF ChunksFit, TextIsKept, TextInOrder
<1>1. ASSUME chunks # Uncut PROVE ChunksFit /\ TextIsKept /\ TextInOrder
  <2>1. document \in Documents /\ chunks = Kept(Packed(document))
    BY <1>1 DEF ChunkIInv
  <2>2. PICK L : L = UNION {Points(h) : h \in LostHeadings}
    OBVIOUS
  <2>3. PICK t \in Seq(Text) : /\ t = TextsOf(document.lines) /\ Len(t) = Len(document.lines)
                               /\ \A k \in 1..Len(document.lines) : t[k] = document.lines[k].text
    BY <2>1, LinesDivide
  <2>4. PICK P : P = PointsAll(t)
    OBVIOUS
  <2>5. PICK packed : packed = Packed(document) /\ Says(packed, P, L) /\ AllFit(packed, MaxRunes)
    BY <2>1, <2>2, <2>3, <2>4, LostAre, PackedSays
  <2>6. /\ chunks \in Seq(Text) /\ AllFit(chunks, MaxRunes)
        /\ P # {} => chunks # <<>>
        /\ \A i \in 1..Len(chunks) : InOrder(chunks[i])
        /\ \A i, j \in 1..Len(chunks) : i < j => EndsBefore(chunks[i], chunks[j])
        /\ (\A k \in 1..Len(packed) : Runes(packed[k]) >= MinRunes) => Says(chunks, P, L)
    BY <2>1, <2>5, KeptSays
  <2>7. DOMAIN chunks = 1..Len(chunks) /\ DOMAIN packed = 1..Len(packed)
    BY <2>5, <2>6 DEF Says
  <2>8. ChunksFit
    BY <2>6, <2>7 DEF ChunksFit, AllFit
  <2>9. TextInOrder
    BY <2>6, <2>7 DEF TextInOrder
  <2>10. PICK said : said = UNION {Points(chunks[k]) : k \in DOMAIN chunks}
    OBVIOUS
  <2>11. ASSUME NEW i \in DOMAIN document.lines
         PROVE  /\ document.lines[i].text # <<>> => chunks # <<>>
                /\ LongEnough(packed) =>
                     Points(document.lines[i].text) \subseteq said \cup L
    <3>1. i \in 1..Len(t) /\ i \in 1..Len(document.lines) /\ i \in DOMAIN t
      BY <2>1, <2>3, LinesDivide
    <3>2. PICK line \in Text : line = document.lines[i].text /\ line = t[i]
      BY <2>3, <3>1, ElementOfSeq
    <3>3. Points(line) \subseteq P
      BY <2>4, <3>1, <3>2, Zenon DEF PointsAll
    <3>4. line # <<>> => chunks # <<>>
      BY <2>6, <3>3, IdsOfPoints
    <3>5. ASSUME LongEnough(packed)
          PROVE  Points(line) \subseteq said \cup L
      <4>1. Says(chunks, P, L)
        BY <2>6, <2>7, <3>5 DEF LongEnough
      <4>2. \A p \in P : p \in L \/ \E k \in DOMAIN chunks : p \in Points(chunks[k])
        BY <2>7, <4>1 DEF Says
      <4>3. \A p \in P : p \in L \/ p \in said
        BY <2>10, <4>2, Zenon
      <4> QED BY <3>3, <4>3, Zenon
    <3> QED BY <3>2, <3>4, <3>5
  <2>12. TextIsKept
    BY <2>2, <2>5, <2>10, <2>11, Zenon DEF TextIsKept
  <2> QED BY <2>8, <2>9, <2>12
<1> QED BY <1>0, <1>1

\* For every document, and every MaxRunes, MinRunes and OverlapRunes that
\* normalizeConfig lets through, the chunks of SplitText are right: ChunkInv.
THEOREM ChunksKeep == ChunkSpec => []ChunkInv
<1>1. ChunkInit => ChunkIInv
  BY DEF ChunkInit, ChunkIInv
<1>2. ChunkIInv /\ [ChunkNext]_chunkVars => ChunkIInv'
  <2> SUFFICES ASSUME ChunkIInv, [ChunkNext]_chunkVars PROVE ChunkIInv'
    OBVIOUS
  <2>1. CASE SplitText
    <3>1. document' = document /\ chunks' = Kept(Packed(document))
      BY <2>1 DEF SplitText
    <3>2. document \in Documents
      BY DEF ChunkIInv
    <3>3. Packed(document)' = Packed(document)
      BY <3>1
    <3> QED BY <3>1, <3>2, <3>3 DEF ChunkIInv
  <2>2. CASE UNCHANGED chunkVars
    <3>1. document' = document /\ chunks' = chunks
      BY <2>2 DEF chunkVars
    <3> QED BY <3>1 DEF ChunkIInv
  <2> QED BY <2>1, <2>2 DEF ChunkNext
<1>3. ChunkIInv => ChunkInv
  BY ChunksHold, FencesHold DEF ChunkIInv, ChunkInv
<1> QED BY <1>1, <1>2, <1>3, PTL DEF ChunkSpec

=============================================================================
