--------------------------- MODULE AnalysisProofs ---------------------------
(***************************************************************************)
(* What a run reports of the structure StructureProofs is about, for every *)
(* input: the cut points and bridges, the trails, the order and the caps   *)
(* of the advice, and the gate of the prompt.  The inductive invariant of  *)
(* a whole run is put together here.                                       *)
(***************************************************************************)
EXTENDS StructureProofs

-----------------------------------------------------------------------------
(* Fractions.                                                              *)

IsFraction(f) == f.num \in Nat /\ f.den \in Nat \ {0}

\* Multiplying keeps the order.
LEMMA TimesKeeps ==
  ASSUME NEW a \in Nat, NEW b \in Nat, NEW k \in Nat \ {0}
  PROVE  a > b <=> a * k > b * k
OBVIOUS

\* Comparing fractions crosswise is transitive, with one comparison strict.
LEMMA MoreThan ==
  ASSUME NEW a \in Nat, NEW b \in Nat \ {0}, NEW c \in Nat, NEW d \in Nat \ {0},
         NEW e \in Nat, NEW f \in Nat \ {0}
  PROVE  /\ a * d > c * b /\ ~(e * d > c * f) => a * f > e * b
         /\ ~(c * b > a * d) /\ c * f > e * d => a * f > e * b
<1> DEFINE x == (a * f) * d
           y == (c * b) * f
           z == (e * b) * d
<1>1. x = (a * d) * f /\ y = (c * f) * b /\ z = (e * d) * b
  OBVIOUS
<1>2. x \in Nat /\ y \in Nat /\ z \in Nat
  OBVIOUS
<1>3. /\ a * d \in Nat /\ c * b \in Nat /\ e * d \in Nat /\ c * f \in Nat
      /\ a * f \in Nat /\ e * b \in Nat
  OBVIOUS
<1>4. a * d > c * b <=> x > y
  BY <1>1, <1>3, TimesKeeps
<1>5. c * b > a * d <=> y > x
  BY <1>1, <1>3, TimesKeeps
<1>6. e * d > c * f <=> z > y
  BY <1>1, <1>3, TimesKeeps
<1>7. c * f > e * d <=> y > z
  BY <1>1, <1>3, TimesKeeps
<1>8. a * f > e * b <=> x > z
  BY <1>3, TimesKeeps
<1> HIDE DEF x, y, z
<1>9. (x > y /\ ~(z > y) => x > z) /\ (~(y > x) /\ y > z => x > z)
  BY <1>2
<1>10. QED BY <1>4, <1>5, <1>6, <1>7, <1>8, <1>9

\* Comparing fractions crosswise is transitive.
LEMMA AtLeast ==
  ASSUME NEW a \in Nat, NEW b \in Nat \ {0}, NEW c \in Nat, NEW d \in Nat \ {0},
         NEW e \in Nat, NEW f \in Nat \ {0}
  PROVE  a * d >= c * b /\ c * f >= e * d => a * f >= e * b
<1> DEFINE x == (a * f) * d
           y == (c * b) * f
           z == (e * b) * d
<1>1. x = (a * d) * f /\ y = (c * f) * b /\ z = (e * d) * b
  OBVIOUS
<1>2. x \in Nat /\ y \in Nat /\ z \in Nat
  OBVIOUS
<1>3. /\ a * d \in Nat /\ c * b \in Nat /\ e * d \in Nat /\ c * f \in Nat
      /\ a * f \in Nat /\ e * b \in Nat
  OBVIOUS
<1>4. c * b > a * d <=> y > x
  BY <1>1, <1>3, TimesKeeps
<1>5. e * d > c * f <=> z > y
  BY <1>1, <1>3, TimesKeeps
<1>6. e * b > a * f <=> z > x
  BY <1>3, TimesKeeps
<1> HIDE DEF x, y, z
<1>7. ~(y > x) /\ ~(z > y) => ~(z > x)
  BY <1>2
<1>8. \A m, n \in Nat : m >= n <=> ~(n > m)
  OBVIOUS
<1>9. QED BY <1>3, <1>4, <1>5, <1>6, <1>7, <1>8

\* More orders fractions, and fractions of which none is more are alike.
LEMMA MoreOrders ==
  ASSUME NEW f, NEW g, NEW h, IsFraction(f), IsFraction(g), IsFraction(h)
  PROVE  /\ ~More(f, f)
         /\ More(f, g) => ~More(g, f)
         /\ More(f, g) /\ ~More(h, g) => More(f, h)
         /\ ~More(g, f) /\ More(g, h) => More(f, h)
         /\ More(f, g) /\ More(g, h) => More(f, h)
         /\ ~More(g, f) /\ ~More(h, g) => ~More(h, f)
<1> DEFINE a == f.num
           b == f.den
           c == g.num
           d == g.den
           e == h.num
           k == h.den
<1>1. /\ a \in Nat /\ b \in Nat \ {0} /\ c \in Nat /\ d \in Nat \ {0}
      /\ e \in Nat /\ k \in Nat \ {0}
  BY DEF IsFraction
<1>2. /\ More(f, g) <=> a * d > c * b
      /\ More(g, f) <=> c * b > a * d
      /\ More(g, h) <=> c * k > e * d
      /\ More(h, g) <=> e * d > c * k
      /\ More(f, h) <=> a * k > e * b
      /\ More(h, f) <=> e * b > a * k
      /\ More(f, f) <=> a * b > a * b
  BY DEF More
<1>3. /\ a * d \in Nat /\ c * b \in Nat /\ c * k \in Nat /\ e * d \in Nat
      /\ a * k \in Nat /\ e * b \in Nat /\ a * b \in Nat
  BY <1>1
<1> HIDE DEF a, b, c, d, e, k
<1> DEFINE ad == a * d
           cb == c * b
           ck == c * k
           ed == e * d
           ak == a * k
           eb == e * b
           ab2 == a * b
<1>4. /\ a * d > c * b /\ ~(e * d > c * k) => a * k > e * b
      /\ ~(c * b > a * d) /\ c * k > e * d => a * k > e * b
  BY <1>1, MoreThan
<1>6. \A m, n \in Nat : ~(m > m) /\ (m > n => ~(n > m))
  OBVIOUS
<1>7. /\ ~(ab2 > ab2) /\ (ad > cb => ~(cb > ad)) /\ (ck > ed => ~(ed > ck))
      /\ (eb > ak => ~(ak > eb))
  <2>1. ad \in Nat /\ cb \in Nat /\ ck \in Nat /\ ed \in Nat /\ eb \in Nat /\ ak \in Nat /\ ab2 \in Nat
    BY <1>3
  <2> HIDE DEF ad, cb, ck, ed, ak, eb, ab2
  <2>2. QED BY <1>6, <2>1
<1>8. /\ ad > cb /\ ~(ed > ck) => ak > eb
      /\ ~(cb > ad) /\ ck > ed => ak > eb
      /\ ~(cb > ad) /\ ~(ed > ck) => ~(eb > ak)
  <2>1. /\ ad \in Nat /\ cb \in Nat /\ ck \in Nat /\ ed \in Nat /\ eb \in Nat /\ ak \in Nat
        /\ ad > cb /\ ~(ed > ck) => ak > eb
        /\ ~(cb > ad) /\ ck > ed => ak > eb
    BY <1>3, <1>4
  <2>2. ~(cb > ad) /\ ~(ed > ck) => ~(eb > ak)
    <3>1. ad >= cb /\ ck >= ed => ak >= eb
      BY <1>1, AtLeast
    <3> HIDE DEF ad, cb, ck, ed, ak, eb, ab2
    <3>2. QED BY <2>1, <3>1
  <2> HIDE DEF ad, cb, ck, ed, ak, eb, ab2
  <2>3. QED BY <2>1, <2>2
<1>9. /\ (More(f, g) <=> ad > cb) /\ (More(g, f) <=> cb > ad)
      /\ (More(g, h) <=> ck > ed) /\ (More(h, g) <=> ed > ck)
      /\ (More(f, h) <=> ak > eb) /\ (More(h, f) <=> eb > ak)
      /\ (More(f, f) <=> ab2 > ab2)
  BY <1>2
<1> HIDE DEF ad, cb, ck, ed, ak, eb, ab2
<1>10. QED BY <1>7, <1>8, <1>9

-----------------------------------------------------------------------------
(* The order of the findings of a kind.                                    *)

Lexical(n, x, y) == \E i \in 1..n : x[i] < y[i] /\ \A k \in 1..(i - 1) : x[k] = y[k]

\* The lexical order of tuples is a strict total order.
LEMMA LexicalOrders ==
  ASSUME NEW n \in Nat, NEW x \in [1..n -> Int], NEW y \in [1..n -> Int], NEW z \in [1..n -> Int]
  PROVE  /\ ~Lexical(n, x, x)
         /\ Lexical(n, x, y) /\ Lexical(n, y, z) => Lexical(n, x, z)
         /\ x = y \/ Lexical(n, x, y) \/ Lexical(n, y, x)
<1>1. ~Lexical(n, x, x)
  BY DEF Lexical
<1>2. ASSUME Lexical(n, x, y), Lexical(n, y, z) PROVE Lexical(n, x, z)
  <2>1. PICK i \in 1..n : x[i] < y[i] /\ \A k \in 1..(i - 1) : x[k] = y[k]
    BY <1>2 DEF Lexical
  <2>2. PICK j \in 1..n : y[j] < z[j] /\ \A k \in 1..(j - 1) : y[k] = z[k]
    BY <1>2 DEF Lexical
  <2>3. CASE i <= j
    <3>1. x[i] < z[i]
      <4>1. y[i] <= z[i]
        BY <2>2, <2>3
      <4>2. x[i] \in Int /\ y[i] \in Int /\ z[i] \in Int
        OBVIOUS
      <4>3. QED BY <2>1, <4>1, <4>2
    <3>2. \A k \in 1..(i - 1) : x[k] = z[k]
      BY <2>1, <2>2, <2>3
    <3>3. QED BY <3>1, <3>2 DEF Lexical
  <2>4. CASE j < i
    <3>1. x[j] < z[j] /\ \A k \in 1..(j - 1) : x[k] = z[k]
      BY <2>1, <2>2, <2>4
    <3>2. QED BY <3>1 DEF Lexical
  <2>5. QED BY <2>3, <2>4
<1>3. ASSUME x # y PROVE Lexical(n, x, y) \/ Lexical(n, y, x)
  <2> DEFINE S == {i \in 1..n : x[i] # y[i]}
  <2>1. S \in SUBSET Nat /\ S # {}
    <3> HIDE DEF S
    <3>1. (\A i \in 1..n : x[i] = y[i]) => [i \in 1..n |-> x[i]] = [i \in 1..n |-> y[i]]
      OBVIOUS
    <3>2. x = [i \in 1..n |-> x[i]]
      OBVIOUS
    <3>3. y = [i \in 1..n |-> y[i]]
      OBVIOUS
    <3>4. \E i \in 1..n : x[i] # y[i]
      BY <1>3, <3>1, <3>2, <3>3
    <3>5. PICK i \in 1..n : x[i] # y[i]
      BY <3>4
    <3>6. i \in S
      BY <3>5 DEF S
    <3>7. S \subseteq 1..n
      BY Zenon DEF S
    <3>8. 1..n \subseteq Nat
      OBVIOUS
    <3>9. QED BY <3>6, <3>7, <3>8
  <2>2. PICK i \in S : \A k \in S : i <= k
    <3> HIDE DEF S
    <3>1. QED BY <2>1, LeastOf
  <2>3. \A k \in 1..(i - 1) : x[k] = y[k]
    BY <2>2
  <2>4. x[i] < y[i] \/ y[i] < x[i]
    OBVIOUS
  <2>5. QED BY <2>3, <2>4 DEF Lexical
<1>4. QED BY <1>1, <1>2, <1>3

\* A finding that can be ranked, and its place in the report.
IsRanked(f) ==
  /\ IsFraction(f.score) /\ f.shared \in Nat
  /\ f.doc \in Int /\ f.line \in Int /\ f.other \in Int
  /\ {f.at.text, f.at.frag} \subseteq DOMAIN Collation

Place(f) == <<f.doc, f.line, f.other, Collation[f.at.text], Collation[f.at.frag]>>

\* Earlier in the report is the lexical order of places.
LEMMA PlaceOrders ==
  ASSUME NEW f, IsRanked(f), NEW g
  PROVE  /\ Place(f) \in [1..5 -> Int]
         /\ EarlierInReport(f, g) <=> Lexical(5, Place(f), Place(g))
<1>1. /\ f.doc \in Int /\ f.line \in Int /\ f.other \in Int
      /\ Collation[f.at.text] \in Int /\ Collation[f.at.frag] \in Int
  BY TextsAssumption DEF IsRanked
<1> DEFINE a == f.doc
           b == f.line
           c == f.other
           d == Collation[f.at.text]
           e == Collation[f.at.frag]
<1>2. <<a, b, c, d, e>> \in [1..5 -> Int]
  <2> HIDE DEF a, b, c, d, e
  <2>1. a \in Int /\ b \in Int /\ c \in Int /\ d \in Int /\ e \in Int
    BY <1>1 DEF a, b, c, d, e
  <2>2. QED BY <2>1
<1>3. Place(f) \in [1..5 -> Int]
  BY <1>2 DEF Place
<1>4. EarlierInReport(f, g) <=> Lexical(5, Place(f), Place(g))
  BY Zenon DEF EarlierInReport, Lexical, Place
<1>5. QED BY <1>3, <1>4

\* Rank, with report order among equals, is a strict total order of the findings of one
\* kind.
LEMMA OutranksOrders ==
  ASSUME NEW S, \A f \in S : IsRanked(f), \A f, g \in S : f.kind = g.kind,
         \A f, g \in S : Place(f) = Place(g) => f = g
  PROVE  LET R == {p \in S \X S : Outranks(p[1], p[2])} IN
         Irreflexive(R) /\ Transitive(S, R) /\ Total(S, R)
<1> DEFINE R == {p \in S \X S : Outranks(p[1], p[2])}
           Better(f, g) == IF f.kind = "suggested-link" THEN More(f.score, g.score)
                           ELSE More(g.score, f.score)
<1>1. ASSUME NEW f \in S, NEW g \in S
      PROVE  Outranks(f, g) <=> \/ Better(f, g)
                                \/ ~Better(g, f) /\ f.shared > g.shared
                                \/ ~Better(g, f) /\ f.shared = g.shared /\ Lexical(5, Place(f), Place(g))
  <2>1. f.kind = g.kind
    OBVIOUS
  <2>2. EarlierInReport(f, g) <=> Lexical(5, Place(f), Place(g))
    BY PlaceOrders
  <2>3. QED BY <2>1, <2>2 DEF Outranks
<1>2. ASSUME NEW f \in S, NEW g \in S, NEW h \in S
      PROVE  /\ ~Better(f, f)
             /\ Better(f, g) => ~Better(g, f)
             /\ Better(f, g) /\ ~Better(h, g) => Better(f, h)
             /\ ~Better(g, f) /\ Better(g, h) => Better(f, h)
             /\ Better(f, g) /\ Better(g, h) => Better(f, h)
             /\ ~Better(g, f) /\ ~Better(h, g) => ~Better(h, f)
  <2>1. IsFraction(f.score) /\ IsFraction(g.score) /\ IsFraction(h.score)
    BY DEF IsRanked
  <2>2. f.kind = g.kind /\ g.kind = h.kind
    OBVIOUS
  <2>3. CASE f.kind = "suggested-link"
    BY <2>1, <2>2, <2>3, MoreOrders
  <2>4. CASE f.kind # "suggested-link"
    <3>1. /\ ~More(f.score, f.score)
          /\ More(h.score, g.score) /\ ~More(f.score, g.score) => More(h.score, f.score)
          /\ ~More(g.score, h.score) /\ More(g.score, f.score) => More(h.score, f.score)
          /\ More(h.score, g.score) /\ More(g.score, f.score) => More(h.score, f.score)
          /\ ~More(g.score, h.score) /\ ~More(f.score, g.score) => ~More(f.score, h.score)
          /\ More(g.score, f.score) => ~More(f.score, g.score)
      BY <2>1, MoreOrders
    <3>2. QED BY <2>2, <2>4, <3>1
  <2>5. QED BY <2>3, <2>4
<1> HIDE DEF Better
<1>3. ASSUME NEW f \in S, NEW g \in S, NEW h \in S
      PROVE  /\ ~Lexical(5, Place(f), Place(f))
             /\ Lexical(5, Place(f), Place(g)) /\ Lexical(5, Place(g), Place(h))
                  => Lexical(5, Place(f), Place(h))
             /\ f = g \/ Lexical(5, Place(f), Place(g)) \/ Lexical(5, Place(g), Place(f))
  <2>1. 5 \in Nat /\ \A x \in S : Place(x) \in [1..5 -> Int]
    BY PlaceOrders
  <2>2. QED BY <2>1, LexicalOrders
<1>4. \A f \in S : f.shared \in Nat
  BY DEF IsRanked
<1>5. ASSUME NEW f \in S PROVE ~Outranks(f, f)
  BY <1>1, <1>2, <1>3, <1>4
<1>6. ASSUME NEW f \in S, NEW g \in S, NEW h \in S, Outranks(f, g), Outranks(g, h)
      PROVE  Outranks(f, h)
  <2> DEFINE a == f.shared
             b == g.shared
             c == h.shared
  <2>1. a \in Nat /\ b \in Nat /\ c \in Nat
    BY <1>4
  <2>2. \/ Better(f, g)
        \/ ~Better(g, f) /\ a > b
        \/ ~Better(g, f) /\ a = b /\ Lexical(5, Place(f), Place(g))
    BY <1>1, <1>6
  <2>3. \/ Better(g, h)
        \/ ~Better(h, g) /\ b > c
        \/ ~Better(h, g) /\ b = c /\ Lexical(5, Place(g), Place(h))
    BY <1>1, <1>6
  <2> HIDE DEF a, b, c
  <2>4. \/ Better(f, h)
        \/ ~Better(h, f) /\ a > c
        \/ ~Better(h, f) /\ a = c /\ Lexical(5, Place(f), Place(h))
    BY <1>2, <1>3, <2>1, <2>2, <2>3
  <2>5. QED BY <1>1, <2>4 DEF a, c
<1>7. ASSUME NEW f \in S, NEW g \in S, f # g PROVE Outranks(f, g) \/ Outranks(g, f)
  <2> DEFINE a == f.shared
             b == g.shared
  <2>1. a \in Nat /\ b \in Nat
    BY <1>4
  <2> HIDE DEF a, b
  <2>2. a > b \/ b > a \/ a = b
    BY <2>1
  <2>3. Lexical(5, Place(f), Place(g)) \/ Lexical(5, Place(g), Place(f))
    BY <1>3, <1>7
  <2>4. QED BY <1>1, <2>2, <2>3 DEF a, b
<1>8. \A f, g \in S : <<f, g>> \in R <=> Outranks(f, g)
  OBVIOUS
<1>9. Irreflexive(R)
  BY <1>5 DEF Irreflexive
<1> HIDE DEF R
<1>10. QED BY <1>6, <1>7, <1>8, <1>9 DEF Transitive, Total, R

\* Findings of one kind that a prompt can put in order.
IsOrdered(S) ==
  /\ \A f \in S : IsRanked(f)
  /\ \A f, g \in S : f.kind = g.kind
  /\ \A f, g \in S : Place(f) = Place(g) => f = g

\* A capped kind keeps as many as its cap, counts the rest, and leaves out none that
\* outranks one it keeps.
LEMMA CapKeeps ==
  ASSUME NEW all, IsFiniteSet(all), NEW kind, NEW cap \in Nat,
         IsOrdered({f \in all : f.kind = kind})
  PROVE  LET c == CapKind(all, kind, cap) IN
         /\ c.kept \subseteq all /\ c.omitted \in Nat
         /\ Cardinality(all) = Cardinality(c.kept) + c.omitted
         /\ \A f \in all : f.kind # kind => f \in c.kept
         /\ \A f, g \in all : f.kind = kind /\ g.kind = kind /\ f \notin c.kept /\ g \in c.kept
                                => ~Outranks(f, g)
<1> DEFINE of == {f \in all : f.kind = kind}
           c == CapKind(all, kind, cap)
           few == {f \in of : Cardinality({g \in of : Outranks(g, f)}) < cap}
           R == {p \in of \X of : Outranks(p[1], p[2])}
<1>1. of \subseteq all /\ \A f \in all : f \in of <=> f.kind = kind
  OBVIOUS
<1>2. IsFiniteSet(of) /\ Cardinality(of) \in Nat /\ Cardinality(all) \in Nat
  BY <1>1, FS_Subset, FS_CardinalityType
<1>3. CASE Cardinality(of) <= cap
  <2>1. c = [kept |-> all, omitted |-> 0]
    BY <1>3 DEF CapKind
  <2>2. c.kept = all /\ c.omitted = 0
    BY <2>1
  <2> HIDE DEF c, of
  <2>3. QED BY <1>2, <2>2 DEF c
<1>4. CASE ~(Cardinality(of) <= cap)
  <2>1. c = [kept |-> (all \ of) \union few, omitted |-> Cardinality(of) - cap]
    BY <1>4, Zenon DEF CapKind
  <2>2. c.kept = (all \ of) \union few /\ c.omitted = Cardinality(of) - cap
    BY <2>1
  <2>3. IsOrdered(of)
    OBVIOUS
  <2> HIDE DEF of, c
  <2>4. Irreflexive(R) /\ Transitive(of, R) /\ Total(of, R)
    BY <2>3, OutranksOrders DEF IsOrdered
  <2>5. \A f \in of : {g \in of : Outranks(g, f)} = Under(of, R, f)
    BY DEF Under
  <2>6. few = {f \in of : Cardinality(Under(of, R, f)) < cap}
    BY <2>5
  <2>7. Cardinality(few) = cap
    <3> HIDE DEF R
    <3>1. cap <= Cardinality(of)
      BY <1>2, <1>4
    <3>2. QED BY <1>2, <2>4, <2>6, <3>1, FirstFew
  <2>8. few \subseteq of
    OBVIOUS
  <2>9. ASSUME NEW f \in of, NEW g \in of, f \notin few, g \in few, Outranks(f, g)
        PROVE  FALSE
    <3>1. <<f, g>> \in R
      BY <2>9
    <3>2. /\ Cardinality(Under(of, R, f)) < Cardinality(Under(of, R, g))
          /\ Cardinality(Under(of, R, f)) \in Nat /\ Cardinality(Under(of, R, g)) \in Nat
      <4> HIDE DEF R
      <4>1. QED BY <1>2, <2>4, <3>1, UnderGrows
    <3>3. Cardinality(Under(of, R, g)) < cap /\ ~(Cardinality(Under(of, R, f)) < cap)
      BY <2>6, <2>9
    <3>4. QED BY <3>2, <3>3
  <2> HIDE DEF few, R
  <2>10. /\ Cardinality((all \ of) \union few) + (Cardinality(of) - cap) = Cardinality(all)
    <3>1. IsFiniteSet(all \ of) /\ Cardinality(all \ of) = Cardinality(all) - Cardinality(all \cap of)
      BY FS_Difference
    <3>2. all \cap of = of
      BY <1>1
    <3>3. IsFiniteSet(few)
      BY <1>2, <2>8, FS_Subset
    <3>4. (all \ of) \cap few = {}
      BY <2>8
    <3>5. Cardinality((all \ of) \union few)
            = Cardinality(all \ of) + Cardinality(few) - Cardinality((all \ of) \cap few)
      BY <3>1, <3>3, FS_Union
    <3>6. Cardinality((all \ of) \cap few) = 0
      BY <3>4, FS_EmptySet
    <3>7. QED BY <1>2, <2>7, <3>1, <3>2, <3>5, <3>6
  <2>11. c.kept \subseteq all /\ c.omitted \in Nat
    BY <1>1, <1>2, <1>4, <2>2, <2>8
  <2>12. Cardinality(all) = Cardinality(c.kept) + c.omitted
    BY <2>2, <2>10
  <2>13. \A f \in all : f.kind # kind => f \in c.kept
    BY <1>1, <2>2
  <2>14. ASSUME NEW f \in all, NEW g \in all, f.kind = kind, g.kind = kind,
                f \notin c.kept, g \in c.kept
         PROVE  ~Outranks(f, g)
    BY <1>1, <2>2, <2>9, <2>14
  <2>15. QED BY <2>11, <2>12, <2>13, <2>14 DEF c
<1>5. QED BY <1>3, <1>4

\* What a report holds, as the prompts read it.
IsReport(all) ==
  /\ IsFiniteSet(all)
  /\ \A k \in {"suggested-link", "low-scent-anchor"} :
       IsOrdered({f \in all : f.kind = k}) /\ \A f \in all : f.kind = k => f.severity = Info

\* The default prompt of such a report keeps what is no advice, accounts for all it
\* leaves out, and keeps the best.
LEMMA DefaultPrompt ==
  ASSUME NEW all, IsReport(all)
  PROVE  LET shown == SelectFindings(all, [mode |-> "default", kinds |-> {}]) IN
         /\ shown.kept \subseteq all
         /\ all \ {f \in all : f.severity = Info} \subseteq shown.kept
         /\ Cardinality(all) = Cardinality(shown.kept) + shown.excluded + shown.omitted
         /\ \A f, g \in all :
              /\ f.kind \in {"suggested-link", "low-scent-anchor"} /\ g.kind = f.kind
              /\ f \notin shown.kept /\ g \in shown.kept /\ ~ExcludedAdvisory(f)
              => ~Outranks(f, g)
<1> DEFINE surfaced == {f \in all : ~ExcludedAdvisory(f)}
           once  == CapKind(surfaced, "suggested-link", MaxPromptSuggested)
           twice == CapKind(once.kept, "low-scent-anchor", MaxPromptScent)
           shown == SelectFindings(all, [mode |-> "default", kinds |-> {}])
<1>1. shown = [kept |-> twice.kept, excluded |-> Cardinality(all) - Cardinality(surfaced),
               omitted |-> once.omitted + twice.omitted]
  <2> DEFINE opts == [mode |-> "default", kinds |-> {}]
  <2>1. opts.mode = "default"
    OBVIOUS
  <2> HIDE DEF opts
  <2>2. SelectFindings(all, opts) = [kept |-> twice.kept, excluded |-> Cardinality(all) - Cardinality(surfaced),
               omitted |-> once.omitted + twice.omitted]
    BY <2>1, SMT DEF SelectFindings
  <2>3. QED BY <2>2 DEF opts
<1>2. /\ shown.kept = twice.kept
      /\ shown.excluded = Cardinality(all) - Cardinality(surfaced)
      /\ shown.omitted = once.omitted + twice.omitted
  <2> HIDE DEF shown, twice, once, surfaced
  <2>1. QED BY <1>1
<1> HIDE DEF shown
<1>3. surfaced \subseteq all /\ IsFiniteSet(surfaced) /\ Cardinality(surfaced) \in Nat /\ Cardinality(all) \in Nat
  <2>1. surfaced \subseteq all /\ IsFiniteSet(all)
    BY DEF IsReport
  <2> HIDE DEF surfaced
  <2>2. QED BY <2>1, FS_Subset, FS_CardinalityType
<1>4. \A f \in all : f.severity # Info => f \in surfaced
  BY DEF ExcludedAdvisory
<1>5. \A f \in all : ~ExcludedAdvisory(f) => f \in surfaced
  OBVIOUS
<1> HIDE DEF surfaced
<1>6. \A S : S \subseteq all => \A k \in {"suggested-link", "low-scent-anchor"} :
               IsOrdered({f \in S : f.kind = k})
  BY DEF IsReport, IsOrdered
<1>7. /\ once.kept \subseteq surfaced /\ once.omitted \in Nat
      /\ Cardinality(surfaced) = Cardinality(once.kept) + once.omitted
      /\ \A f \in surfaced : f.kind # "suggested-link" => f \in once.kept
      /\ \A f, g \in surfaced :
           /\ f.kind = "suggested-link" /\ g.kind = "suggested-link" /\ f \notin once.kept /\ g \in once.kept
           => ~Outranks(f, g)
  <2>1. IsOrdered({f \in surfaced : f.kind = "suggested-link"}) /\ MaxPromptSuggested \in Nat
    BY <1>3, <1>6, CapsAssumption
  <2>2. QED BY <1>3, <2>1, CapKeeps
<1> HIDE DEF once
<1>8. once.kept \subseteq all /\ IsFiniteSet(once.kept) /\ Cardinality(once.kept) \in Nat
  BY <1>3, <1>7, FS_Subset, FS_CardinalityType
<1>9. /\ twice.kept \subseteq once.kept /\ twice.omitted \in Nat
      /\ Cardinality(once.kept) = Cardinality(twice.kept) + twice.omitted
      /\ \A f \in once.kept : f.kind # "low-scent-anchor" => f \in twice.kept
      /\ \A f, g \in once.kept :
           /\ f.kind = "low-scent-anchor" /\ g.kind = "low-scent-anchor" /\ f \notin twice.kept /\ g \in twice.kept
           => ~Outranks(f, g)
  <2>1. IsOrdered({f \in once.kept : f.kind = "low-scent-anchor"}) /\ MaxPromptScent \in Nat
    BY <1>6, <1>8, CapsAssumption
  <2>2. QED BY <1>8, <2>1, CapKeeps
<1> HIDE DEF twice
<1>10. IsFiniteSet(twice.kept) /\ Cardinality(twice.kept) \in Nat
  BY <1>8, <1>9, FS_Subset, FS_CardinalityType
<1>11. shown.kept \subseteq all
  BY <1>2, <1>3, <1>7, <1>9
<1>12. ASSUME NEW f \in all, f.severity # Info PROVE f \in shown.kept
  <2>1. f.kind \notin {"suggested-link", "low-scent-anchor"}
    BY <1>12 DEF IsReport
  <2>2. QED BY <1>2, <1>4, <1>7, <1>9, <1>12, <2>1
<1>13. Cardinality(all) = Cardinality(shown.kept) + shown.excluded + shown.omitted
  <2> DEFINE a == Cardinality(all)
             b == Cardinality(surfaced)
             x == Cardinality(once.kept)
             y == Cardinality(twice.kept)
  <2>1. /\ a \in Nat /\ b \in Nat /\ x \in Nat /\ y \in Nat
        /\ b = x + once.omitted /\ x = y + twice.omitted
        /\ once.omitted \in Nat /\ twice.omitted \in Nat
    BY <1>3, <1>7, <1>8, <1>9, <1>10
  <2>2. Cardinality(shown.kept) = y /\ shown.excluded = a - b /\ shown.omitted = once.omitted + twice.omitted
    BY <1>2
  <2> HIDE DEF a, b, x, y
  <2>3. a = Cardinality(shown.kept) + shown.excluded + shown.omitted
    BY <2>1, <2>2
  <2>4. QED BY <2>3 DEF a
<1>14. ASSUME NEW f \in all, NEW g \in all,
              f.kind \in {"suggested-link", "low-scent-anchor"}, g.kind = f.kind,
              f \notin shown.kept, g \in shown.kept, ~ExcludedAdvisory(f)
       PROVE  ~Outranks(f, g)
  <2>1. f \in surfaced /\ g \in once.kept /\ g \in surfaced /\ g \in twice.kept /\ f \notin twice.kept
    BY <1>2, <1>5, <1>7, <1>9, <1>14
  <2>2. CASE f.kind = "suggested-link"
    <3>1. f \notin once.kept
      BY <1>9, <2>1, <2>2
    <3>2. QED BY <1>7, <1>14, <2>1, <2>2, <3>1
  <2>3. CASE f.kind = "low-scent-anchor"
    <3>1. f \in once.kept
      BY <1>7, <2>1, <2>3
    <3>2. QED BY <1>9, <1>14, <2>1, <2>3, <3>1
  <2>4. QED BY <1>14, <2>2, <2>3
<1>15. QED BY <1>11, <1>12, <1>13, <1>14 DEF shown

\* The sum of finitely many natural numbers is one.
LEMMA SumIsNat ==
  ASSUME NEW S, IsFiniteSet(S), NEW fun \in [S -> Nat]
  PROVE  SumFunction(fun) \in Nat
<1> DEFINE n == Cardinality(S)
           T == [SUBSET S -> Nat]
           pick(s) == CHOOSE x \in s : TRUE
           Sum(g, s) == IF s = {} THEN 0 ELSE fun[pick(s)] + g[s \ {pick(s)}]
           next == [g \in T |-> [s \in SUBSET S |-> Sum(g, s)]]
           step == [i \in 1..n |-> next]
           base == [s \in SUBSET S |-> 0]
<1>1. n \in Nat /\ \A s \in SUBSET S : IsFiniteSet(s) /\ Cardinality(s) \in 0..n
  BY FS_CardinalityType, FS_Subset
<1>2. \A s \in SUBSET S : s # {} => pick(s) \in s /\ pick(s) \in S /\ s \ {pick(s)} \in SUBSET S
  OBVIOUS
<1>3. \A g \in T, s \in SUBSET S : Sum(g, s) \in Nat
  <2> SUFFICES ASSUME NEW g \in T, NEW s \in SUBSET S PROVE Sum(g, s) \in Nat
    OBVIOUS
  <2> HIDE DEF pick
  <2>1. s # {} => fun[pick(s)] \in Nat /\ g[s \ {pick(s)}] \in Nat
    BY <1>2
  <2>2. QED BY <2>1
<1>4. base \in T
  OBVIOUS
<1>5. \A g \in T : next[g] \in T /\ \A s \in SUBSET S : next[g][s] = Sum(g, s)
  <2> HIDE DEF Sum
  <2>1. QED BY <1>3
<1>6. next \in [T -> T]
  <2>1. next = [g \in T |-> next[g]]
    OBVIOUS
  <2> HIDE DEF next
  <2>2. QED BY <1>5, <2>1
<1>7. IsStep(n, T, step)
  BY <1>6 DEF IsStep
<1> HIDE DEF T, next, base
<1>8. PICK f : Iterates(f, n, T, base, step)
  <2> HIDE DEF step
  <2>1. QED BY <1>1, <1>4, <1>7, IterationExists
<1>9. f \in [0..n -> T] /\ \A i \in 1..n : f[i] = next[f[i - 1]]
  BY <1>8 DEF Iterates
<1> DEFINE P == {i \in 0..n : \A s \in SUBSET S : Cardinality(s) <= i => f[i][s] = Sum(f[i], s)}
<1>10. 0 \in P
  <2>1. f[0] = base /\ 0 \in 0..n
    BY <1>1, <1>8 DEF Iterates
  <2>2. ASSUME NEW s \in SUBSET S, Cardinality(s) <= 0 PROVE f[0][s] = Sum(f[0], s)
    <3>1. Cardinality(s) = 0
      BY <1>1, <2>2
    <3>2. s = {}
      BY <1>1, <3>1, FS_EmptySet
    <3>3. QED BY <2>1, <3>2 DEF base
  <2> HIDE DEF Sum
  <2>3. QED BY <2>1, <2>2
<1>11. ASSUME NEW i \in 1..n, i - 1 \in P PROVE i \in P
  <2>0. i \in 0..n /\ i - 1 \in 0..n
    BY <1>1
  <2>1. f[i] \in T /\ f[i - 1] \in T /\ f[i] = next[f[i - 1]]
    BY <1>9, <2>0
  <2>2. \A s \in SUBSET S : f[i][s] = Sum(f[i - 1], s)
    <3> HIDE DEF Sum
    <3>1. QED BY <1>5, <2>1
  <2>3. ASSUME NEW s \in SUBSET S, Cardinality(s) <= i PROVE f[i][s] = Sum(f[i], s)
    <3>1. CASE s = {}
      BY <2>2, <3>1
    <3>2. CASE s # {}
      <4> DEFINE r == s \ {pick(s)}
      <4>1. pick(s) \in s /\ r \in SUBSET S
        BY <1>2, <3>2
      <4>2. Cardinality(r) = Cardinality(s) - 1
        <5> HIDE DEF pick
        <5>1. QED BY <1>1, <4>1, FS_RemoveElement
      <4>3. Cardinality(r) <= i - 1
        BY <1>1, <2>3, <4>2
      <4>4. f[i - 1][r] = Sum(f[i - 1], r)
        <5> HIDE DEF Sum, r
        <5>1. QED BY <1>11, <4>1, <4>3
      <4>5. f[i][r] = Sum(f[i - 1], r)
        <5> HIDE DEF Sum, r
        <5>1. QED BY <2>2, <4>1
      <4>6. f[i][s] = fun[pick(s)] + f[i - 1][r]
        BY <2>2, <3>2
      <4>7. Sum(f[i], s) = fun[pick(s)] + f[i][r]
        BY <3>2
      <4> HIDE DEF Sum, r, pick
      <4>8. QED BY <4>4, <4>5, <4>6, <4>7
    <3>3. QED BY <3>1, <3>2
  <2> HIDE DEF Sum
  <2>4. QED BY <2>0, <2>3
<1>12. n \in P
  <2>1. P \in SUBSET Nat
    OBVIOUS
  <2> HIDE DEF P, n
  <2>2. 0..n \subseteq P
    BY <1>1, <1>10, <1>11, <2>1, Upward
  <2>3. QED BY <1>1, <2>2
<1>13. f[n] \in T /\ \A s \in SUBSET S : f[n][s] = Sum(f[n], s)
  <2>1. f[n] \in T
    BY <1>1, <1>9
  <2>2. \A s \in SUBSET S : Cardinality(s) <= n
    BY <1>1
  <2> HIDE DEF Sum
  <2>3. QED BY <1>12, <2>1, <2>2
<1> DEFINE Fits(g) == g = [s \in SUBSET S |-> Sum(g, s)]
           it == CHOOSE g : Fits(g)
<1>14. Fits(f[n])
  <2> HIDE DEF Sum
  <2>1. QED BY <1>13 DEF T
<1>15. Fits(it)
  <2> HIDE DEF Fits
  <2>1. QED BY <1>14
<1>16. SumFunction(fun) = it[S]
  <2>1. DOMAIN fun = S
    OBVIOUS
  <2>2. QED BY <2>1 DEF SumFunction, SumFunctionOnSet, FoldFunctionOnSet, MapThenFoldSet
<1>17. \A s \in SUBSET S : it[s] = Sum(it, s)
  <2>1. it = [s \in SUBSET S |-> Sum(it, s)]
    BY <1>15
  <2> HIDE DEF Sum, it
  <2>2. QED BY <2>1
<1> HIDE DEF it
<1> DEFINE Q == {i \in 0..n : \A s \in SUBSET S : Cardinality(s) <= i => it[s] \in Nat}
<1>18. 0 \in Q
  <2>1. ASSUME NEW s \in SUBSET S, Cardinality(s) <= 0 PROVE it[s] \in Nat
    <3>1. Cardinality(s) = 0
      BY <1>1, <2>1
    <3>2. s = {}
      BY <1>1, <3>1, FS_EmptySet
    <3>3. QED BY <1>17, <3>2
  <2>2. QED BY <1>1, <2>1
<1>19. ASSUME NEW i \in 1..n, i - 1 \in Q PROVE i \in Q
  <2>0. i \in 0..n
    BY <1>1
  <2>1. ASSUME NEW s \in SUBSET S, Cardinality(s) <= i PROVE it[s] \in Nat
    <3>1. CASE s = {}
      <4>1. it[s] = Sum(it, s)
        <5> HIDE DEF Sum
        <5>1. QED BY <1>17
      <4>2. Sum(it, s) = 0
        BY <3>1
      <4> HIDE DEF Sum
      <4>3. QED BY <4>1, <4>2
    <3>2. CASE s # {}
      <4> DEFINE r == s \ {pick(s)}
      <4>1. pick(s) \in s /\ pick(s) \in S /\ r \in SUBSET S
        BY <1>2, <3>2
      <4>2. Cardinality(r) = Cardinality(s) - 1
        <5> HIDE DEF pick
        <5>1. QED BY <1>1, <4>1, FS_RemoveElement
      <4>3. Cardinality(r) <= i - 1
        BY <1>1, <2>1, <4>2
      <4>4. it[r] \in Nat
        <5> HIDE DEF r
        <5>1. QED BY <1>19, <4>1, <4>3
      <4>5. it[s] = fun[pick(s)] + it[r]
        BY <1>17, <3>2
      <4> HIDE DEF r, pick
      <4>6. QED BY <4>1, <4>4, <4>5
    <3>3. QED BY <3>1, <3>2
  <2>2. QED BY <2>0, <2>1
<1>20. n \in Q
  <2>1. Q \in SUBSET Nat
    OBVIOUS
  <2> HIDE DEF Q, n
  <2>2. 0..n \subseteq Q
    BY <1>1, <1>18, <1>19, <2>1, Upward
  <2>3. QED BY <1>1, <2>2
<1>21. it[S] \in Nat
  <2>1. n <= n /\ S \in SUBSET S
    BY <1>1
  <2>2. QED BY <1>20, <2>1
<1>22. QED BY <1>16, <1>21

\* An overlap of token sets is a fraction.
LEMMA OverlapIsFraction ==
  ASSUME NEW s, NEW t, IsFiniteSet(s), IsFiniteSet(t), t # {}
  PROVE  IsFraction(Overlap(s, t)) /\ Overlap(s, t).num = Cardinality(s \intersect t)
         /\ Overlap(s, t).den = Cardinality(s \union t)
<1>1. IsFiniteSet(s \intersect t) /\ IsFiniteSet(s \union t) /\ s \union t # {}
  BY FS_Intersection, FS_Union
<1>2. /\ Cardinality(s \intersect t) \in Nat /\ Cardinality(s \union t) \in Nat
      /\ Cardinality(s \union t) # 0
  BY <1>1, FS_CardinalityType, FS_EmptySet
<1>3. QED BY <1>2 DEF IsFraction, Overlap

\* The score of a text is a fraction, what is suggested is one of the texts of the
\* target, and no text of the target has more in common with the one at hand.
LEMMA ScentScoreIsBest ==
  ASSUME NEW anchor \in DOMAIN Texts, NEW cands \in Seq(DOMAIN Texts), cands # <<>>
  PROVE  LET s == ScentScore(anchor, cands) IN
         /\ IsFraction(s.score)
         /\ \E i \in 1..Len(cands) : s.suggestion = cands[i]
         /\ \A i \in 1..Len(cands) :
              ~Texts[anchor].free /\ Tokens(anchor) # {} /\ Tokens(cands[i]) # {}
              => ~More(Overlap(Tokens(anchor), Tokens(cands[i])), s.score)
<1> DEFINE n == Len(cands)
           scored == {i \in DOMAIN cands : Tokens(cands[i]) # {}}
           Of(i) == Overlap(Tokens(anchor), Tokens(cands[i]))
           R == {p \in scored \X scored : More(Of(p[1]), Of(p[2])) \/ (~More(Of(p[2]), Of(p[1])) /\ p[1] < p[2])}
           Best(i) == \A k \in scored : ~More(Of(k), Of(i)) /\ (k < i => More(Of(i), Of(k)))
           s == ScentScore(anchor, cands)
<1>1. n \in Nat /\ n # 0 /\ DOMAIN cands = 1..n /\ \A i \in 1..n : cands[i] \in DOMAIN Texts
  OBVIOUS
<1>2. scored \subseteq 1..n /\ IsFiniteSet(scored)
  <2>1. scored \subseteq 1..n
    BY <1>1
  <2>2. IsFiniteSet(1..n)
    BY <1>1, FS_Interval
  <2> HIDE DEF scored
  <2>3. QED BY <2>1, <2>2, FS_Subset
<1>3. ASSUME NEW i \in scored PROVE IsFraction(Of(i))
  <2>1. cands[i] \in DOMAIN Texts /\ Tokens(cands[i]) # {}
    BY <1>1
  <2>2. IsFiniteSet(Tokens(anchor)) /\ IsFiniteSet(Tokens(cands[i]))
    BY <2>1, TextsAssumption DEF Tokens
  <2>3. QED BY <2>1, <2>2, OverlapIsFraction
<1>4. \A i \in 1..n : Tokens(cands[i]) # {} => i \in scored
  BY <1>1
<1> HIDE DEF scored, Of
<1>5. ASSUME scored # {} PROVE \E i \in scored : Best(i)
  <2>1. \A i, k \in scored : <<i, k>> \in R <=> (More(Of(i), Of(k)) \/ (~More(Of(k), Of(i)) /\ i < k))
    OBVIOUS
  <2>2. \A i \in scored : i \in Nat
    BY <1>1, <1>2
  <2>3. ASSUME NEW i \in scored, NEW j \in scored, NEW k \in scored
        PROVE  /\ ~More(Of(i), Of(i))
               /\ More(Of(i), Of(j)) => ~More(Of(j), Of(i))
               /\ More(Of(i), Of(j)) /\ ~More(Of(k), Of(j)) => More(Of(i), Of(k))
               /\ ~More(Of(j), Of(i)) /\ More(Of(j), Of(k)) => More(Of(i), Of(k))
               /\ More(Of(i), Of(j)) /\ More(Of(j), Of(k)) => More(Of(i), Of(k))
               /\ ~More(Of(j), Of(i)) /\ ~More(Of(k), Of(j)) => ~More(Of(k), Of(i))
    BY <1>3, MoreOrders
  <2>4. Irreflexive(R)
    <3>1. \A x : <<x, x>> \in R => x \in scored
      OBVIOUS
    <3>2. \A i \in scored : ~(i < i)
      BY <2>2
    <3> HIDE DEF R
    <3>3. QED BY <2>1, <2>3, <3>1, <3>2 DEF Irreflexive
  <2> HIDE DEF R
  <2>5. Transitive(scored, R)
    <3> SUFFICES ASSUME NEW i \in scored, NEW j \in scored, NEW k \in scored,
                        <<i, j>> \in R, <<j, k>> \in R
                 PROVE  <<i, k>> \in R
      BY DEF Transitive
    <3>1. i < j /\ j < k => i < k
      BY <2>2
    <3>2. QED BY <2>1, <2>3, <3>1
  <2>6. PICK i \in scored : \A k \in scored : <<k, i>> \notin R
    BY <1>2, <1>5, <2>4, <2>5, FirstOne
  <2>7. ASSUME NEW k \in scored PROVE ~More(Of(k), Of(i)) /\ (k < i => More(Of(i), Of(k)))
    <3>1. <<k, i>> \notin R
      BY <2>6
    <3>2. ~(More(Of(k), Of(i)) \/ (~More(Of(i), Of(k)) /\ k < i))
      BY <2>1, <3>1
    <3>3. QED BY <3>2
  <2>8. QED BY <2>7
<1>6. \/ scored = {} \/ Texts[anchor].free \/ Tokens(anchor) = {}
      \/ /\ (CHOOSE i \in scored : Best(i)) \in scored /\ Best(CHOOSE i \in scored : Best(i))
         /\ s = [score |-> Of(CHOOSE i \in scored : Best(i)),
                 suggestion |-> cands[CHOOSE i \in scored : Best(i)]]
  <2> SUFFICES ASSUME scored # {}, ~Texts[anchor].free, Tokens(anchor) # {}
               PROVE  /\ (CHOOSE i \in scored : Best(i)) \in scored /\ Best(CHOOSE i \in scored : Best(i))
                      /\ s = [score |-> Of(CHOOSE i \in scored : Best(i)),
                              suggestion |-> cands[CHOOSE i \in scored : Best(i)]]
    OBVIOUS
  <2>1. (CHOOSE i \in scored : Best(i)) \in scored /\ Best(CHOOSE i \in scored : Best(i))
    <3> HIDE DEF Best
    <3>1. QED BY <1>5
  <2>2. s = [score |-> Of(CHOOSE i \in scored : Best(i)),
             suggestion |-> cands[CHOOSE i \in scored : Best(i)]]
    BY Zenon DEF ScentScore, scored, Of
  <2>3. QED BY <2>1, <2>2
<1>7. \/ s = [score |-> [num |-> 0, den |-> 1], suggestion |-> Head(cands)]
      \/ ~(scored = {} \/ Texts[anchor].free \/ Tokens(anchor) = {})
  BY Zenon DEF ScentScore, scored
<1> HIDE DEF s, Best
<1>8. CASE scored = {} \/ Texts[anchor].free \/ Tokens(anchor) = {}
  <2>1. s = [score |-> [num |-> 0, den |-> 1], suggestion |-> Head(cands)]
    BY <1>7, <1>8
  <2>2. s.score.num = 0 /\ s.score.den = 1 /\ s.suggestion = Head(cands)
    BY <2>1
  <2>3. Head(cands) = cands[1] /\ 1 \in 1..n
    BY <1>1
  <2>4. IsFraction(s.score)
    BY <2>2 DEF IsFraction
  <2>5. QED BY <1>4, <1>8, <2>2, <2>3, <2>4 DEF s
<1>9. CASE ~(scored = {} \/ Texts[anchor].free \/ Tokens(anchor) = {})
  <2> DEFINE b == CHOOSE i \in scored : Best(i)
  <2>1. b \in scored /\ Best(b) /\ s = [score |-> Of(b), suggestion |-> cands[b]]
    BY <1>6, <1>9
  <2> HIDE DEF b
  <2>2. s.score = Of(b) /\ s.suggestion = cands[b]
    BY <2>1
  <2>3. b \in 1..n
    BY <1>2, <2>1
  <2>4. \A i \in scored : ~More(Of(i), Of(b))
    BY <2>1 DEF Best
  <2>5. \A i \in 1..n : Tokens(cands[i]) # {} => ~More(Of(i), s.score)
    BY <1>4, <2>2, <2>4
  <2>6. IsFraction(s.score)
    BY <1>3, <2>1, <2>2
  <2>7. QED BY <2>2, <2>3, <2>5, <2>6 DEF s, Of
<1>10. QED BY <1>8, <1>9

\* The texts of a document are among those the tokens are known of.
LEMMA CorpusTexts ==
  ASSUME Given, NEW d \in Docs
  PROVE  /\ corpus[d].title \in DOMAIN Texts /\ corpus[d].id \in DOMAIN Texts
         /\ \A i \in 1..Len(Sections(d)) :
              Sections(d)[i].text \in DOMAIN Texts /\ Sections(d)[i].slug \in DOMAIN Collation
<1>1. IsCorpus(corpus)
  BY DEF Given
<1>2. /\ {corpus[d].title, corpus[d].id} \subseteq DOMAIN Texts
      /\ \A i \in DOMAIN Sections(d) : IsSection(Sections(d), i)
  BY <1>1 DEF IsCorpus, Docs, Sections
<1>3. DOMAIN Sections(d) = 1..Len(Sections(d))
  BY CorpusFacts
<1>4. QED BY <1>2, <1>3 DEF IsSection

\* So are its headings.
LEMMA HeadingTextsTyped ==
  ASSUME Given, NEW d \in Docs
  PROVE  HeadingTexts(d) \in Seq(DOMAIN Texts)
<1> DEFINE written == {i \in DOMAIN Sections(d) : Sections(d)[i].text # ""}
           n == Cardinality(written)
<1>1. DOMAIN Sections(d) = 1..Len(Sections(d)) /\ Len(Sections(d)) \in Nat
  BY CorpusFacts
<1>2. written \in SUBSET Nat /\ IsFiniteSet(written) /\ written \subseteq 1..Len(Sections(d))
  <2>1. written \subseteq 1..Len(Sections(d))
    BY <1>1
  <2>2. IsFiniteSet(1..Len(Sections(d)))
    BY <1>1, FS_Interval
  <2> HIDE DEF written
  <2>3. IsFiniteSet(written)
    BY <2>1, <2>2, FS_Subset
  <2>4. 1..Len(Sections(d)) \subseteq Nat
    OBVIOUS
  <2>5. QED BY <2>1, <2>3, <2>4
<1>3. HeadingTexts(d) = [k \in 1..n |-> Sections(d)[Sorted(written)[k]].text]
  BY DEF HeadingTexts
<1> HIDE DEF written
<1>4. n \in Nat /\ \A k \in 1..n : Sorted(written)[k] \in written
  BY <1>2, SortedOf
<1>5. \A k \in 1..n : Sections(d)[Sorted(written)[k]].text \in DOMAIN Texts
  BY <1>2, <1>4, CorpusTexts
<1> HIDE DEF n
<1>6. HeadingTexts(d) \in [1..n -> DOMAIN Texts]
  BY <1>3, <1>5
<1>7. QED BY <1>4, <1>6

\* So are the texts a link is compared with, of which there is one at least.
LEMMA CandidatesTyped ==
  ASSUME Given, NEW d \in Docs, NEW s
  PROVE  ScentCandidates(d, s) \in Seq(DOMAIN Texts) /\ ScentCandidates(d, s) # <<>>
<1>1. HeadingTexts(d) \in Seq(DOMAIN Texts)
  BY HeadingTextsTyped
<1>2. Title(d) \in DOMAIN Texts
  <2>1. HeadingTexts(d) # <<>> => Head(HeadingTexts(d)) \in DOMAIN Texts
    BY <1>1
  <2>2. QED BY <2>1, CorpusTexts DEF Title
<1>3. HeadingTextBySlug(d, s) \in DOMAIN Texts
  <2> DEFINE at == {i \in DOMAIN Sections(d) : Sections(d)[i].slug = s}
  <2>1. HeadingTextBySlug(d, s) = IF at = {} THEN "" ELSE Sections(d)[Min(at)].text
    BY DEF HeadingTextBySlug
  <2>2. at \in SUBSET Nat /\ at \subseteq 1..Len(Sections(d))
    BY CorpusFacts
  <2> HIDE DEF at
  <2>3. at # {} => Min(at) \in at
    BY <2>2, MinOf
  <2>4. "" \in DOMAIN Texts
    BY InputsAssumption
  <2>5. QED BY <2>1, <2>2, <2>3, <2>4, CorpusTexts
<1> DEFINE t == Title(d)
           h == HeadingTexts(d)
           b == HeadingTextBySlug(d, s)
<1> HIDE DEF t, h, b
<1>4. /\ <<t>> \o h \in Seq(DOMAIN Texts) /\ <<t>> \o h # <<>>
      /\ <<b, t>> \in Seq(DOMAIN Texts) /\ <<b, t>> # <<>>
      /\ <<t>> \in Seq(DOMAIN Texts) /\ <<t>> # <<>>
  <2>1. t \in DOMAIN Texts /\ b \in DOMAIN Texts /\ h \in Seq(DOMAIN Texts)
    BY <1>1, <1>2, <1>3 DEF t, b, h
  <2>2. <<t>> \in Seq(DOMAIN Texts) /\ <<b, t>> \in Seq(DOMAIN Texts) /\ <<t>> # <<>> /\ <<b, t>> # <<>>
    BY <2>1
  <2>3. <<t>> \o h \in Seq(DOMAIN Texts) /\ Len(<<t>> \o h) = Len(<<t>>) + Len(h)
    BY <2>1, <2>2, Joined
  <2>4. Len(<<t>>) = 1 /\ Len(h) \in Nat
    BY <2>1
  <2>5. <<t>> \o h # <<>>
    <3>1. Len(<<t>> \o h) # 0
      BY <2>3, <2>4
    <3>2. Len(<<>>) = 0
      OBVIOUS
    <3>3. QED BY <3>1, <3>2
  <2>6. QED BY <2>2, <2>3, <2>5
<1>5. \/ ScentCandidates(d, s) = <<t>> \o h
      \/ ScentCandidates(d, s) = <<b, t>>
      \/ ScentCandidates(d, s) = <<t>>
  BY Zenon DEF ScentCandidates, t, h, b
<1>6. QED BY <1>4, <1>5

\* So is what is compared with them.
LEMMA EffectiveAnchorTyped ==
  ASSUME NEW t \in DOMAIN Texts, NEW d
  PROVE  EffectiveAnchor(t, d) \in DOMAIN Texts
<1>1. Texts[t].after \in DOMAIN Texts
  BY TextsAssumption
<1>2. EffectiveAnchor(t, d) \in {t, Texts[t].after}
  BY Zenon DEF EffectiveAnchor
<1>3. QED BY <1>1, <1>2

\* A link without scent is one somebody wrote; its score and what it is suggested
\* to say follow from its text and its target.
LEMMA ScentOf ==
  ASSUME IsBuilt, NEW f \in ComputeScent
  PROVE  /\ f.source \in Docs /\ f.line \in Int /\ f.text \in DOMAIN Texts \intersect DOMAIN Collation
         /\ f.target[1] \in Docs /\ f.target[2] \in DOMAIN Collation /\ f.target = <<f.target[1], f.target[2]>>
         /\ \E raw \in raws : raw.origin = f.source /\ raw.line = f.line /\ raw.text = f.text
         /\ LET s == ScentScore(EffectiveAnchor(f.text, f.target[1]), ScentCandidates(f.target[1], f.target[2])) IN
            f.score = s.score /\ f.suggestion = s.suggestion
<1>1. PICK e \in graph.edges :
        /\ e.kind = "reference" /\ e.line > 0
        /\ f = [source |-> e.from[1], target |-> e.to, line |-> e.line, text |-> e.text,
                suggestion |-> Scored(e).suggestion, score |-> Scored(e).score]
  BY DEF ComputeScent
<1>2. /\ f.source = e.from[1] /\ f.target = e.to /\ f.line = e.line /\ f.text = e.text
      /\ f.suggestion = Scored(e).suggestion /\ f.score = Scored(e).score
  BY <1>1
<1>3. Given /\ e \in References
  <2>1. e \in Trees \union References /\ Given
    BY DEF IsBuilt
  <2>2. IsBuilt /\ {x \in graph.edges : x.kind = "contains"} = Trees
    BY TreeIsTrees
  <2>3. QED BY <1>1, <2>1, <2>2
<1>4. PICK raw \in raws : e.from[1] = raw.origin /\ e.line = raw.line /\ e.text = raw.text
  BY <1>1, <1>3, ReferenceEdges
<1>5. raw.origin \in Docs /\ raw.line \in Int /\ raw.text \in DOMAIN Texts \intersect DOMAIN Collation
  BY <1>3 DEF Given, IsRaw, Docs
<1>6. e.to \in GraphNodes
  BY <1>3, ReferenceEdges
<1>7. PICK d \in Docs : \E s \in Headings(d) \union {""} : e.to = <<d, s>>
  BY <1>6 DEF GraphNodes, DocNode, SectionNode
<1>8. PICK s \in Headings(d) \union {""} : e.to = <<d, s>>
  BY <1>7
<1>9. s \in DOMAIN Collation
  <2>1. "" \in DOMAIN Collation
    BY InputsAssumption
  <2>2. CASE s \in Headings(d)
    <3>1. PICK i \in DOMAIN Sections(d) : s = Sections(d)[i].slug
      BY <2>2 DEF Headings
    <3>2. i \in 1..Len(Sections(d))
      BY <1>3, CorpusFacts
    <3>3. QED BY <1>3, <3>1, <3>2, CorpusTexts
  <2>3. QED BY <2>1, <2>2
<1>10. f.target = <<d, s>> /\ <<d, s>>[1] = d /\ <<d, s>>[2] = s
  BY <1>2, <1>8
<1>11. Scored(e) = ScentScore(EffectiveAnchor(f.text, f.target[1]), ScentCandidates(f.target[1], f.target[2]))
  BY <1>2 DEF Scored
<1>12. f.target[1] = d /\ f.target[2] = s
  BY <1>10
<1>13. QED BY <1>2, <1>4, <1>5, <1>9, <1>10, <1>11, <1>12

\* A score is a fraction.
LEMMA ScentScoreTyped ==
  ASSUME IsBuilt, NEW f \in ComputeScent
  PROVE  IsFraction(f.score)
<1> DEFINE a == EffectiveAnchor(f.text, f.target[1])
           c == ScentCandidates(f.target[1], f.target[2])
<1>1. a \in DOMAIN Texts
  BY ScentOf, EffectiveAnchorTyped
<1>2. c \in Seq(DOMAIN Texts) /\ c # <<>>
  BY ScentOf, CandidatesTyped DEF IsBuilt
<1>3. f.score = ScentScore(a, c).score
  BY ScentOf
<1> HIDE DEF a, c
<1>4. QED BY <1>1, <1>2, <1>3, ScentScoreIsBest

\* What is suggested has everything in common with itself.
LEMMA ScentHolds ==
  ASSUME BaseInv, ReportInv
  PROVE  ScentIsActionable
<1> SUFFICES ASSUME Done, NEW f \in report.scent
             PROVE  /\ \E raw \in raws : raw.origin = f.source /\ raw.line = f.line /\ raw.text = f.text
                    /\ LET cands == ScentCandidates(f.target[1], f.target[2])
                           again == ScentScore(EffectiveAnchor(f.suggestion, f.target[1]), cands) IN
                       Low(again.score) =>
                         \/ Texts[f.suggestion].free \/ Tokens(f.suggestion) = {}
                         \/ EffectiveAnchor(f.suggestion, f.target[1]) # f.suggestion
  BY DEF ScentIsActionable
<1>1. IsBuilt
  BY BuiltGraph DEF Done
<1>2. f \in ComputeScent
  BY DEF ReportInv, Done
<1> DEFINE cands == ScentCandidates(f.target[1], f.target[2])
           d == f.target[1]
           again == ScentScore(EffectiveAnchor(f.suggestion, d), cands)
<1>3. cands \in Seq(DOMAIN Texts) /\ cands # <<>>
  BY <1>1, <1>2, ScentOf, CandidatesTyped DEF IsBuilt
<1>4. PICK i \in 1..Len(cands) : f.suggestion = cands[i]
  <2> DEFINE a == EffectiveAnchor(f.text, d)
  <2>1. a \in DOMAIN Texts
    BY <1>1, <1>2, ScentOf, EffectiveAnchorTyped
  <2>2. f.suggestion = ScentScore(a, cands).suggestion
    BY <1>1, <1>2, ScentOf
  <2> HIDE DEF a, cands
  <2>3. QED BY <1>3, <2>1, <2>2, ScentScoreIsBest
<1>5. ASSUME ~Texts[f.suggestion].free, Tokens(f.suggestion) # {},
             EffectiveAnchor(f.suggestion, d) = f.suggestion
      PROVE  ~Low(again.score)
  <2> DEFINE t == f.suggestion
             T == Tokens(t)
  <2>1. t \in DOMAIN Texts /\ t = cands[i]
    BY <1>3, <1>4
  <2>2. again = ScentScore(t, cands)
    BY <1>5
  <2> HIDE DEF cands, t, again
  <2>3. IsFraction(again.score) /\ ~More(Overlap(T, T), again.score)
    <3>1. ~Texts[t].free /\ Tokens(t) # {}
      BY <1>5 DEF t
    <3>2. QED BY <1>3, <2>1, <2>2, <3>1, ScentScoreIsBest
  <2>4. IsFiniteSet(T) /\ T # {}
    BY <1>5, <2>1, TextsAssumption DEF Tokens, t
  <2> HIDE DEF T
  <2>5. T \intersect T = T /\ T \union T = T
    OBVIOUS
  <2>6. /\ Overlap(T, T).num = Cardinality(T) /\ Overlap(T, T).den = Cardinality(T)
    BY <2>4, <2>5, OverlapIsFraction
  <2>7. Cardinality(T) \in Nat \ {0}
    BY <2>4, FS_CardinalityType, FS_EmptySet
  <2> DEFINE k == Cardinality(T)
             x == again.score.num
             y == again.score.den
  <2>8. k \in Nat \ {0} /\ x \in Nat /\ y \in Nat \ {0} /\ ~(k * y > x * k)
    <3>1. ~(k * y > x * k)
      BY <2>3, <2>6 DEF More
    <3>2. QED BY <2>3, <2>7, <3>1 DEF IsFraction
  <2> HIDE DEF k, x, y
  <2>9. ~(y > x)
    <3>1. y > x <=> y * k > x * k
      BY <2>8, TimesKeeps
    <3>2. k * y = y * k
      BY <2>8
    <3>3. QED BY <2>8, <3>1, <3>2
  <2>10. ~(5 * x < y)
    BY <2>8, <2>9
  <2>11. QED BY <2>10 DEF Low, x, y
<1>6. \E raw \in raws : raw.origin = f.source /\ raw.line = f.line /\ raw.text = f.text
  BY <1>1, <1>2, ScentOf
<1>7. QED BY <1>5, <1>6

-----------------------------------------------------------------------------
(* What a finding of a report is about, by its kind.                       *)

OfReference(f) ==
  \/ f.kind \in {"broken-link", "broken-anchor"} /\ f.severity = Error
  \/ f.kind \in {"ambiguous", "dead-link"} /\ f.severity = Warning

OfTier(f, kind, severity, docs) ==
  f.kind = kind /\ f.severity = severity /\ \E d \in docs : f = Finding(kind, severity, d, 0) /\ f.doc = d

OfDocument(f) ==
  \/ OfTier(f, "orphan", Warning, Isolated)
  \/ OfTier(f, "unreachable", Warning, Unreachable)
  \/ OfTier(f, "under-linked", StructureSeverity, UnderLinked)
  \/ OfTier(f, "dead-end", StructureSeverity, DeadEnd)
  \/ OfTier(f, "articulation-point", Info, ab.aps)
  \/ OfTier(f, "far-from-root", Info, FarFromRoot)

OfPair(f, kind, pairs) ==
  f.kind = kind /\ f.severity = Info /\ \E p \in pairs : f.doc = p[1] /\ f.other = p[2]

OfLink(f, suggestions) ==
  /\ f.kind = "suggested-link" /\ f.severity = Info
  /\ \E s \in suggestions :
       f = [kind |-> "suggested-link", severity |-> Info, doc |-> s.a, line |-> 0,
            at |-> [target |-> <<>>, frag |-> "", text |-> ""], other |-> s.b,
            score |-> [num |-> s.adamicAdar, den |-> 1], shared |-> s.shared]

OfScent(f, scents) ==
  /\ f.kind = "low-scent-anchor" /\ f.severity = Info
  /\ \E s \in scents :
       f = [kind |-> "low-scent-anchor", severity |-> Info, doc |-> s.source, line |-> s.line,
            at |-> [target |-> Path(s.target[1]), frag |-> s.target[2], text |-> s.text],
            other |-> s.target[1], score |-> s.score, shared |-> 0]

OfOKF(f) ==
  /\ config.okf /\ ~Conformant /\ f.severity = Error
  /\ f.kind \in {"okf-missing-frontmatter", "okf-missing-type", "okf-reserved-file-structure"}

\* The findings of references are errors and warnings.
LEMMA ReferenceKinds ==
  ASSUME NEW f \in FindingsFromReferences \union DeadLinkFindings
  PROVE  OfReference(f)
<1>1. \A r, k, s : ReferenceFinding(r, k, s).kind = k /\ ReferenceFinding(r, k, s).severity = s
  BY DEF ReferenceFinding, Finding
<1>3. CASE f \in FindingsFromReferences
  BY <1>1, <1>3 DEF FindingsFromReferences, OfReference
<1>4. CASE f \in DeadLinkFindings
  <2>1. PICK r \in refs : f = [ReferenceFinding(r, "dead-link", Warning) EXCEPT !.at.text = ""]
    BY <1>4 DEF DeadLinkFindings
  <2>2. f.kind = "dead-link" /\ f.severity = Warning
    BY <2>1 DEF ReferenceFinding, Finding
  <2>3. QED BY <2>2 DEF OfReference
<1>5. QED BY <1>3, <1>4

\* The findings of documents, by kind.
LEMMA TierKinds ==
  ASSUME NEW kind, NEW severity, NEW docs, NEW f \in DocumentFindings(kind, severity, docs)
  PROVE  OfTier(f, kind, severity, docs)
<1>1. PICK d \in docs : f = Finding(kind, severity, d, 0)
  BY DEF DocumentFindings
<1>2. f.kind = kind /\ f.severity = severity /\ f.doc = d
  BY <1>1 DEF Finding
<1>3. QED BY <1>1, <1>2 DEF OfTier

\* The findings of pairs, by kind.
LEMMA PairKindsOf ==
  ASSUME NEW kind, NEW pairs, NEW f \in PairFindings(kind, pairs)
  PROVE  OfPair(f, kind, pairs)
<1>1. PICK p \in pairs : f = [Finding(kind, Info, p[1], 0) EXCEPT !.other = p[2]]
  BY DEF PairFindings
<1>2. f.kind = kind /\ f.severity = Info /\ f.doc = p[1] /\ f.other = p[2]
  BY <1>1 DEF Finding
<1>3. QED BY <1>2 DEF OfPair

\* The findings of the OKF rules are errors, and there are some only if a rule is broken.
LEMMA OKFKinds ==
  ASSUME NEW f \in (IF config.okf THEN OKFFindings ELSE {})
  PROVE  OfOKF(f)
<1>1. config.okf /\ f \in OKFFindings
  OBVIOUS
<1>2. \A k, s, d, l : Finding(k, s, d, l).kind = k /\ Finding(k, s, d, l).severity = s
  BY DEF Finding
<1>3. /\ MissingFrontmatter # {} \/ MissingType # {} \/ ReservedStructure # {}
      /\ f.severity = Error
      /\ f.kind \in {"okf-missing-frontmatter", "okf-missing-type", "okf-reserved-file-structure"}
  BY <1>1, <1>2 DEF OKFFindings
<1>4. QED BY <1>1, <1>3 DEF OfOKF, Conformant

\* Every finding of a report is of one of these.
LEMMA ReportKinds ==
  ASSUME NEW g, NEW l, NEW s, NEW f \in AllFindings(g, l, s)
  PROVE  \/ OfReference(f) \/ OfDocument(f)
         \/ OfPair(f, "knowledge-gap", g) \/ OfPair(f, "bridge", {<<Min(b), Max(b)>> : b \in ab.bridges})
         \/ OfLink(f, l) \/ OfScent(f, s) \/ OfOKF(f)
<1> DEFINE links ==
             {[Finding("suggested-link", Info, x.a, 0) EXCEPT
                !.other = x.b, !.shared = x.shared, !.score = [num |-> x.adamicAdar, den |-> 1]] : x \in l}
           scents ==
             {[Finding("low-scent-anchor", Info, x.source, x.line) EXCEPT
                !.at = [target |-> Path(x.target[1]), frag |-> x.target[2], text |-> x.text],
                !.other = x.target[1], !.score = x.score] : x \in s}
           okf == IF config.okf THEN OKFFindings ELSE {}
           bridges == {<<Min(b), Max(b)>> : b \in ab.bridges}
<1>1. \/ f \in FindingsFromReferences \union DeadLinkFindings
      \/ f \in DocumentFindings("orphan", Warning, Isolated)
      \/ f \in DocumentFindings("unreachable", Warning, Unreachable)
      \/ f \in DocumentFindings("under-linked", StructureSeverity, UnderLinked)
      \/ f \in DocumentFindings("dead-end", StructureSeverity, DeadEnd)
      \/ f \in DocumentFindings("articulation-point", Info, ab.aps)
      \/ f \in DocumentFindings("far-from-root", Info, FarFromRoot)
      \/ f \in PairFindings("knowledge-gap", g)
      \/ f \in PairFindings("bridge", bridges)
      \/ f \in links \/ f \in scents \/ f \in okf
  <2>1. \/ f \in FindingsFromReferences \/ f \in FindingsFromMetrics(g, l, s)
        \/ f \in DeadLinkFindings \/ f \in okf
    BY DEF AllFindings
  <2> HIDE DEF okf
  <2>2. FindingsFromMetrics(g, l, s) =
          DocumentFindings("orphan", Warning, Isolated)
          \union DocumentFindings("unreachable", Warning, Unreachable)
          \union DocumentFindings("under-linked", StructureSeverity, UnderLinked)
          \union DocumentFindings("dead-end", StructureSeverity, DeadEnd)
          \union DocumentFindings("articulation-point", Info, ab.aps)
          \union DocumentFindings("far-from-root", Info, FarFromRoot)
          \union PairFindings("knowledge-gap", g)
          \union PairFindings("bridge", bridges)
          \union links \union scents
    BY Zenon DEF FindingsFromMetrics
  <2> HIDE DEF links, scents, bridges
  <2>3. QED BY <2>1, <2>2
<1>2. ASSUME f \in links PROVE OfLink(f, l)
  <2>1. PICK x \in l : f = [Finding("suggested-link", Info, x.a, 0) EXCEPT
                !.other = x.b, !.shared = x.shared, !.score = [num |-> x.adamicAdar, den |-> 1]]
    BY <1>2
  <2>2. f = [kind |-> "suggested-link", severity |-> Info, doc |-> x.a, line |-> 0,
            at |-> [target |-> <<>>, frag |-> "", text |-> ""], other |-> x.b,
            score |-> [num |-> x.adamicAdar, den |-> 1], shared |-> x.shared]
    BY <2>1 DEF Finding
  <2>3. f.kind = "suggested-link" /\ f.severity = Info
    BY <2>2
  <2>4. QED BY <2>2, <2>3 DEF OfLink
<1>3. ASSUME f \in scents PROVE OfScent(f, s)
  <2>1. PICK x \in s : f = [Finding("low-scent-anchor", Info, x.source, x.line) EXCEPT
                !.at = [target |-> Path(x.target[1]), frag |-> x.target[2], text |-> x.text],
                !.other = x.target[1], !.score = x.score]
    BY <1>3
  <2>2. f = [kind |-> "low-scent-anchor", severity |-> Info, doc |-> x.source, line |-> x.line,
            at |-> [target |-> Path(x.target[1]), frag |-> x.target[2], text |-> x.text],
            other |-> x.target[1], score |-> x.score, shared |-> 0]
    BY <2>1 DEF Finding
  <2>3. f.kind = "low-scent-anchor" /\ f.severity = Info
    BY <2>2
  <2>4. QED BY <2>2, <2>3 DEF OfScent
<1>4. f \in okf => OfOKF(f)
  BY OKFKinds
<1> HIDE DEF links, scents, okf, bridges
<1>5. QED BY <1>1, <1>2, <1>3, <1>4, ReferenceKinds, TierKinds, PairKindsOf DEF OfDocument, bridges

\* What the report is known to hold.
LEMMA ReportHolds ==
  ASSUME NEW g, NEW l, NEW s
  PROVE  /\ DocumentFindings("orphan", Warning, Isolated) \subseteq AllFindings(g, l, s)
         /\ DocumentFindings("unreachable", Warning, Unreachable) \subseteq AllFindings(g, l, s)
         /\ config.okf => OKFFindings \subseteq AllFindings(g, l, s)
BY DEF AllFindings, FindingsFromMetrics

\* What is suggested is one of the candidates.
LEMMA Suggested ==
  PredictLinks.suggestions \subseteq Candidates
BY DEF PredictLinks

\* A suggested link joins two documents that are not linked and have a neighbour in common.
LEMMA SuggestionOf ==
  ASSUME IsBuilt, NEW x \in Candidates
  PROVE  /\ x.a \in Docs /\ x.b \in Docs /\ x.a < x.b /\ ~Linked(x.a, x.b)
         /\ x = Suggestion(x.a, x.b)
         /\ \E c \in Docs : x.a \in Neighbours(c) /\ x.b \in Neighbours(c)
<1>1. Docs \subseteq Nat /\ IsFiniteSet(Docs) /\ config.minShared \in Nat \ {0}
  BY CorpusFacts DEF IsBuilt, Given, IsConfig
<1>2. x \in Candidates
  OBVIOUS
<1>3. PICK p \in Docs \X Docs : /\ p[1] < p[2] /\ ~Linked(p[1], p[2])
                                /\ Cardinality(Shared(p[1], p[2])) >= config.minShared
                                /\ x = Suggestion(p[1], p[2])
  BY <1>2 DEF Candidates
<1>4. p[1] \in Docs /\ p[2] \in Docs
  OBVIOUS
<1>5. x.a = p[1] /\ x.b = p[2]
  BY <1>3 DEF Suggestion
<1>6. Shared(p[1], p[2]) # {}
  <2>1. Cardinality({}) = 0
    BY FS_EmptySet
  <2>2. QED BY <1>1, <1>3, <2>1
<1>7. PICK c \in Docs : {p[1], p[2]} \subseteq Neighbours(c)
  BY <1>6 DEF Shared
<1>8. QED BY <1>3, <1>4, <1>5, <1>7

\* A weak component is a class of documents with one root, and has a least member.
LEMMA WeakLeast ==
  ASSUME Given, Unites, NEW c \in WCC
  PROVE  \E r \in Docs : /\ c = {d \in Docs : Find(uf.parent, d) = r}
                         /\ Min(c) \in c /\ Min(c) \in Docs /\ Find(uf.parent, r) = r
<1> DEFINE F(d) == Find(uf.parent, d)
<1>1. Docs \subseteq Nat /\ IsFiniteSet(Docs) /\ IsForest(uf.parent)
  BY CorpusFacts DEF Unites
<1>2. \A d \in Docs : uf.parent[d] = d => F(d) = d
  <2> SUFFICES ASSUME NEW d \in Docs, uf.parent[d] = d PROVE F(d) = d
    OBVIOUS
  <2>1. d \in {d} /\ \A y \in Docs : y \in {d} => uf.parent[y] \in {d}
    OBVIOUS
  <2>2. F(d) \in {d}
    BY <1>1, <2>1, FindOf
  <2>3. QED BY <2>2
<1>3. PICK r \in Docs : uf.parent[r] = r /\ c = {d \in Docs : F(d) = r}
  BY DEF WCC
<1>4. r \in c /\ F(r) = r
  BY <1>2, <1>3
<1>5. c \in SUBSET Nat /\ c # {} /\ c \subseteq Docs
  BY <1>1, <1>3, <1>4
<1>6. Min(c) \in c
  BY <1>5, MinOf
<1>7. QED BY <1>3, <1>4, <1>5, <1>6

\* A knowledge gap joins two documents of different weak components.
LEMMA GapOf ==
  ASSUME Given, Unites, NEW k, NEW p \in DetectGaps(k).gaps
  PROVE  /\ p = <<p[1], p[2]>> /\ p[1] \in Docs /\ p[2] \in Docs
         /\ Find(uf.parent, p[1]) # Find(uf.parent, p[2])
<1> DEFINE F(d) == Find(uf.parent, d)
           kept == {c \in WCC : Cardinality(c) >= IF k < 2 THEN 2 ELSE k}
           gaps == {q \in {<<Min(a), Min(b)>> : a, b \in kept} : q[1] < q[2]}
<1>1. Docs \subseteq Nat /\ IsFiniteSet(Docs) /\ IsForest(uf.parent)
  BY CorpusFacts DEF Unites
<1>3. p \in gaps
  BY DEF DetectGaps
<1>4. PICK a \in kept : \E b \in kept : p = <<Min(a), Min(b)>> /\ p[1] < p[2]
  BY <1>3
<1>5. PICK b \in kept : p = <<Min(a), Min(b)>> /\ p[1] < p[2]
  BY <1>4
<1>6. p[1] = Min(a) /\ p[2] = Min(b)
  BY <1>5
<1>7. \A c \in WCC : \E r \in Docs : c = {d \in Docs : F(d) = r} /\ Min(c) \in c /\ Min(c) \in Nat
  BY <1>1, WeakLeast
<1>8. a \in WCC /\ b \in WCC
  OBVIOUS
<1> HIDE DEF F
<1>9. PICK r \in Docs : a = {d \in Docs : F(d) = r} /\ Min(a) \in a /\ Min(a) \in Nat
  BY <1>7, <1>8
<1>10. PICK t \in Docs : b = {d \in Docs : F(d) = t} /\ Min(b) \in b /\ Min(b) \in Nat
  BY <1>7, <1>8
<1>11. r # t
  BY <1>5, <1>6, <1>9, <1>10
<1>12. p = <<p[1], p[2]>>
  BY <1>5
<1>13. QED BY <1>6, <1>9, <1>10, <1>11, <1>12 DEF F

\* A bridge is a link.
LEMMA BridgeOf ==
  ASSUME IsBuilt, ab \in Search, NEW p \in {<<Min(b), Max(b)>> : b \in ab.bridges}
  PROVE  \E e \in Links : {p[1], p[2]} = {e[1], e[2]} /\ p[1] \in {e[1], e[2]}
<1>1. Docs \subseteq Nat
  BY CorpusFacts DEF IsBuilt
<1>2. PICK b \in ab.bridges : p = <<Min(b), Max(b)>>
  OBVIOUS
<1>3. p[1] = Min(b) /\ p[2] = Max(b)
  BY <1>2
<1>4. PICK e \in Links : b = {e[1], e[2]}
  BY DEF Search
<1>5. e[1] \in Nat /\ e[2] \in Nat
  BY <1>1 DEF Links
<1>6. b \in SUBSET Nat /\ b # {} /\ IsFiniteSet(b)
  <2>1. IsFiniteSet({e[1], e[2]})
    <3>1. {e[1], e[2]} = {e[1]} \union {e[2]}
      OBVIOUS
    <3>2. IsFiniteSet({e[1]}) /\ IsFiniteSet({e[2]})
      BY FS_Singleton
    <3>3. IsFiniteSet({e[1]} \union {e[2]})
      BY <3>2, FS_Union
    <3>4. QED BY <3>1, <3>3
  <2>2. QED BY <1>4, <1>5, <2>1
<1>7. /\ Min(b) \in b /\ \A y \in b : Min(b) <= y
      /\ Max(b) \in b /\ \A y \in b : y <= Max(b)
  BY <1>6, MinOf, MaxOf
<1>8. {Min(b), Max(b)} = {e[1], e[2]}
  <2> DEFINE u == e[1]
             v == e[2]
             m == Min(b)
             n == Max(b)
  <2>1. m \in {u, v} /\ n \in {u, v} /\ m <= u /\ m <= v /\ u <= n /\ v <= n /\ u \in Nat /\ v \in Nat
    BY <1>4, <1>5, <1>7
  <2> HIDE DEF u, v, m, n
  <2>2. {m, n} = {u, v}
    BY <2>1
  <2>3. QED BY <2>2 DEF u, v, m, n
<1>9. QED BY <1>3, <1>4, <1>7, <1>8

\* A finding of a kind is of that kind for its reason.
LEMMA KindsApart ==
  ASSUME NEW g, NEW l, NEW s, NEW f \in AllFindings(g, l, s)
  PROVE  /\ f.kind = "orphan" => OfTier(f, "orphan", Warning, Isolated)
         /\ f.kind = "unreachable" => OfTier(f, "unreachable", Warning, Unreachable)
         /\ f.kind = "under-linked" => OfTier(f, "under-linked", StructureSeverity, UnderLinked)
         /\ f.kind = "dead-end" => OfTier(f, "dead-end", StructureSeverity, DeadEnd)
         /\ f.kind = "articulation-point" => OfTier(f, "articulation-point", Info, ab.aps)
         /\ f.kind = "far-from-root" => OfTier(f, "far-from-root", Info, FarFromRoot)
         /\ f.kind = "knowledge-gap" => OfPair(f, "knowledge-gap", g)
         /\ f.kind = "bridge" => OfPair(f, "bridge", {<<Min(b), Max(b)>> : b \in ab.bridges})
         /\ f.kind = "suggested-link" => OfLink(f, l)
         /\ f.kind = "low-scent-anchor" => OfScent(f, s)
<1>1. \/ OfReference(f) \/ OfDocument(f)
      \/ OfPair(f, "knowledge-gap", g) \/ OfPair(f, "bridge", {<<Min(b), Max(b)>> : b \in ab.bridges})
      \/ OfLink(f, l) \/ OfScent(f, s) \/ OfOKF(f)
  BY ReportKinds
<1>2. OfReference(f) => f.kind \in {"broken-link", "broken-anchor", "ambiguous", "dead-link"}
  BY DEF OfReference
<1>3. OfOKF(f) => f.kind \in {"okf-missing-frontmatter", "okf-missing-type", "okf-reserved-file-structure"}
  BY DEF OfOKF
<1>4. \A k, v, docs : OfTier(f, k, v, docs) => f.kind = k
  BY DEF OfTier
<1>5. \A k, pairs : OfPair(f, k, pairs) => f.kind = k
  BY DEF OfPair
<1>6. (OfLink(f, l) => f.kind = "suggested-link") /\ (OfScent(f, s) => f.kind = "low-scent-anchor")
  BY DEF OfLink, OfScent
<1>7. QED BY <1>1, <1>2, <1>3, <1>4, <1>5, <1>6 DEF OfDocument

-----------------------------------------------------------------------------
(* Trails.                                                                 *)

\* Every document has a score.
RankInv ==
  /\ \A r \in Ranks : \A d \in Docs : r[d] \in Nat
  /\ stage \in {"trails", "done"} => rank \in [Docs -> Nat]

\* Every document has a score from the ranking on.
LEMMA RankStep ==
  ASSUME RankInv, [Next]_vars
  PROVE  RankInv'
<1>1. Docs' = Docs
  BY DEF Docs, given, Next, vars, ResolveReferences, BuildGraph, StartComponents, WeakStep, WeakDone,
    StrongStep, StrongDone, SearchDistances, SearchPaths, Measure, CriticalSteps, CriticalEnds,
    PageRank, TrailStep, TrailsEnd, Terminating
<1>2. CASE PageRank
  <2>1. PICK r \in Ranks : rank' = [d \in Docs |-> r[d]]
    BY <1>2 DEF PageRank
  <2>2. rank' \in [Docs -> Nat]
    BY <2>1 DEF RankInv
  <2>3. QED BY <1>1, <2>2 DEF RankInv
<1>3. CASE ~PageRank
  <2>1. stage' \in {"trails", "done"} => stage \in {"trails", "done"} /\ rank' = rank
    BY <1>3 DEF Next, vars, search, ResolveReferences, BuildGraph, StartComponents, WeakStep, WeakDone,
      StrongStep, StrongDone, SearchDistances, SearchPaths, Measure, CriticalSteps, CriticalEnds,
      TrailStep, TrailsEnd, Terminating
  <2>2. QED BY <1>1, <2>1 DEF RankInv
<1>4. QED BY <1>2, <1>3

\* A set of documents by score: all of them, once, and none before one that is better.
LEMMA ByRankOf ==
  ASSUME rank \in [Docs -> Nat], Docs \in SUBSET Nat, NEW S \in SUBSET Docs, IsFiniteSet(S)
  PROVE  LET b == ByRank(S)
             n == Cardinality(S) IN
         /\ n \in Nat /\ b \in Seq(S) /\ Len(b) = n
         /\ \A x \in S : \E i \in 1..n : b[i] = x
         /\ \A i, k \in 1..n : b[i] = b[k] => i = k
         /\ \A i, k \in 1..n : i < k => rank[b[i]] >= rank[b[k]]
<1> DEFINE R == {p \in S \X S : Before(p[1], p[2])}
           n == Cardinality(S)
           at == [x \in S |-> Cardinality(Under(S, R, x))]
           b == ByRank(S)
<1>1. \A x \in S : x \in Nat /\ rank[x] \in Nat
  OBVIOUS
<1>2. \A x, y \in S : <<x, y>> \in R <=> rank[x] > rank[y] \/ (rank[x] = rank[y] /\ x < y)
  BY DEF Before
<1>3. \A x, y : <<x, y>> \in R => x \in S /\ y \in S
  OBVIOUS
<1>4. \A x \in S : {y \in S : Before(y, x)} = Under(S, R, x)
  BY DEF Under
<1>5. \A x \in S : Cardinality({y \in S : Before(y, x)}) = at[x]
  BY <1>4
<1> HIDE DEF R
<1>6. Irreflexive(R) /\ Transitive(S, R) /\ Total(S, R)
  <2>1. Irreflexive(R)
    <3>1. ASSUME NEW x, <<x, x>> \in R PROVE FALSE
      <4>1. x \in S
        BY <1>3, <3>1
      <4>2. x \in Nat /\ rank[x] \in Nat /\ (rank[x] > rank[x] \/ x < x)
        BY <1>1, <1>2, <3>1, <4>1
      <4>3. QED BY <4>2
    <3>2. QED BY <3>1 DEF Irreflexive
  <2>2. Transitive(S, R)
    BY <1>1, <1>2 DEF Transitive
  <2>3. Total(S, R)
    <3>1. ASSUME NEW x \in S, NEW y \in S PROVE x = y \/ <<x, y>> \in R \/ <<y, x>> \in R
      <4>1. x \in Nat /\ y \in Nat /\ rank[x] \in Nat /\ rank[y] \in Nat
        BY <1>1
      <4>2. x = y \/ x < y \/ y < x
        BY <4>1
      <4>3. rank[x] = rank[y] \/ rank[x] > rank[y] \/ rank[y] > rank[x]
        BY <4>1
      <4>4. QED BY <1>2, <4>2, <4>3
    <3>2. QED BY <3>1 DEF Total
  <2>4. QED BY <2>1, <2>2, <2>3
<1>7. n \in Nat /\ at \in Bijection(S, 0..(n - 1))
  BY <1>6, Numbered
<1>8. \A x, y \in S : <<y, x>> \in R => at[y] < at[x] /\ at[y] \in Nat /\ at[x] \in Nat
  BY <1>6, UnderGrows
<1>9. b = [i \in 1..n |-> CHOOSE x \in S : Cardinality({y \in S : Before(y, x)}) = i - 1]
  BY DEF ByRank
<1> HIDE DEF at, n, b
<1>10. ASSUME NEW i \in 1..n
       PROVE  b[i] \in S /\ at[b[i]] = i - 1
  <2>1. i - 1 \in 0..(n - 1)
    BY <1>7
  <2>2. PICK x \in S : at[x] = i - 1
    BY <1>7, <2>1 DEF Bijection, Surjection
  <2>3. b[i] = CHOOSE u \in S : Cardinality({y \in S : Before(y, u)}) = i - 1
    BY <1>9
  <2>4. QED BY <1>5, <2>2, <2>3
<1>11. b \in Seq(S) /\ Len(b) = n
  <2> DEFINE F(i) == CHOOSE x \in S : Cardinality({y \in S : Before(y, x)}) = i - 1
  <2>1. b = [i \in 1..n |-> F(i)]
    BY <1>9
  <2> HIDE DEF F
  <2>2. \A i \in 1..n : F(i) \in S
    BY <1>10, <2>1
  <2>3. QED BY <1>7, <2>1, <2>2
<1>12. ASSUME NEW x \in S PROVE \E i \in 1..n : b[i] = x
  <2>1. at[x] \in 0..(n - 1)
    BY <1>7 DEF Bijection, Injection
  <2>2. at[x] + 1 \in 1..n
    BY <1>7, <2>1
  <2>3. b[at[x] + 1] \in S /\ at[b[at[x] + 1]] = at[x]
    BY <1>10, <2>1, <2>2
  <2>4. b[at[x] + 1] = x
    BY <1>7, <2>3 DEF Bijection, Injection, IsInjective
  <2>5. QED BY <2>2, <2>4
<1>13. ASSUME NEW i \in 1..n, NEW k \in 1..n, b[i] = b[k] PROVE i = k
  BY <1>7, <1>10, <1>13
<1>14. ASSUME NEW i \in 1..n, NEW k \in 1..n, i < k PROVE rank[b[i]] >= rank[b[k]]
  <2>1. b[i] \in S /\ b[k] \in S /\ at[b[i]] = i - 1 /\ at[b[k]] = k - 1
    BY <1>10
  <2> DEFINE x == b[i]
             y == b[k]
  <2>2. x \in S /\ y \in S /\ at[x] = i - 1 /\ at[y] = k - 1 /\ i \in Nat /\ k \in Nat
    BY <1>7, <2>1
  <2> HIDE DEF x, y
  <2>3. ~(at[y] < at[x])
    BY <1>14, <2>2
  <2>4. <<y, x>> \notin R
    BY <1>8, <2>2, <2>3
  <2>5. ~(rank[y] > rank[x]) /\ rank[x] \in Nat /\ rank[y] \in Nat
    BY <1>1, <1>2, <2>2, <2>4
  <2>6. rank[x] >= rank[y]
    BY <2>5
  <2>7. QED BY <2>6 DEF x, y
<1>15. QED BY <1>7, <1>11, <1>12, <1>13, <1>14 DEF b, n

\* A weak component: what is linked with its documents is in it.
LEMMA WeakOf ==
  ASSUME IsBuilt, Unites, uf.todo = {}
  PROVE  \A comp \in WCC :
           /\ comp \in SUBSET Docs /\ IsFiniteSet(comp) /\ comp # {}
           /\ \A x \in Docs : \A y \in Out(x) : x \in comp <=> y \in comp
<1> SUFFICES ASSUME NEW comp \in WCC
             PROVE  /\ comp \in SUBSET Docs /\ IsFiniteSet(comp) /\ comp # {}
                    /\ \A x \in Docs : \A y \in Out(x) : x \in comp <=> y \in comp
  OBVIOUS
<1> DEFINE F(d) == Find(uf.parent, d)
<1>1. Given /\ IsFiniteSet(Docs) /\ IsForest(uf.parent) /\ Projected
  BY CorpusFacts, BuiltProjected DEF IsBuilt, Unites
<1>2. PICK r \in Docs : uf.parent[r] = r /\ comp = {d \in Docs : F(d) = r}
  BY DEF WCC
<1>3. comp \in SUBSET Docs
  BY <1>2
<1>4. IsFiniteSet(comp)
  BY <1>1, <1>3, FS_Subset
<1>5. r \in comp
  <2> DEFINE U == {r}
  <2>1. r \in U /\ \A y \in Docs : y \in U => uf.parent[y] \in U
    BY <1>2
  <2> HIDE DEF U
  <2>2. F(r) \in U
    BY <1>1, <2>1, FindOf
  <2>3. QED BY <1>2, <2>2 DEF U
<1>6. ASSUME NEW x \in Docs, NEW y \in Out(x) PROVE x \in comp <=> y \in comp
  <2>1. y \in Docs /\ <<x, y>> \in Links
    BY <1>1 DEF Links, Projected
  <2>2. F(x) = F(y)
    BY <1>1, <2>1, SharedRoot
  <2>3. QED BY <1>2, <2>1, <2>2
<1>7. QED BY <1>3, <1>4, <1>5, <1>6

\* What the trails rest on.
Structured ==
  /\ IsBuilt /\ Projected /\ IsFiniteSet(Docs) /\ rank \in [Docs -> Nat]
  /\ SCC = {Class(d) : d \in Docs}
  /\ \A comp \in WCC :
       /\ comp \in SUBSET Docs /\ IsFiniteSet(comp) /\ comp # {}
       /\ \A x \in Docs : \A y \in Out(x) : x \in comp <=> y \in comp

\* The representatives in a weak component stand for the classes that make it up.
LEMMA RepsOf ==
  ASSUME Structured, NEW comp \in WCC
  PROVE  /\ Reps(comp) \in SUBSET comp /\ IsFiniteSet(Reps(comp))
         /\ \A r \in Reps(comp) : /\ r \in Docs /\ r \in Class(r) /\ Class(r) \subseteq comp
                                  /\ ComponentOf(SCC, r) = Class(r)
         /\ \A d \in comp : \E r \in Reps(comp) : d \in Class(r)
         /\ \A r, s \in Reps(comp) : r \in Class(s) => r = s
<1>1. Projected /\ comp \in SUBSET Docs /\ IsFiniteSet(comp) /\ SCC = {Class(d) : d \in Docs}
  BY DEF Structured
<1>2. \A c \in SCC : c \in SUBSET Docs /\ c # {} /\ Min(c) \in c /\ Min(c) \in Docs /\ c = Class(Min(c))
  BY <1>1, RepOf
<1>3. \A r : r \in Reps(comp) <=> \E c \in SCC : c \subseteq comp /\ r = Min(c)
  BY DEF Reps
<1>4. ASSUME NEW r \in Reps(comp)
      PROVE  r \in comp /\ r \in Docs /\ r \in Class(r) /\ Class(r) \subseteq comp /\ Class(r) \in SCC
             /\ r = Min(Class(r)) /\ ComponentOf(SCC, r) = Class(r)
  <2>1. PICK c \in SCC : c \subseteq comp /\ r = Min(c)
    BY <1>3
  <2>2. r \in c /\ r \in Docs /\ c = Class(r)
    BY <1>2, <2>1
  <2>3. ComponentOf(SCC, r) = Class(r)
    BY <1>1, <2>2, RepOf
  <2>4. QED BY <2>1, <2>2, <2>3
<1>5. ASSUME NEW d \in comp PROVE \E r \in Reps(comp) : d \in Class(r)
  <2>1. d \in Docs /\ Class(d) \in SCC /\ d \in Class(d) /\ Class(d) \in SUBSET Docs
    BY <1>1, ClassOf
  <2>2. \A x \in comp : Out(x) \subseteq comp
    BY <1>1 DEF Structured, Projected
  <2>3. Class(d) \subseteq comp
    BY <1>1, <2>1, <2>2, Reaching DEF Class
  <2>4. Min(Class(d)) \in Reps(comp) /\ Class(Min(Class(d))) = Class(d)
    BY <1>2, <1>3, <2>1, <2>3
  <2>5. QED BY <2>1, <2>4
<1>6. ASSUME NEW r \in Reps(comp), NEW s \in Reps(comp), r \in Class(s) PROVE r = s
  <2>1. r \in Docs /\ s \in Docs /\ r = Min(Class(r)) /\ s = Min(Class(s))
    BY <1>4
  <2>2. Class(r) = Class(s)
    BY <1>1, <1>6, <2>1, ClassOf
  <2>3. QED BY <2>1, <2>2
<1>7. Reps(comp) \in SUBSET comp
  BY <1>4
<1>8. IsFiniteSet(Reps(comp))
  BY <1>1, <1>7, FS_Subset
<1>9. QED BY <1>4, <1>5, <1>6, <1>7, <1>8

\* A component leads on to those its documents link to.
LEMMA LeadsOn ==
  ASSUME Structured, NEW comp \in WCC, NEW s \in Reps(comp)
  PROVE  /\ \A r \in CondAdj(s) : /\ r \in Reps(comp) /\ r # s /\ <<s, r>> \in Reaches
                                  /\ \E x \in Class(s) : \E y \in Out(x) : y \in Class(r)
         /\ \A r \in Reps(comp) : \A x \in Class(s) : \A y \in Out(x) :
              y \in Class(r) /\ r # s => r \in CondAdj(s)
<1>1. Projected /\ comp \in SUBSET Docs /\ SCC = {Class(d) : d \in Docs}
  BY DEF Structured
<1>2. \A c \in SCC : c \in SUBSET Docs /\ c # {} /\ Min(c) \in c /\ Min(c) \in Docs /\ c = Class(Min(c))
  BY <1>1, RepOf
<1>3. /\ s \in Docs /\ Class(s) \subseteq comp /\ ComponentOf(SCC, s) = Class(s)
      /\ Class(s) \subseteq Docs
  BY <1>1, RepsOf
<1>4. \A r : r \in CondAdj(s) <=> r # s /\ \E e \in Links : e[1] \in Class(s) /\ r = Min(ComponentOf(SCC, e[2]))
  BY <1>3 DEF CondAdj
<1>5. \A d \in Docs : ComponentOf(SCC, d) = Class(d) /\ Class(d) \in SCC /\ d \in Class(d)
  BY <1>1, RepOf, ClassOf
<1>6. ASSUME NEW r \in CondAdj(s)
      PROVE  /\ r \in Reps(comp) /\ r # s /\ <<s, r>> \in Reaches
             /\ \E x \in Class(s) : \E y \in Out(x) : y \in Class(r)
  <2>1. r # s /\ \E e \in Links : e[1] \in Class(s) /\ r = Min(ComponentOf(SCC, e[2]))
    BY <1>4
  <2>2. PICK e \in Links : e[1] \in Class(s) /\ r = Min(ComponentOf(SCC, e[2]))
    BY <2>1
  <2> DEFINE x == e[1]
             y == e[2]
  <2>3. x \in Docs /\ y \in Docs /\ y \in Out(x) /\ x \in Class(s) /\ r = Min(ComponentOf(SCC, y))
    BY <1>1, <2>2 DEF Links, Projected
  <2> HIDE DEF x, y
  <2>4. Class(y) \in SCC /\ y \in Class(y) /\ r = Min(Class(y)) /\ r \in Docs /\ Class(r) = Class(y)
    BY <1>2, <1>5, <2>3
  <2>5. y \in comp
    BY <1>3, <2>3 DEF Structured
  <2>6. Class(y) \subseteq comp
    <3>1. PICK q \in Reps(comp) : y \in Class(q)
      BY <2>5, RepsOf
    <3>2. q \in Docs /\ Class(q) \subseteq comp /\ Class(y) = Class(q)
      BY <1>1, <2>3, <3>1, RepsOf, ClassOf
    <3>3. QED BY <3>2
  <2>7. r \in Reps(comp)
    BY <2>4, <2>6 DEF Reps
  <2>8. <<s, x>> \in Reaches /\ <<x, y>> \in Reaches /\ <<y, r>> \in Reaches
    <3>1. <<s, x>> \in Reaches
      BY <2>3 DEF Class
    <3>2. <<x, y>> \in Reaches
      BY <1>1, <2>3, Reaching
    <3>3. r \in Class(y)
      BY <1>5, <2>4
    <3>4. <<y, r>> \in Reaches
      BY <3>3 DEF Class
    <3>5. QED BY <3>1, <3>2, <3>4
  <2>9. <<s, r>> \in Reaches
    <3>1. \A a, b, c \in Docs : <<a, b>> \in Reaches /\ <<b, c>> \in Reaches => <<a, c>> \in Reaches
      BY <1>1, Reaching
    <3>2. <<s, y>> \in Reaches
      BY <1>3, <2>3, <2>8, <3>1
    <3>3. QED BY <1>3, <2>3, <2>4, <2>8, <3>1, <3>2
  <2>10. QED BY <2>1, <2>3, <2>4, <2>7, <2>9
<1>7. ASSUME NEW r \in Reps(comp), NEW x \in Class(s), NEW y \in Out(x), y \in Class(r), r # s
      PROVE  r \in CondAdj(s)
  <2>1. x \in Docs /\ y \in Docs /\ r \in Docs
    BY <1>1, <1>3, RepsOf DEF Projected
  <2>2. <<x, y>> \in Links /\ <<x, y>>[1] = x /\ <<x, y>>[2] = y
    BY <2>1 DEF Links
  <2>3. Class(y) = Class(r) /\ ComponentOf(SCC, y) = Class(r)
    BY <1>1, <1>5, <1>7, <2>1, ClassOf
  <2>4. r = Min(Class(r))
    <3>1. PICK c \in SCC : r = Min(c)
      BY DEF Reps
    <3>2. QED BY <1>2, <3>1
  <2>5. QED BY <1>4, <1>7, <2>2, <2>3, <2>4
<1>8. QED BY <1>6, <1>7

Listed(o) == {o[i] : i \in 1..Len(o)}

Distinct(o) == \A i, k \in 1..Len(o) : o[i] = o[k] => i = k

\* What leads back along the order lies, with all between, in one component, best first.
Orderly(o) ==
  \A i, k \in 1..Len(o) :
    i < k /\ <<o[k], o[i]>> \in Reaches =>
      rank[o[i]] >= rank[o[k]] /\ \A j \in i..k : o[j] \in Class(o[i])

\* The components left that lead to one of a trail.
Waits(t, r) == {s \in Reps(t.comp) \ Listed(t.order) : r \in CondAdj(s)}

\* A trail at work: whole components in order, no link back into them, and of those
\* left the ones on the frontier that none left leads to.
TrailRight(t) ==
  /\ t.comp \in WCC
  /\ t.order \in Seq(t.comp) /\ Distinct(t.order) /\ Orderly(t.order)
  /\ \A d \in Listed(t.order) : Class(d) \subseteq Listed(t.order)
  /\ \A x \in Docs \ Listed(t.order) : \A y \in Out(x) : y \notin Listed(t.order)
  /\ t.indeg = [r \in Reps(t.comp) |-> Cardinality(Waits(t, r))]
  /\ t.frontier = {r \in Reps(t.comp) \ Listed(t.order) : t.indeg[r] = 0}

IsTrail(t) ==
  t = [comp |-> t.comp, indeg |-> t.indeg, frontier |-> t.frontier, order |-> t.order, done |-> t.done]

\* The head of the frontier is on it.
LEMMA FirstOfIn ==
  ASSUME Structured, NEW comp \in WCC, NEW frontier \in SUBSET Reps(comp), frontier # {}
  PROVE  FirstOf(frontier) \in frontier
<1> DEFINE S == frontier
           R == {p \in S \X S : MaxRank(p[1]) > MaxRank(p[2]) \/ (MaxRank(p[1]) = MaxRank(p[2]) /\ p[1] < p[2])}
<1>1. IsFiniteSet(S)
  BY RepsOf, FS_Subset
<1>2. ASSUME NEW r \in S PROVE r \in Nat /\ MaxRank(r) \in Nat
  <2>1. r \in Docs /\ r \in Class(r) /\ ComponentOf(SCC, r) = Class(r) /\ Docs \in SUBSET Nat
        /\ Class(r) \subseteq Docs /\ rank \in [Docs -> Nat] /\ IsFiniteSet(Docs)
    BY RepsOf DEF Structured, Projected, Class
  <2> DEFINE c == Class(r)
             N == {rank[m] : m \in c}
  <2>2. N \in SUBSET Nat /\ N # {}
    BY <2>1
  <2>3. IsFiniteSet(N)
    <3>1. \A y \in N : \E m \in Docs : y = rank[m]
      BY <2>1
    <3> HIDE DEF N
    <3>2. QED BY <2>1, <3>1, ImagesFinite
  <2>4. MaxRank(r) = Max(N)
    BY <2>1 DEF MaxRank
  <2> HIDE DEF N
  <2>5. Max(N) \in N
    BY <2>2, <2>3, MaxOf
  <2>6. QED BY <2>1, <2>2, <2>4, <2>5
<1>3. \A x, y \in S : <<x, y>> \in R <=> MaxRank(x) > MaxRank(y) \/ (MaxRank(x) = MaxRank(y) /\ x < y)
  OBVIOUS
<1>4. \A x, y : <<x, y>> \in R => x \in S /\ y \in S
  OBVIOUS
<1> HIDE DEF R
<1>5. Irreflexive(R)
  <2>1. ASSUME NEW x, <<x, x>> \in R PROVE FALSE
    <3>1. x \in S
      BY <1>4, <2>1
    <3>2. x \in Nat /\ MaxRank(x) \in Nat /\ (MaxRank(x) > MaxRank(x) \/ x < x)
      BY <1>2, <1>3, <2>1, <3>1
    <3>3. QED BY <3>2
  <2>2. QED BY <2>1 DEF Irreflexive
<1>6. Transitive(S, R)
  BY <1>2, <1>3 DEF Transitive
<1>7. PICK x \in S : \A y \in S : <<y, x>> \notin R
  BY <1>1, <1>5, <1>6, FirstOne
<1>8. ASSUME NEW s \in S \ {x} PROVE MaxRank(x) > MaxRank(s) \/ (MaxRank(x) = MaxRank(s) /\ x < s)
  <2>1. x \in Nat /\ s \in Nat /\ MaxRank(x) \in Nat /\ MaxRank(s) \in Nat /\ x # s
    BY <1>2
  <2>2. ~(MaxRank(s) > MaxRank(x) \/ (MaxRank(s) = MaxRank(x) /\ s < x))
    BY <1>3, <1>7
  <2>3. QED BY <2>1, <2>2
<1>9. QED BY <1>8 DEF FirstOf

\* A new trail is right: nothing is in order, and nothing taken off what is waited for.
LEMMA StartRight ==
  ASSUME Structured, NEW t, IsTrail(t), t.comp \in WCC, t.order = <<>>,
         t.indeg = [r \in Reps(t.comp) |-> Cardinality({s \in Reps(t.comp) : r \in CondAdj(s)})],
         t.frontier = {r \in Reps(t.comp) : t.indeg[r] = 0}
  PROVE  TrailRight(t)
<1>1. Listed(t.order) = {} /\ Len(t.order) = 0 /\ t.order \in Seq(t.comp) /\ 1..0 = {}
  BY DEF Listed
<1>2. Distinct(t.order) /\ Orderly(t.order)
  BY <1>1 DEF Distinct, Orderly
<1>3. \A r : Waits(t, r) = {s \in Reps(t.comp) : r \in CondAdj(s)}
  BY <1>1 DEF Waits
<1>4. QED BY <1>1, <1>2, <1>3 DEF TrailRight

\* An order with one component more at its end: one that is new, and that all that
\* lead to it are before.
LEMMA OrderGrows ==
  ASSUME Structured, NEW o, NEW comp \in WCC, o \in Seq(comp), Distinct(o), Orderly(o),
         NEW r \in Docs, Class(r) \subseteq comp, Class(r) \cap Listed(o) = {},
         \A x \in Docs \ Listed(o) : \A y \in Out(x) : y \notin Listed(o)
  PROVE  LET new == o \o ByRank(Class(r)) IN
         /\ new \in Seq(comp) /\ Distinct(new) /\ Orderly(new)
         /\ Listed(new) = Listed(o) \union Class(r)
<1> DEFINE c == Class(r)
           b == ByRank(c)
           n == Len(o)
           m == Len(b)
           new == o \o b
<1>1. /\ Projected /\ Docs \in SUBSET Nat /\ IsFiniteSet(Docs) /\ rank \in [Docs -> Nat]
      /\ comp \in SUBSET Docs /\ c \in SUBSET comp
  BY DEF Structured, Projected
<1>2. IsFiniteSet(c) /\ c \in SUBSET Docs
  BY <1>1, FS_Subset
<1>3. \A x, y \in c : y \in Class(x)
  <2>1. \A x \in c : Class(x) = c
    BY <1>1, <1>2, ClassOf
  <2>2. QED BY <2>1
<1> HIDE DEF c
<1>4. /\ b \in Seq(c) /\ m \in Nat
      /\ \A x \in c : \E i \in 1..m : b[i] = x
      /\ \A i, k \in 1..m : b[i] = b[k] => i = k
      /\ \A i, k \in 1..m : i < k => rank[b[i]] >= rank[b[k]]
  BY <1>1, <1>2, ByRankOf
<1> HIDE DEF b
<1>5. b \in Seq(comp) /\ \A i \in 1..m : b[i] \in c
  <2>1. \A i \in 1..m : b[i] \in c
    BY <1>4 DEF m
  <2>2. \A i \in 1..m : b[i] \in comp
    BY <1>1, <2>1
  <2>3. b = [i \in 1..m |-> b[i]]
    BY <1>4 DEF m
  <2> HIDE DEF m
  <2>4. b \in Seq(comp)
    BY <1>4, <2>2, <2>3
  <2>5. QED BY <2>1, <2>4
<1>6. /\ n \in Nat /\ new \in Seq(comp) /\ Len(new) = n + m
      /\ \A i \in 1..n : new[i] = o[i] /\ o[i] \in comp
      /\ \A i \in n + 1..n + m : new[i] = b[i - n] /\ i - n \in 1..m
  BY <1>4, <1>5, Joined
<1> HIDE DEF new, n, m
<1>7. \A i \in 1..(n + m) : i \in 1..n \/ i \in n + 1..n + m
  BY <1>4, <1>6
<1>8. \A i \in 1..n : new[i] \in Listed(o) /\ new[i] \in Docs /\ new[i] \notin c
  BY <1>1, <1>6 DEF Listed, n, c
<1>9. \A i \in n + 1..n + m : new[i] \in c /\ new[i] \in Docs /\ new[i] \notin Listed(o)
  BY <1>2, <1>5, <1>6 DEF c
<1>10. Distinct(new)
  <2>1. ASSUME NEW i \in 1..(n + m), NEW k \in 1..(n + m), new[i] = new[k] PROVE i = k
    <3>1. CASE i \in 1..n /\ k \in 1..n
      BY <1>6, <2>1, <3>1 DEF Distinct, n
    <3>2. CASE i \in n + 1..n + m /\ k \in n + 1..n + m
      <4>1. i - n = k - n
        BY <1>4, <1>6, <2>1, <3>2
      <4>2. QED BY <1>4, <1>6, <3>2, <4>1
    <3>3. QED BY <1>7, <1>8, <1>9, <2>1, <3>1, <3>2
  <2>2. QED BY <1>6, <2>1 DEF Distinct
<1>11. ASSUME NEW i \in 1..n, NEW k \in n + 1..n + m PROVE <<new[k], new[i]>> \notin Reaches
  <2> DEFINE rest == Docs \ Listed(o)
             x == new[k]
             y == new[i]
  <2>1. rest \in SUBSET Docs /\ \A z \in rest : Out(z) \subseteq rest
    BY <1>1 DEF Projected
  <2>2. x \in rest /\ y \in Docs /\ y \notin rest
    BY <1>8, <1>9
  <2> HIDE DEF rest, x, y
  <2>3. <<x, y>> \notin Reaches
    BY <1>1, <2>1, <2>2, Reaching
  <2>4. QED BY <2>3 DEF x, y
<1>12. ASSUME NEW i \in 1..(n + m), NEW k \in 1..(n + m), i < k, <<new[k], new[i]>> \in Reaches
       PROVE  rank[new[i]] >= rank[new[k]] /\ \A j \in i..k : new[j] \in Class(new[i])
  <2>1. CASE k \in 1..n
    <3>1. i \in 1..n /\ \A j \in i..k : j \in 1..n
      BY <1>6, <1>12, <2>1
    <3>2. <<o[k], o[i]>> \in Reaches
      BY <1>6, <1>12, <2>1, <3>1
    <3>3. rank[o[i]] >= rank[o[k]] /\ \A j \in i..k : o[j] \in Class(o[i])
      BY <1>12, <2>1, <3>1, <3>2 DEF Orderly, n
    <3>4. QED BY <1>6, <2>1, <3>1, <3>3
  <2>2. CASE k \in n + 1..n + m
    <3>1. i \in n + 1..n + m
      BY <1>7, <1>11, <1>12, <2>2
    <3>2. \A j \in i..k : j \in n + 1..n + m
      BY <1>4, <1>6, <2>2, <3>1
    <3>3. \A j \in i..k : new[j] \in Class(new[i])
      BY <1>3, <1>9, <3>1, <3>2
    <3>4. i - n \in 1..m /\ k - n \in 1..m /\ i - n < k - n
      BY <1>4, <1>6, <1>12, <2>2, <3>1
    <3>5. rank[b[i - n]] >= rank[b[k - n]]
      BY <1>4, <3>4
    <3>6. QED BY <1>6, <2>2, <3>1, <3>3, <3>5
  <2>3. QED BY <1>7, <2>1, <2>2
<1>13. Orderly(new)
  BY <1>6, <1>12 DEF Orderly
<1>14. Listed(new) = Listed(o) \union c
  <2>1. \A x \in Listed(o) : \E i \in 1..n : new[i] = x
    BY <1>6 DEF Listed, n
  <2>2. ASSUME NEW x \in c PROVE \E i \in 1..(n + m) : new[i] = x
    <3>1. PICK i \in 1..m : b[i] = x
      BY <1>4
    <3>2. n + i \in n + 1..n + m /\ (n + i) - n = i /\ n + i \in 1..(n + m)
      BY <1>4, <1>6
    <3>3. new[n + i] = x
      BY <1>6, <3>1, <3>2
    <3>4. QED BY <3>2, <3>3
  <2>3. \A i \in 1..n : i \in 1..(n + m)
    BY <1>4, <1>6
  <2>4. \A x \in Listed(o) \union c : \E i \in 1..(n + m) : new[i] = x
    BY <2>1, <2>2, <2>3
  <2>5. \A i \in 1..(n + m) : new[i] \in Listed(o) \union c
    BY <1>7, <1>8, <1>9
  <2>6. \A x : x \in Listed(new) <=> \E i \in 1..(n + m) : new[i] = x
    BY <1>6 DEF Listed
  <2>7. QED BY <2>4, <2>5, <2>6
<1>15. QED BY <1>6, <1>10, <1>13, <1>14 DEF new, b, c

\* Taking a component from the frontier keeps a trail right.
LEMMA TakeRight ==
  ASSUME Structured, NEW t, IsTrail(t), TrailRight(t), NEW rep \in t.frontier,
         NEW u, IsTrail(u), u.comp = t.comp, u.order = t.order \o ByRank(Class(rep)),
         u.indeg = [s \in DOMAIN t.indeg |-> t.indeg[s] - IF s \in CondAdj(rep) THEN 1 ELSE 0],
         u.frontier = (t.frontier \ {rep}) \union {s \in CondAdj(rep) : u.indeg[s] = 0}
  PROVE  TrailRight(u)
<1> DEFINE comp == t.comp
           reps == Reps(comp)
           old == Listed(t.order)
           new == Listed(u.order)
           c == Class(rep)
           W(r) == Waits(t, r)
           V(r) == Waits(u, r)
<1>1. /\ comp \in WCC /\ comp \in SUBSET Docs /\ Projected
      /\ \A x \in Docs : \A y \in Out(x) : x \in comp <=> y \in comp
  BY DEF TrailRight, Structured
<1>2. /\ t.order \in Seq(comp) /\ Distinct(t.order) /\ Orderly(t.order)
      /\ \A d \in old : Class(d) \subseteq old
      /\ \A x \in Docs \ old : \A y \in Out(x) : y \notin old
      /\ t.indeg = [r \in reps |-> Cardinality(W(r))]
      /\ t.frontier = {r \in reps \ old : t.indeg[r] = 0}
  BY DEF TrailRight
<1>3. old \subseteq comp
  BY <1>2 DEF Listed
<1>4. /\ reps \in SUBSET comp /\ IsFiniteSet(reps)
      /\ \A r \in reps : r \in Docs /\ r \in Class(r) /\ Class(r) \subseteq comp
      /\ \A d \in comp : \E r \in reps : d \in Class(r)
      /\ \A r, s \in reps : r \in Class(s) => r = s
  BY <1>1, RepsOf
<1>5. rep \in reps /\ rep \notin old /\ t.indeg[rep] = 0 /\ rep \in Docs /\ rep \in c /\ c \subseteq comp
  BY <1>2, <1>4
<1>6. \A r \in Docs : r \in comp => Class(r) \subseteq Docs
  BY DEF Class
<1>7. c \cap old = {}
  <2>1. ASSUME NEW x \in c, x \in old PROVE FALSE
    <3>1. x \in Docs /\ Class(x) = c
      BY <1>1, <1>5, ClassOf
    <3>2. QED BY <1>2, <1>5, <2>1, <3>1
  <2>2. QED BY <2>1
<1>8. u.order \in Seq(comp) /\ Distinct(u.order) /\ Orderly(u.order) /\ new = old \union c
  <2> DEFINE o == t.order
  <2>1. /\ o \in Seq(comp) /\ Distinct(o) /\ Orderly(o) /\ c \cap Listed(o) = {}
        /\ \A x \in Docs \ Listed(o) : \A y \in Out(x) : y \notin Listed(o)
    BY <1>2, <1>7
  <2>2. u.order = o \o ByRank(c)
    OBVIOUS
  <2> HIDE DEF o, comp
  <2>3. /\ o \o ByRank(c) \in Seq(comp) /\ Distinct(o \o ByRank(c)) /\ Orderly(o \o ByRank(c))
        /\ Listed(o \o ByRank(c)) = Listed(o) \union c
    BY <1>1, <1>5, <2>1, OrderGrows
  <2>4. QED BY <2>2, <2>3 DEF o
<1>9. \A s \in reps : s \in new <=> s \in old \/ s = rep
  BY <1>4, <1>5, <1>8
<1>10. \A r : V(r) = {s \in reps \ new : r \in CondAdj(s)} /\ W(r) = {s \in reps \ old : r \in CondAdj(s)}
  BY DEF Waits
<1>11. \A r : V(r) = W(r) \ {rep} /\ (rep \in W(r) <=> r \in CondAdj(rep)) /\ IsFiniteSet(W(r))
  <2>1. \A r : V(r) = W(r) \ {rep} /\ (rep \in W(r) <=> r \in CondAdj(rep)) /\ W(r) \in SUBSET reps
    BY <1>5, <1>9, <1>10
  <2>2. QED BY <1>4, <2>1, FS_Subset
<1>12. \A r : Cardinality(V(r)) = Cardinality(W(r)) - IF r \in CondAdj(rep) THEN 1 ELSE 0
  <2> SUFFICES ASSUME NEW r PROVE Cardinality(V(r)) = Cardinality(W(r)) - IF r \in CondAdj(rep) THEN 1 ELSE 0
    OBVIOUS
  <2> DEFINE w == W(r)
  <2>1. IsFiniteSet(w) /\ V(r) = w \ {rep} /\ (rep \in w <=> r \in CondAdj(rep))
    BY <1>11
  <2>2. Cardinality(w) \in Nat
    BY <2>1, FS_CardinalityType
  <2> HIDE DEF w
  <2>3. Cardinality(w \ {rep}) = IF rep \in w THEN Cardinality(w) - 1 ELSE Cardinality(w)
    BY <2>1, FS_RemoveElement
  <2>4. Cardinality(V(r)) = Cardinality(w) - IF r \in CondAdj(rep) THEN 1 ELSE 0
    BY <2>1, <2>2, <2>3
  <2>5. QED BY <2>4 DEF w
<1> HIDE DEF V, W, c, new, old
<1>13. u.indeg = [r \in reps |-> Cardinality(V(r))]
  <2>1. DOMAIN t.indeg = reps /\ \A r \in reps : t.indeg[r] = Cardinality(W(r))
    BY <1>2
  <2> HIDE DEF reps
  <2>2. u.indeg = [s \in reps |-> t.indeg[s] - IF s \in CondAdj(rep) THEN 1 ELSE 0]
    BY <2>1
  <2>3. QED BY <1>12, <2>1, <2>2
<1>14. \A r \in reps : u.indeg[r] = 0 /\ r \notin CondAdj(rep) => t.indeg[r] = 0
  <2>1. \A r : Cardinality(W(r)) \in Nat
    BY <1>11, FS_CardinalityType
  <2>2. QED BY <1>2, <1>12, <1>13, <2>1
<1>15. \A r \in reps : t.indeg[r] = 0 => r \notin CondAdj(rep) /\ u.indeg[r] = 0
  <2>1. ASSUME NEW r \in reps, t.indeg[r] = 0 PROVE r \notin CondAdj(rep) /\ u.indeg[r] = 0
    <3>1. Cardinality(W(r)) = 0
      BY <1>2, <2>1
    <3>2. W(r) = {}
      BY <1>11, <3>1, FS_EmptySet
    <3>3. r \notin CondAdj(rep)
      BY <1>11, <3>2
    <3>4. u.indeg[r] = 0 - 0
      BY <1>12, <1>13, <3>1, <3>3
    <3>5. QED BY <3>3, <3>4
  <2>2. QED BY <2>1
<1>16. \A x \in Docs : x \notin old => \A y \in Out(x) : y \notin old
  BY <1>2
<1>17. ASSUME NEW s \in CondAdj(rep) PROVE s \in reps /\ s # rep /\ s \notin old
  <2>1. /\ s \in reps /\ s # rep /\ \E x \in Class(rep) : \E y \in Out(x) : y \in Class(s)
    BY <1>1, <1>5, LeadsOn
  <2>2. PICK x \in Class(rep) : \E y \in Out(x) : y \in Class(s)
    BY <2>1
  <2>3. PICK y \in Out(x) : y \in Class(s)
    BY <2>2
  <2>4. x \in Docs /\ x \notin old
    BY <1>5, <1>6, <1>7, <2>2 DEF c, Class
  <2>5. s \in old => y \in old
    BY <1>2, <2>3
  <2>6. QED BY <1>16, <2>1, <2>3, <2>4, <2>5
<1>18. u.frontier = {r \in reps \ new : u.indeg[r] = 0}
  <2>1. ASSUME NEW r \in u.frontier PROVE r \in reps \ new /\ u.indeg[r] = 0
    <3>1. CASE r \in t.frontier /\ r # rep
      BY <1>2, <1>9, <1>15, <3>1
    <3>2. CASE r \in CondAdj(rep) /\ u.indeg[r] = 0
      BY <1>9, <1>17, <3>2
    <3>3. QED BY <2>1, <3>1, <3>2
  <2>2. ASSUME NEW r \in reps \ new, u.indeg[r] = 0 PROVE r \in u.frontier
    <3>1. CASE r \in CondAdj(rep)
      BY <2>2, <3>1
    <3>2. CASE r \notin CondAdj(rep)
      <4>1. t.indeg[r] = 0 /\ r \notin old /\ r # rep
        BY <1>9, <1>14, <2>2, <3>2
      <4>2. r \in t.frontier
        BY <1>2, <2>2, <4>1
      <4>3. QED BY <4>1, <4>2
    <3>3. QED BY <3>1, <3>2
  <2>3. QED BY <2>1, <2>2
<1>19. \A d \in new : Class(d) \subseteq new
  <2>1. \A d \in c : Class(d) = c
    BY <1>1, <1>5, ClassOf DEF c
  <2>2. QED BY <1>2, <1>8, <2>1
<1>20. ASSUME NEW x \in Docs \ new, NEW y \in Out(x) PROVE y \notin new
  <2>1. y \notin old
    BY <1>8, <1>16
  <2>2. ASSUME y \in c PROVE FALSE
    <3>1. x \in comp
      BY <1>1, <1>5, <2>2
    <3>2. PICK s \in reps : x \in Class(s)
      BY <1>4, <3>1
    <3>3. s \in Docs /\ s \in Class(s)
      BY <1>4
    <3>4. s \notin new
      BY <1>19, <3>2
    <3>5. s \notin old /\ s # rep
      BY <1>8, <1>5, <3>4
    <3>6. rep \in CondAdj(s)
      BY <1>1, <1>5, <2>2, <3>2, <3>5, LeadsOn DEF c
    <3>7. s \in W(rep)
      BY <1>10, <3>5, <3>6
    <3>8. Cardinality(W(rep)) = 0
      BY <1>2, <1>5
    <3>9. QED BY <1>11, <3>7, <3>8, FS_EmptySet
  <2>3. QED BY <1>8, <2>1, <2>2
<1>21. QED BY <1>1, <1>8, <1>13, <1>18, <1>19, <1>20 DEF TrailRight, V, new

\* A sequence without repetition is as long as what it lists.
LEMMA DistinctLength ==
  ASSUME NEW S, NEW o \in Seq(S), Distinct(o)
  PROVE  Len(o) = Cardinality(Listed(o))
<1> DEFINE n == Len(o)
           f == [i \in 1..n |-> o[i]]
           L == Listed(o)
<1>1. n \in Nat /\ IsFiniteSet(1..n) /\ Cardinality(1..n) = n
  <2>1. n \in Nat
    OBVIOUS
  <2>2. IsFiniteSet(1..n) /\ Cardinality(1..n) = n
    <3> HIDE DEF n
    <3>1. Cardinality(1..n) = IF 1 > n THEN 0 ELSE n - 1 + 1
      BY <2>1, FS_Interval
    <3>2. QED BY <2>1, <3>1, FS_Interval
  <2>3. QED BY <2>1, <2>2
<1>2. /\ \A i \in 1..n : f[i] = o[i] /\ f[i] \in L
      /\ \A i, k \in 1..n : f[i] = f[k] => i = k
      /\ \A x \in L : \E i \in 1..n : f[i] = x
  BY DEF Distinct, Listed
<1>3. f \in [1..n -> L]
  BY <1>2
<1> HIDE DEF f, L, n
<1>4. f \in Surjection(1..n, L) /\ f \in Bijection(1..n, L)
  BY <1>2, <1>3 DEF Bijection, Injection, IsInjective, Surjection
<1>5. IsFiniteSet(L)
  BY <1>1, <1>4, FS_Surjection
<1>6. Cardinality(1..n) = Cardinality(L)
  BY <1>1, <1>4, <1>5, FS_Bijection DEF ExistsBijection
<1>7. QED BY <1>1, <1>6 DEF n, L

\* A trail that is done.
TrailKept(e) ==
  /\ e.comp \in WCC /\ Orderly(e.order) /\ DOMAIN e.order = 1..Len(e.order)
  /\ Len(e.order) = Cardinality(e.comp) /\ Listed(e.order) = e.comp
  /\ \A d \in e.comp : rank[d] <= rank[e.root]

\* Without a frontier nothing is left: of components left, one would have none before it.
LEMMA EndRight ==
  ASSUME Structured, NEW t, IsTrail(t), TrailRight(t), t.frontier = {},
         NEW e, e.comp = t.comp, e.order = t.order, e.root = HighestPageRank(t.comp)
  PROVE  TrailKept(e)
<1> DEFINE comp == t.comp
           reps == Reps(comp)
           old == Listed(t.order)
           left == reps \ old
           W(r) == Waits(t, r)
<1>1. /\ comp \in WCC /\ comp \in SUBSET Docs /\ Projected /\ IsFiniteSet(comp) /\ comp # {}
      /\ Docs \in SUBSET Nat /\ rank \in [Docs -> Nat]
  BY DEF TrailRight, Structured, Projected
<1>2. /\ t.order \in Seq(comp) /\ Distinct(t.order) /\ Orderly(t.order)
      /\ \A d \in old : Class(d) \subseteq old
      /\ t.indeg = [r \in reps |-> Cardinality(W(r))]
      /\ t.frontier = {r \in left : t.indeg[r] = 0}
  BY DEF TrailRight
<1>3. /\ reps \in SUBSET comp /\ IsFiniteSet(reps)
      /\ \A r \in reps : r \in Docs /\ r \in Class(r) /\ Class(r) \subseteq comp
      /\ \A d \in comp : \E r \in reps : d \in Class(r)
      /\ \A r, s \in reps : r \in Class(s) => r = s
  BY <1>1, RepsOf
<1>4. left = {}
  <2> SUFFICES ASSUME left # {} PROVE FALSE
    OBVIOUS
  <2> DEFINE R == {p \in left \X left : p[1] # p[2] /\ <<p[1], p[2]>> \in Reaches}
  <2>1. IsFiniteSet(left)
    BY <1>3, FS_Subset
  <2>2. \A x, y \in left : <<x, y>> \in R <=> x # y /\ <<x, y>> \in Reaches
    OBVIOUS
  <2>3. Irreflexive(R)
    BY DEF Irreflexive
  <2>4. \A x, y \in left : <<x, y>> \in Reaches /\ <<y, x>> \in Reaches => x = y
    BY <1>3 DEF Class
  <2>5. \A x, y, z \in left : <<x, y>> \in Reaches /\ <<y, z>> \in Reaches => <<x, z>> \in Reaches
    <3>1. \A x, y, z \in Docs : <<x, y>> \in Reaches /\ <<y, z>> \in Reaches => <<x, z>> \in Reaches
      BY <1>1, Reaching
    <3>2. \A x \in left : x \in Docs
      BY <1>3
    <3> HIDE DEF left
    <3>3. QED BY <3>1, <3>2
  <2> HIDE DEF R, left
  <2>6. Transitive(left, R)
    BY <2>2, <2>4, <2>5 DEF Transitive
  <2>7. PICK r \in left : \A s \in left : <<s, r>> \notin R
    BY <2>1, <2>3, <2>6, FirstOne
  <2>8. r \in reps /\ r \in left
    BY DEF left
  <2>9. ASSUME NEW s \in W(r) PROVE FALSE
    <3>1. s \in left /\ s \in reps /\ r \in CondAdj(s)
      BY <2>9 DEF Waits, left
    <3>2. r # s /\ <<s, r>> \in Reaches
      BY <1>1, <3>1, LeadsOn
    <3>3. QED BY <2>2, <2>7, <3>1, <3>2
  <2>10. W(r) = {}
    BY <2>9
  <2>11. Cardinality(W(r)) = 0
    BY <2>10, FS_EmptySet
  <2>12. r \in t.frontier
    BY <1>2, <2>8, <2>11
  <2>13. QED BY <2>12
<1>5. old = comp
  <2>1. old \subseteq comp
    BY <1>2 DEF Listed
  <2>2. \A d \in comp : d \in old
    BY <1>2, <1>3, <1>4
  <2>3. QED BY <2>1, <2>2
<1>6. Len(e.order) = Cardinality(comp) /\ Listed(e.order) = comp /\ DOMAIN e.order = 1..Len(e.order)
  <2>1. Len(t.order) = Cardinality(Listed(t.order))
    <3> DEFINE o == t.order
    <3>1. o \in Seq(comp) /\ Distinct(o)
      BY <1>2
    <3> HIDE DEF o, comp
    <3>2. Len(o) = Cardinality(Listed(o))
      BY <3>1, DistinctLength
    <3>3. QED BY <3>2 DEF o
  <2>2. DOMAIN t.order = 1..Len(t.order)
    BY <1>2
  <2>3. QED BY <1>5, <2>1, <2>2
<1>7. \A d \in comp : rank[d] <= rank[e.root]
  <2> DEFINE b == ByRank(comp)
             n == Cardinality(comp)
  <2>1. /\ n \in Nat /\ b \in Seq(comp) /\ Len(b) = n
        /\ \A x \in comp : \E i \in 1..n : b[i] = x
        /\ \A i, k \in 1..n : i < k => rank[b[i]] >= rank[b[k]]
    <3> HIDE DEF comp
    <3>1. QED BY <1>1, ByRankOf
  <2>2. e.root = b[1]
    BY DEF HighestPageRank
  <2> HIDE DEF b, n, comp
  <2>3. ASSUME NEW d \in comp PROVE rank[d] <= rank[b[1]]
    <3>1. PICK i \in 1..n : b[i] = d
      BY <2>1
    <3>2. 1 \in 1..n /\ i \in Nat /\ (i = 1 \/ 1 < i)
      BY <2>1
    <3>3. b[1] \in comp
      BY <2>1, <3>2
    <3>4. rank[b[1]] \in Nat /\ rank[d] \in Nat
      BY <1>1, <3>3
    <3>5. CASE i = 1
      BY <3>1, <3>4, <3>5
    <3>6. CASE 1 < i
      BY <2>1, <3>1, <3>2, <3>4, <3>6
    <3>7. QED BY <3>2, <3>5, <3>6
  <2>4. QED BY <2>2, <2>3
<1>8. QED BY <1>1, <1>2, <1>6, <1>7 DEF TrailKept

\* The trails are right while they are made, and there are all of them in the end.
TrailInv ==
  /\ IsTrail(trail)
  /\ stage \notin {"trails", "done"} => trail = NewTrail
  /\ stage \in {"trails", "done"} =>
       /\ \A e \in trail.done : TrailKept(e)
       /\ trail.comp # {} => TrailRight(trail)
  /\ stage = "done" => Trailed = WCC

\* What the trails are built from: components that are exact, and scores.
LEMMA IsStructured ==
  ASSUME BaseInv, UfInv, TarjanInv, RankInv, stage \in {"trails", "done"}
  PROVE  Structured
<1>1. IsBuilt /\ Unites /\ uf.todo = {} /\ TarjanRight(tarjan) /\ TarjanDone /\ rank \in [Docs -> Nat]
  BY BuiltGraph DEF UfInv, TarjanInv, RankInv, Early
<1>2. Projected /\ IsFiniteSet(Docs)
  BY <1>1, BuiltProjected, CorpusFacts DEF IsBuilt
<1>3. SCC = {Class(d) : d \in Docs}
  BY <1>1, <1>2, StrongExact
<1>4. QED BY <1>1, <1>2, <1>3, WeakOf DEF Structured

\* What a right trail is depends on inputs, graph, components and scores.
LEMMA SameTrail ==
  ASSUME given' = given, graph' = graph, uf' = uf, tarjan' = tarjan, rank' = rank
  PROVE  WCC' = WCC /\ \A t : (TrailRight(t)' <=> TrailRight(t)) /\ (TrailKept(t)' <=> TrailKept(t))
<1>1. Docs' = Docs /\ SCC' = SCC /\ Links' = Links /\ \A d : Out(d)' = Out(d)
  BY DEF given, Docs, SCC, Links, Out
<1>2. WCC' = WCC
  BY SMT, <1>1 DEF WCC, Find, Way
<1>3. Reaches' = Reaches
  BY <1>1 DEF Reaches, Reachable, Closed
<1>4. \A d : Class(d)' = Class(d)
  BY <1>1, <1>3 DEF Class
<1>5. \A c : Reps(c)' = Reps(c)
  BY <1>1 DEF Reps
<1>6. \A r : CondAdj(r)' = CondAdj(r)
  BY <1>1 DEF CondAdj
<1>7. \A t, r : Waits(t, r)' = Waits(t, r)
  BY <1>5, <1>6 DEF Waits
<1>8. \A o : Orderly(o)' <=> Orderly(o)
  BY <1>3, <1>4 DEF Orderly
<1>9. \A t : TrailKept(t)' <=> TrailKept(t)
  BY <1>2, <1>8 DEF TrailKept
<1>10. ASSUME NEW t PROVE TrailRight(t)' <=> TrailRight(t)
  <2> DEFINE Complete == \A d \in Listed(t.order) : Class(d) \subseteq Listed(t.order)
             Back == \A x \in Docs \ Listed(t.order) : \A y \in Out(x) : y \notin Listed(t.order)
             Degrees == [r \in Reps(t.comp) |-> Cardinality(Waits(t, r))]
             Free == {r \in Reps(t.comp) \ Listed(t.order) : t.indeg[r] = 0}
  <2>1. (Complete' <=> Complete) /\ (Back' <=> Back)
    BY <1>1, <1>4
  <2>2. Degrees' = Degrees /\ Free' = Free
    BY <1>5, <1>7
  <2>3. (t.comp \in WCC /\ Orderly(t.order))' <=> t.comp \in WCC /\ Orderly(t.order)
    BY <1>2, <1>8
  <2>4. TrailRight(t) <=> /\ t.comp \in WCC /\ Orderly(t.order) /\ t.order \in Seq(t.comp) /\ Distinct(t.order)
                          /\ Complete /\ Back /\ t.indeg = Degrees /\ t.frontier = Free
    BY DEF TrailRight
  <2>5. TrailRight(t)' <=> /\ (t.comp \in WCC /\ Orderly(t.order))' /\ t.order \in Seq(t.comp) /\ Distinct(t.order)
                           /\ Complete' /\ Back' /\ t.indeg = Degrees' /\ t.frontier = Free'
    BY DEF TrailRight
  <2> HIDE DEF Complete, Back, Degrees, Free
  <2>6. QED BY <2>1, <2>2, <2>3, <2>4, <2>5
<1>11. QED BY <1>2, <1>9, <1>10

\* A step of the trail builder keeps the trail at hand right, and those it has finished.
LEMMA TrailSteps ==
  ASSUME Structured, IsTrail(trail), \A e \in trail.done : TrailKept(e),
         trail.comp # {} => TrailRight(trail),
         TrailStarts \/ TrailTakes \/ TrailEnds
  PROVE  /\ IsTrail(trail') /\ \A e \in trail'.done : TrailKept(e)
         /\ trail'.comp # {} => TrailRight(trail')
<1> DEFINE t == trail
           u == trail'
<1>1. t = [comp |-> t.comp, indeg |-> t.indeg, frontier |-> t.frontier, order |-> t.order, done |-> t.done]
  BY DEF IsTrail
<1>2. CASE TrailStarts
  <2>1. PICK comp \in WCC \ Trailed :
          LET reps  == Reps(comp)
              indeg == [r \in reps |-> Cardinality({s \in reps : r \in CondAdj(s)})] IN
          trail' = [trail EXCEPT !.comp = comp, !.indeg = indeg, !.order = <<>>,
                                 !.frontier = {r \in reps : indeg[r] = 0}]
    BY <1>2 DEF TrailStarts
  <2> DEFINE indeg == [r \in Reps(comp) |-> Cardinality({s \in Reps(comp) : r \in CondAdj(s)})]
             free == {r \in Reps(comp) : indeg[r] = 0}
             none == <<>>
  <2>2. u = [t EXCEPT !.comp = comp, !.indeg = indeg, !.order = none, !.frontier = free]
    BY <2>1
  <2> HIDE DEF indeg, free, none, t, u
  <2>3. u = [comp |-> comp, indeg |-> indeg, frontier |-> free, order |-> none, done |-> t.done]
    BY <1>1, <2>2
  <2>4. /\ u.comp = comp /\ u.indeg = indeg /\ u.frontier = free /\ u.order = none /\ u.done = t.done
        /\ IsTrail(u)
    BY <2>3 DEF IsTrail
  <2>5. /\ u.comp \in WCC /\ u.order = <<>>
        /\ u.indeg = [r \in Reps(u.comp) |-> Cardinality({s \in Reps(u.comp) : r \in CondAdj(s)})]
        /\ u.frontier = {r \in Reps(u.comp) : u.indeg[r] = 0}
    BY <2>4 DEF indeg, free, none
  <2>6. TrailRight(u)
    BY <2>4, <2>5, StartRight
  <2>7. QED BY <2>4, <2>6 DEF t, u
<1>3. CASE TrailTakes
  <2> DEFINE rep == FirstOf(t.frontier)
             indeg == [s \in DOMAIN t.indeg |-> t.indeg[s] - IF s \in CondAdj(rep) THEN 1 ELSE 0]
             order == t.order \o ByRank(ComponentOf(SCC, rep))
             free == (t.frontier \ {rep}) \union {s \in CondAdj(rep) : indeg[s] = 0}
  <2>1. t.frontier # {} /\ u = [t EXCEPT !.order = order, !.indeg = indeg, !.frontier = free]
    BY <1>3 DEF TrailTakes
  <2> HIDE DEF indeg, free, order, t, u
  <2>2. u = [comp |-> t.comp, indeg |-> indeg, frontier |-> free, order |-> order, done |-> t.done]
    BY <1>1, <2>1
  <2>3. /\ u.comp = t.comp /\ u.indeg = indeg /\ u.frontier = free /\ u.order = order /\ u.done = t.done
        /\ IsTrail(u)
    BY <2>2 DEF IsTrail
  <2>4. CASE t.comp = {}
    BY <2>3, <2>4 DEF t, u
  <2>5. CASE t.comp # {}
    <3>1. TrailRight(t) /\ IsTrail(t)
      BY <2>5 DEF t
    <3>2. t.comp \in WCC /\ t.frontier \in SUBSET Reps(t.comp)
      BY <3>1 DEF TrailRight
    <3>3. rep \in t.frontier
      BY <2>1, <3>2, FirstOfIn
    <3>4. ComponentOf(SCC, rep) = Class(rep)
      BY <3>2, <3>3, RepsOf
    <3>5. /\ u.order = t.order \o ByRank(Class(rep))
          /\ u.indeg = [s \in DOMAIN t.indeg |-> t.indeg[s] - IF s \in CondAdj(rep) THEN 1 ELSE 0]
          /\ u.frontier = (t.frontier \ {rep}) \union {s \in CondAdj(rep) : u.indeg[s] = 0}
      BY <2>3, <3>4 DEF order, indeg, free
    <3> HIDE DEF rep
    <3>6. TrailRight(u)
      BY <2>3, <3>1, <3>3, <3>5, TakeRight
    <3>7. QED BY <2>3, <3>6 DEF t, u
  <2>6. QED BY <2>4, <2>5
<1>4. CASE TrailEnds
  <2> DEFINE e == [comp |-> t.comp, order |-> t.order, root |-> HighestPageRank(t.comp)]
             none == {}
             nil == <<>>
  <2>1. t.comp # {} /\ t.frontier = {}
        /\ u = [t EXCEPT !.comp = none, !.indeg = nil, !.order = nil, !.done = @ \union {e}]
    BY <1>4 DEF TrailEnds
  <2>2. e.comp = t.comp /\ e.order = t.order /\ e.root = HighestPageRank(t.comp) /\ none = {}
    OBVIOUS
  <2> HIDE DEF e, none, nil, t, u
  <2>3. u = [comp |-> none, indeg |-> nil, frontier |-> t.frontier, order |-> nil, done |-> t.done \union {e}]
    BY <1>1, <2>1
  <2>4. u.comp = {} /\ u.done = t.done \union {e} /\ IsTrail(u)
    BY <2>2, <2>3 DEF IsTrail
  <2>5. TrailKept(e)
    <3>1. TrailRight(t) /\ IsTrail(t)
      BY <2>1 DEF t
    <3>2. QED BY <2>1, <2>2, <3>1, EndRight
  <2>6. QED BY <2>4, <2>5 DEF t, u
<1>5. QED BY <1>2, <1>3, <1>4

\* The trails are right in every step of a run.
LEMMA TrailInvStep ==
  ASSUME BaseInv, UfInv, TarjanInv, RankInv, TrailInv, [Next]_vars
  PROVE  TrailInv'
<1>1. given' = given
  BY DEF Next, vars, ResolveReferences, BuildGraph, StartComponents, WeakStep, WeakDone,
    StrongStep, StrongDone, SearchDistances, SearchPaths, Measure, CriticalSteps, CriticalEnds,
    PageRank, TrailStep, TrailsEnd, Terminating
<1>2. CASE TrailStep
  <2>1. stage = "trails" /\ stage' = "trails" /\ (TrailStarts \/ TrailTakes \/ TrailEnds)
        /\ graph' = graph /\ uf' = uf /\ tarjan' = tarjan /\ rank' = rank
    BY <1>2 DEF TrailStep
  <2>2. Structured
    BY <2>1, IsStructured
  <2>3. IsTrail(trail) /\ (\A e \in trail.done : TrailKept(e)) /\ (trail.comp # {} => TrailRight(trail))
    BY <2>1 DEF TrailInv
  <2>4. /\ IsTrail(trail') /\ \A e \in trail'.done : TrailKept(e)
        /\ trail'.comp # {} => TrailRight(trail')
    BY <2>1, <2>2, <2>3, TrailSteps
  <2>5. \A t : (TrailRight(t)' <=> TrailRight(t)) /\ (TrailKept(t)' <=> TrailKept(t))
    BY <1>1, <2>1, SameTrail
  <2>6. (\A e \in trail.done : TrailKept(e))' /\ (trail.comp # {} => TrailRight(trail))'
    BY <2>4, <2>5
  <2>7. QED BY <2>1, <2>4, <2>6 DEF TrailInv, IsTrail
<1>3. CASE PageRank
  <2>1. stage = "rank" /\ stage' = "trails" /\ trail' = trail
    BY <1>3 DEF PageRank
  <2>2. trail' = NewTrail /\ IsTrail(trail)
    BY <2>1 DEF TrailInv
  <2>3. trail'.comp = {} /\ trail'.done = {}
    BY <2>2 DEF NewTrail
  <2>4. QED BY <2>1, <2>2, <2>3 DEF TrailInv, IsTrail
<1>4. CASE TrailsEnd
  <2>1. /\ stage = "trails" /\ stage' = "done" /\ trail' = trail /\ Trailed = WCC
        /\ graph' = graph /\ uf' = uf /\ tarjan' = tarjan /\ rank' = rank
    BY <1>4 DEF TrailsEnd, TrailsDone, search
  <2>2. IsTrail(trail) /\ (\A e \in trail.done : TrailKept(e)) /\ (trail.comp # {} => TrailRight(trail))
    BY <2>1 DEF TrailInv
  <2>3. WCC' = WCC /\ \A t : (TrailRight(t)' <=> TrailRight(t)) /\ (TrailKept(t)' <=> TrailKept(t))
    BY <1>1, <2>1, SameTrail
  <2>4. (\A e \in trail.done : TrailKept(e))' /\ (trail.comp # {} => TrailRight(trail))'
    BY <2>1, <2>2, <2>3
  <2>5. (Trailed = WCC)'
    BY <2>1, <2>3 DEF Trailed
  <2>6. QED BY <2>1, <2>2, <2>4, <2>5 DEF TrailInv, IsTrail
<1>5. CASE ~(TrailStep \/ PageRank \/ TrailsEnd)
  <2>1. /\ trail' = trail /\ (stage' \in {"trails", "done"} <=> stage \in {"trails", "done"})
        /\ stage \in {"trails", "done"} =>
             stage' = stage /\ graph' = graph /\ uf' = uf /\ tarjan' = tarjan /\ rank' = rank
    <3>1. CASE UNCHANGED vars
      BY <3>1 DEF vars, search
    <3>2. CASE Next
      BY <1>5, <3>2 DEF Next, vars, search, ResolveReferences, BuildGraph, StartComponents, WeakStep,
        WeakDone, StrongStep, StrongDone, SearchDistances, SearchPaths, Measure, CriticalSteps,
        CriticalEnds, Terminating
    <3>3. QED BY <3>1, <3>2
  <2>2. CASE stage \in {"trails", "done"}
    <3>1. stage' = stage /\ trail' = trail /\ graph' = graph /\ uf' = uf /\ tarjan' = tarjan /\ rank' = rank
      BY <2>1, <2>2
    <3>2. IsTrail(trail) /\ (\A e \in trail.done : TrailKept(e)) /\ (trail.comp # {} => TrailRight(trail))
          /\ (stage = "done" => Trailed = WCC)
      BY <2>2 DEF TrailInv
    <3>3. WCC' = WCC /\ \A t : (TrailRight(t)' <=> TrailRight(t)) /\ (TrailKept(t)' <=> TrailKept(t))
      BY <1>1, <3>1, SameTrail
    <3>4. (\A e \in trail.done : TrailKept(e))' /\ (trail.comp # {} => TrailRight(trail))'
      BY <3>1, <3>2, <3>3
    <3>5. (Trailed = WCC)' <=> Trailed = WCC
      BY <3>1, <3>3 DEF Trailed
    <3>6. QED BY <2>2, <3>1, <3>2, <3>4, <3>5 DEF TrailInv, IsTrail
  <2>3. CASE stage \notin {"trails", "done"}
    <3>1. stage' \notin {"trails", "done"} /\ trail' = trail /\ IsTrail(trail) /\ trail = NewTrail
      BY <2>1, <2>3 DEF TrailInv
    <3>2. trail' = NewTrail' /\ stage' # "done"
      BY <3>1 DEF NewTrail
    <3>3. QED BY <3>1, <3>2 DEF TrailInv, IsTrail
  <2>4. QED BY <2>2, <2>3
<1>6. QED BY <1>2, <1>3, <1>4, <1>5

\* The trails are reading orders, whatever the scores and the order of links.
LEMMA TrailsHold ==
  ASSUME BaseInv, UfInv, TarjanInv, RankInv, TrailInv
  PROVE  TrailsAreTopological
<1> SUFFICES ASSUME Done PROVE TrailsAreTopological
  BY DEF TrailsAreTopological
<1>1. stage = "done" /\ Structured /\ Trailed = WCC /\ \A e \in trail.done : TrailKept(e)
  BY IsStructured DEF Done, TrailInv
<1>2. ASSUME NEW t \in trail.done
      PROVE  LET order == t.order IN
             /\ Len(order) = Cardinality(t.comp) /\ ToSet(order) = t.comp
             /\ \A d \in t.comp : rank[d] <= rank[t.root]
             /\ \A i, k \in DOMAIN order :
                  i < k /\ <<order[k], order[i]>> \in Reaches =>
                    /\ <<order[i], order[k]>> \in Reaches /\ rank[order[i]] >= rank[order[k]]
                    /\ \A j \in i..k : {<<order[k], order[j]>>, <<order[j], order[k]>>} \subseteq Reaches
  <2> DEFINE o == t.order
             n == Len(o)
  <2>1. /\ t.comp \in WCC /\ Orderly(o) /\ DOMAIN o = 1..n /\ n = Cardinality(t.comp) /\ Listed(o) = t.comp
        /\ \A d \in t.comp : rank[d] <= rank[t.root]
    BY <1>1 DEF TrailKept
  <2>2. ToSet(o) = t.comp
    BY <2>1 DEF ToSet, Listed
  <2>3. t.comp \in SUBSET Docs /\ Projected /\ IsFiniteSet(t.comp) /\ n \in Nat
    BY <1>1, <2>1, FS_CardinalityType DEF Structured
  <2>4. \A i \in 1..n : o[i] \in Docs
    BY <2>1, <2>3 DEF Listed
  <2> HIDE DEF o, n
  <2>5. \A x, y, z \in Docs : <<x, y>> \in Reaches /\ <<y, z>> \in Reaches => <<x, z>> \in Reaches
    BY <2>3, Reaching
  <2>6. ASSUME NEW i \in 1..n, NEW k \in 1..n, i < k, <<o[k], o[i]>> \in Reaches
        PROVE  /\ <<o[i], o[k]>> \in Reaches /\ rank[o[i]] >= rank[o[k]]
               /\ \A j \in i..k : {<<o[k], o[j]>>, <<o[j], o[k]>>} \subseteq Reaches
    <3>1. rank[o[i]] >= rank[o[k]] /\ \A j \in i..k : o[j] \in Class(o[i])
      BY <2>1, <2>6 DEF Orderly, n
    <3>2. k \in i..k
      BY <2>3, <2>6
    <3>3. <<o[i], o[k]>> \in Reaches
      BY <3>1, <3>2 DEF Class
    <3>4. ASSUME NEW j \in i..k PROVE <<o[k], o[j]>> \in Reaches /\ <<o[j], o[k]>> \in Reaches
      <4>1. <<o[i], o[j]>> \in Reaches /\ <<o[j], o[i]>> \in Reaches /\ o[j] \in Docs
        BY <3>1 DEF Class
      <4>2. o[i] \in Docs /\ o[k] \in Docs
        BY <2>4
      <4>3. QED BY <2>5, <2>6, <3>3, <4>1, <4>2
    <3>5. QED BY <3>1, <3>3, <3>4
  <2>7. QED BY <2>1, <2>2, <2>6 DEF o, n
<1>3. QED BY <1>1, <1>2 DEF TrailsAreTopological

-----------------------------------------------------------------------------
(* Cut points and bridges.                                                 *)

\* What the low-link search needs of the graph: neighbours are neighbours of each other.
Mutual ==
  /\ Docs \in SUBSET Nat /\ 0 \notin Docs
  /\ \A d \in Docs : /\ Neighbours(d) \in SUBSET Docs /\ IsFiniteSet(Neighbours(d)) /\ d \notin Neighbours(d)
                     /\ \A e \in Neighbours(d) : d \in Neighbours(e)

\* x and y are connected by documents of S alone.
Joins(S, x, y) ==
  /\ x \in S /\ y \in S
  /\ \A s \in SUBSET S : x \in s /\ (\A a \in s : Neighbours(a) \intersect S \subseteq s) => y \in s

\* They are connected without the link between a and b.
JoinsPast(a, b, x, y) ==
  /\ x \in Docs /\ y \in Docs
  /\ \A s \in SUBSET Docs :
       x \in s /\ (\A c \in s : \A e \in Neighbours(c) : {c, e} = {a, b} \/ e \in s) => y \in s

\* To be connected within a set of documents is reflexive, symmetric and transitive,
\* follows the links in the set, and lasts in a larger set.
LEMMA JoinsFacts ==
  ASSUME Mutual, NEW S \in SUBSET Docs
  PROVE  /\ \A x \in S : Joins(S, x, x)
         /\ \A x, y \in S : y \in Neighbours(x) => Joins(S, x, y)
         /\ \A x, y : Joins(S, x, y) => Joins(S, y, x)
         /\ \A x, y, z : Joins(S, x, y) /\ Joins(S, y, z) => Joins(S, x, z)
         /\ \A T \in SUBSET Docs : \A x, y : S \subseteq T /\ Joins(S, x, y) => Joins(T, x, y)
<1>1. \A x \in S : Joins(S, x, x)
  BY DEF Joins
<1>2. \A x, y \in S : y \in Neighbours(x) => Joins(S, x, y)
  BY DEF Joins
<1>3. ASSUME NEW x, NEW y, Joins(S, x, y) PROVE Joins(S, y, x)
  <2> SUFFICES ASSUME NEW s \in SUBSET S, y \in s, \A a \in s : Neighbours(a) \intersect S \subseteq s,
                      x \notin s
               PROVE  FALSE
    BY <1>3 DEF Joins
  <2> DEFINE r == S \ s
  <2>1. ASSUME NEW a \in r, NEW b \in Neighbours(a) \intersect S, b \in s PROVE FALSE
    <3>1. a \in Neighbours(b) \intersect S
      BY <2>1 DEF Mutual
    <3>2. QED BY <2>1, <3>1
  <2>2. \A a \in r : Neighbours(a) \intersect S \subseteq r
    BY <2>1
  <2>3. x \in r /\ r \in SUBSET S
    BY <1>3 DEF Joins
  <2> HIDE DEF r
  <2>4. y \in r
    BY <1>3, <2>2, <2>3 DEF Joins
  <2>5. QED BY <2>4 DEF r
<1>4. \A x, y, z : Joins(S, x, y) /\ Joins(S, y, z) => Joins(S, x, z)
  BY DEF Joins
<1>5. ASSUME NEW T \in SUBSET Docs, NEW x, NEW y, S \subseteq T, Joins(S, x, y) PROVE Joins(T, x, y)
  <2> SUFFICES ASSUME NEW s \in SUBSET T, x \in s, \A a \in s : Neighbours(a) \intersect T \subseteq s
               PROVE  y \in s
    BY <1>5 DEF Joins
  <2> DEFINE r == s \intersect S
  <2>1. r \in SUBSET S /\ x \in r /\ \A a \in r : Neighbours(a) \intersect S \subseteq r
    BY <1>5 DEF Joins
  <2> HIDE DEF r
  <2>2. y \in r
    BY <1>5, <2>1 DEF Joins
  <2>3. QED BY <2>2 DEF r
<1>6. QED BY <1>1, <1>2, <1>3, <1>4, <1>5

\* So is to be connected without the link between a and b; documents connected within a
\* set that lacks one of the two are.
LEMMA JoinsPastFacts ==
  ASSUME Mutual, NEW a, NEW b
  PROVE  /\ \A x, y \in Docs : y \in Neighbours(x) /\ {x, y} # {a, b} => JoinsPast(a, b, x, y)
         /\ \A x, y : JoinsPast(a, b, x, y) => JoinsPast(a, b, y, x)
         /\ \A x, y, z : JoinsPast(a, b, x, y) /\ JoinsPast(a, b, y, z) => JoinsPast(a, b, x, z)
         /\ \A S \in SUBSET Docs : \A x, y : (a \notin S \/ b \notin S) /\ Joins(S, x, y) => JoinsPast(a, b, x, y)
         /\ JoinsPast(a, b, a, b) <=> JoinsPast(b, a, b, a)
<1>1. \A x, y \in Docs : y \in Neighbours(x) /\ {x, y} # {a, b} => JoinsPast(a, b, x, y)
  BY DEF JoinsPast
<1>2. ASSUME NEW x, NEW y, JoinsPast(a, b, x, y) PROVE JoinsPast(a, b, y, x)
  <2> SUFFICES ASSUME NEW s \in SUBSET Docs, y \in s,
                      \A c \in s : \A e \in Neighbours(c) : {c, e} = {a, b} \/ e \in s,
                      x \notin s
               PROVE  FALSE
    BY <1>2 DEF JoinsPast
  <2> DEFINE r == Docs \ s
  <2>1. ASSUME NEW c \in r, NEW e \in Neighbours(c), e \in s PROVE {c, e} = {a, b}
    <3>1. c \in Neighbours(e) /\ c \notin s
      BY <2>1 DEF Mutual
    <3>2. {e, c} = {a, b}
      BY <2>1, <3>1
    <3>3. {e, c} = {c, e}
      OBVIOUS
    <3>4. QED BY <3>2, <3>3
  <2>2. \A c \in r : \A e \in Neighbours(c) : {c, e} = {a, b} \/ e \in r
    <3>1. \A c \in r : Neighbours(c) \subseteq Docs
      BY DEF Mutual
    <3>2. QED BY <2>1, <3>1
  <2>3. x \in r /\ r \in SUBSET Docs
    BY <1>2 DEF JoinsPast
  <2> HIDE DEF r
  <2>4. y \in r
    BY <1>2, <2>2, <2>3 DEF JoinsPast
  <2>5. QED BY <2>4 DEF r
<1>3. \A x, y, z : JoinsPast(a, b, x, y) /\ JoinsPast(a, b, y, z) => JoinsPast(a, b, x, z)
  BY DEF JoinsPast
<1>4. ASSUME NEW S \in SUBSET Docs, NEW x, NEW y, a \notin S \/ b \notin S, Joins(S, x, y)
      PROVE  JoinsPast(a, b, x, y)
  <2> SUFFICES ASSUME NEW s \in SUBSET Docs, x \in s,
                      \A c \in s : \A e \in Neighbours(c) : {c, e} = {a, b} \/ e \in s
               PROVE  y \in s
    BY <1>4 DEF Joins, JoinsPast
  <2> DEFINE r == s \intersect S
  <2>1. ASSUME NEW c \in r, NEW e \in Neighbours(c) \intersect S PROVE e \in r
    <3>1. {c, e} # {a, b}
      BY <1>4, <2>1
    <3>2. QED BY <2>1, <3>1
  <2>2. r \in SUBSET S /\ x \in r /\ \A c \in r : Neighbours(c) \intersect S \subseteq r
    BY <1>4, <2>1 DEF Joins
  <2> HIDE DEF r
  <2>3. y \in r
    BY <1>4, <2>2 DEF Joins
  <2>4. QED BY <2>3 DEF r
<1>5. JoinsPast(a, b, a, b) <=> JoinsPast(b, a, b, a)
  <2>1. {a, b} = {b, a}
    OBVIOUS
  <2>2. \A x, y : JoinsPast(a, b, x, y) <=> JoinsPast(b, a, x, y)
    BY <2>1 DEF JoinsPast
  <2>3. QED BY <1>2, <2>2
<1>6. QED BY <1>1, <1>2, <1>3, <1>4, <1>5

\* d is no cut point: what is connected stays so without it.
Whole(d) == \A x, y \in Docs \ {d} : Joins(Docs, x, y) => Joins(Docs \ {d}, x, y)

\* The link between a and b is no bridge.
Kept(a, b) == JoinsPast(a, b, a, b)

\* The document of a frame; the documents met; those met before the search from the
\* current root; those met since; those met since a frame was pushed, and since it
\* was pushed but before the next one was; and the neighbours a frame has looked at.
Held(s, k)       == s.work[k].v
Met(s)           == {d \in Docs : s.disc[d] # -1}
Past(s)          == {d \in Met(s) : Len(s.work) > 0 => s.disc[d] < s.disc[Held(s, 1)]}
Tree(s)          == Met(s) \ Past(s)
Over(s, k)       == {d \in Met(s) : s.disc[d] >= s.disc[Held(s, k)]}
InBlock(s, k, x) == x \in Over(s, k) /\ (k < Len(s.work) => x \notin Over(s, k + 1))
Tried(f)         == {Sorted(Neighbours(f.v))[i] : i \in 1..(f.next - 1)}

\* Documents are numbered as they are met, and the frames in the order of the numbers.
LowOrdered(s) ==
  /\ \A d \in Met(s) : s.disc[d] \in 0..(s.counter - 1)
  /\ \A d, e \in Met(s) : s.disc[d] = s.disc[e] => d = e
  /\ \A k \in 1..Len(s.work) : Held(s, k) \in Met(s)
  /\ \A j, k \in 1..Len(s.work) : j < k => s.disc[Held(s, j)] < s.disc[Held(s, k)]

\* Each frame hangs below the one before it, and skips the link to it once.
LowFrames(s) ==
  \A k \in 1..Len(s.work) :
    /\ Tried(s.work[k]) \subseteq Met(s)
    /\ s.work[k].parent # 0 => k > 1 /\ s.work[k].parent = Held(s, k - 1)
    /\ k > 1 => /\ Held(s, k) \in Neighbours(Held(s, k - 1))
                /\ Held(s, k - 1) \in Tried(s.work[k]) \/ s.work[k].parent = Held(s, k - 1)

\* The neighbours of a finished document are met, and were so before the next frame.
LowMet(s) ==
  /\ \A x \in Past(s) : Neighbours(x) \subseteq Past(s)
  /\ \A k \in 1..Len(s.work) : \A x \in Met(s) : InBlock(s, k, x) /\ x # Held(s, k) =>
       \A w \in Neighbours(x) : w \in Met(s) /\ (k < Len(s.work) => s.disc[w] < s.disc[Held(s, k + 1)])

\* low of a frame is the least number a link leads to from what was looked at in its
\* block, the link to the frame below left aside.
Leads(s, k, y, w) ==
  /\ y \in Over(s, k) /\ w \in Met(s) /\ w \in Neighbours(y)
  /\ k > 1 => ~(y = Held(s, k) /\ w = Held(s, k - 1))

Looked(s, k, x, w) ==
  /\ InBlock(s, k, x) /\ w \in Neighbours(x)
  /\ x = Held(s, k) => w \in Tried(s.work[k]) /\ (k > 1 => w # Held(s, k - 1))

LowIsLeast(s) ==
  \A k \in 1..Len(s.work) :
    /\ s.low[Held(s, k)] <= s.disc[Held(s, k)]
    /\ \/ s.low[Held(s, k)] = s.disc[Held(s, k)]
       \/ \E y, w \in Docs : Leads(s, k, y, w) /\ s.disc[w] = s.low[Held(s, k)]
    /\ \A x, w \in Docs : Looked(s, k, x, w) => s.low[Held(s, k)] <= s.disc[w]

\* What was met since a frame is connected, and so is what was met before it.
LowJoined(s) ==
  \A k \in 1..Len(s.work) :
    /\ \A x \in Over(s, k) : Joins(Over(s, k), x, Held(s, k))
    /\ k > 1 => \A x \in Tree(s) \ Over(s, k) : Joins(Tree(s) \ Over(s, k), x, Held(s, 1))

\* Without d, x is still connected to the root, or x hangs below d on the stack.
Clear(s, d, x) ==
  \/ \E k \in 1..Len(s.work) : k < Len(s.work) /\ d = Held(s, k) /\ x \in Over(s, k + 1)
  \/ Joins(Docs \ {d}, x, Held(s, 1))

\* aps has cut points only, and what is finished and not in it is none.
LowCuts(s) ==
  /\ s.aps \subseteq Docs /\ \A d \in s.aps : ~Whole(d)
  /\ \A d \in Past(s) \ s.aps : Whole(d)
  /\ Len(s.work) > 0 => \A d \in Tree(s) \ s.aps : d # Held(s, 1) =>
                          \A x \in Tree(s) : x # d => Clear(s, d, x)

\* The root is a cut point when it has more than one child.
LowRoot(s) ==
  Len(s.work) > 0 =>
    /\ s.work[1].children = 0 <=> Tree(s) = {Held(s, 1)}
    /\ s.work[1].children >= 2 => ~Whole(Held(s, 1))
    /\ s.work[1].children <= 1 =>
         \A x, y \in Tree(s) : x # Held(s, 1) /\ y # Held(s, 1) => Joins(Docs \ {Held(s, 1)}, x, y)

\* The link between x and w is one between two frames.
Stacked(s, x, w) == \E k \in 1..Len(s.work) : k > 1 /\ {x, w} = {Held(s, k - 1), Held(s, k)}

\* bridges has bridges only, and a link between documents met that is none of them and
\* not on the stack is no bridge.
LowBridges(s) ==
  /\ \A b \in s.bridges : \E a, c \in Docs : c \in Neighbours(a) /\ b = {a, c} /\ ~Kept(a, c)
  /\ \A x, w \in Met(s) : w \in Neighbours(x) =>
       {x, w} \in s.bridges \/ Kept(x, w) \/ Stacked(s, x, w)

LowTyped(s) ==
  /\ s.disc \in [Docs -> Int] /\ s.low \in [Docs -> Int] /\ s.counter \in Nat
  /\ Len(s.work) \in Nat /\ \A k \in 1..Len(s.work) : Held(s, k) \in Docs /\ s.work[k].children \in Nat

LowRight(s) ==
  /\ LowTyped(s) /\ LowOrdered(s) /\ LowFrames(s) /\ LowMet(s) /\ LowIsLeast(s) /\ LowJoined(s)
  /\ LowCuts(s) /\ LowRoot(s) /\ LowBridges(s)

-----------------------------------------------------------------------------
(* What the steps do.                                                      *)

\* A frame for w is pushed.
Finds(s, t, w) ==
  LET n == Len(s.work) IN
  /\ w \in Docs \ Met(s) /\ t.counter = s.counter + 1
  /\ t.disc = [s.disc EXCEPT ![w] = s.counter] /\ t.low = [s.low EXCEPT ![w] = s.counter]
  /\ t.aps = s.aps /\ t.bridges = s.bridges
  /\ Len(t.work) = n + 1 /\ Held(t, n + 1) = w /\ Tried(t.work[n + 1]) = {} /\ t.work[n + 1].children = 0
  /\ \A k \in 1..n : /\ Held(t, k) = Held(s, k) /\ t.work[k].parent = s.work[k].parent
                     /\ k < n => t.work[k] = s.work[k]
  /\ n = 0 => t.work[1].parent = 0
  /\ n > 0 => /\ t.work[n + 1].parent = Held(s, n) /\ w \in Neighbours(Held(s, n))
              /\ Tried(t.work[n]) = Tried(s.work[n]) \union {w}
              /\ t.work[n].children = s.work[n].children + 1

\* The last frame looks at a neighbour already met.
Tries(s, t, w) ==
  LET n == Len(s.work) IN
  /\ n > 0 /\ Len(t.work) = n /\ t.disc = s.disc /\ t.counter = s.counter
  /\ t.aps = s.aps /\ t.bridges = s.bridges
  /\ \A k \in 1..n : /\ Held(t, k) = Held(s, k) /\ t.work[k].children = s.work[k].children
                     /\ k < n => t.work[k] = s.work[k]
  /\ w \in Neighbours(Held(s, n)) /\ w \notin Tried(s.work[n])
  /\ Tried(t.work[n]) = Tried(s.work[n]) \union {w}
  /\ \/ /\ w = s.work[n].parent /\ t.work[n].parent = 0 /\ t.low = s.low
     \/ /\ w # s.work[n].parent /\ t.work[n].parent = s.work[n].parent /\ w \in Met(s)
        /\ t.low = [s.low EXCEPT ![Held(s, n)] = IF s.disc[w] < @ THEN s.disc[w] ELSE @]

\* The last frame has looked at every neighbour and hands down what it found.
Backs(s, t) ==
  LET n == Len(s.work)
      v == Held(s, n)
      p == Held(s, n - 1) IN
  /\ n > 1 /\ Len(t.work) = n - 1 /\ t.disc = s.disc /\ t.counter = s.counter
  /\ \A k \in 1..(n - 1) : t.work[k] = s.work[k]
  /\ Neighbours(v) \subseteq Tried(s.work[n])
  /\ t.low = [s.low EXCEPT ![p] = IF s.low[v] < @ THEN s.low[v] ELSE @]
  /\ t.aps = IF n - 1 > 1 /\ s.low[v] >= s.disc[p] THEN s.aps \union {p} ELSE s.aps
  /\ t.bridges = IF s.low[v] > s.disc[p] THEN s.bridges \union {{p, v}} ELSE s.bridges

\* The search from a root is over.
Ends(s, t) ==
  /\ Len(s.work) = 1 /\ Len(t.work) = 0 /\ t.disc = s.disc /\ t.counter = s.counter /\ t.low = s.low
  /\ Neighbours(Held(s, 1)) \subseteq Tried(s.work[1])
  /\ t.bridges = s.bridges
  /\ t.aps = IF s.work[1].children >= 2 THEN s.aps \union {Held(s, 1)} ELSE s.aps

\* What follows at once from the numbers.
LEMMA LowFacts ==
  ASSUME Mutual, NEW s, LowTyped(s), LowOrdered(s)
  PROVE  /\ Len(s.work) \in Nat /\ Met(s) \in SUBSET Docs /\ Past(s) \subseteq Met(s) /\ Tree(s) \subseteq Met(s)
         /\ \A x \in Docs : s.disc[x] \in Int /\ s.low[x] \in Int
         /\ \A k \in 1..Len(s.work) :
              /\ Held(s, k) \in Docs /\ Held(s, k) \in Over(s, k) /\ Over(s, k) \in SUBSET Tree(s)
              /\ \A j \in 1..Len(s.work) : j <= k => Over(s, k) \subseteq Over(s, j)
              /\ \A j \in 1..Len(s.work) : j < k => Held(s, j) \notin Over(s, k)
              /\ \A j \in 1..Len(s.work) : Held(s, j) = Held(s, k) => j = k
         /\ Len(s.work) > 0 => Tree(s) = Over(s, 1)
         /\ Len(s.work) = 0 => Tree(s) = {}
<1> DEFINE n == Len(s.work)
<1>1. n \in Nat /\ Met(s) \in SUBSET Docs /\ Past(s) \subseteq Met(s) /\ Tree(s) \subseteq Met(s)
  BY DEF LowTyped, Met, Past, Tree
<1>2. \A x \in Docs : s.disc[x] \in Int /\ s.low[x] \in Int
  BY DEF LowTyped
<1>3. \A k \in 1..n : Held(s, k) \in Met(s) /\ Held(s, k) \in Docs
  BY <1>1 DEF LowOrdered
<1>4. \A j, k \in 1..n : j < k => s.disc[Held(s, j)] < s.disc[Held(s, k)]
  BY DEF LowOrdered
<1> HIDE DEF n
<1>5. \A x, k : x \in Over(s, k) <=> x \in Met(s) /\ s.disc[x] >= s.disc[Held(s, k)]
  BY DEF Over
<1>6. \A x : x \in Tree(s) <=> x \in Met(s) /\ n > 0 /\ ~(s.disc[x] < s.disc[Held(s, 1)])
  BY DEF Tree, Past, n
<1>7. ASSUME NEW k \in 1..n
      PROVE  /\ Held(s, k) \in Over(s, k) /\ Over(s, k) \in SUBSET Tree(s)
             /\ \A j \in 1..n : j <= k => Over(s, k) \subseteq Over(s, j)
             /\ \A j \in 1..n : j < k => Held(s, j) \notin Over(s, k)
             /\ \A j \in 1..n : Held(s, j) = Held(s, k) => j = k
  <2>1. Held(s, k) \in Over(s, k)
    BY <1>2, <1>3, <1>5
  <2>2. \A j \in 1..n : j <= k => s.disc[Held(s, j)] <= s.disc[Held(s, k)] /\ s.disc[Held(s, j)] \in Int
    <3> TAKE j \in 1..n
    <3> HAVE j <= k
    <3>1. s.disc[Held(s, j)] \in Int
      BY <1>2, <1>3
    <3>2. j = k \/ j < k
      BY <1>1
    <3>3. CASE j = k
      BY <3>1, <3>3
    <3>4. CASE j < k
      <4>1. s.disc[Held(s, j)] < s.disc[Held(s, k)] /\ s.disc[Held(s, k)] \in Int
        BY <1>2, <1>3, <1>4, <3>4
      <4>2. QED BY <3>1, <4>1
    <3>5. QED BY <3>2, <3>3, <3>4
  <2>3. \A j \in 1..n : j <= k => Over(s, k) \subseteq Over(s, j)
    <3> SUFFICES ASSUME NEW j \in 1..n, j <= k, NEW x \in Over(s, k) PROVE x \in Over(s, j)
      OBVIOUS
    <3>1. x \in Met(s) /\ x \in Docs /\ s.disc[x] >= s.disc[Held(s, k)]
      BY <1>1, <1>5
    <3>2. s.disc[x] \in Int /\ s.disc[Held(s, k)] \in Int /\ s.disc[Held(s, j)] \in Int
          /\ s.disc[Held(s, j)] <= s.disc[Held(s, k)]
      BY <1>2, <1>3, <2>2, <3>1
    <3>3. QED BY <1>5, <3>1, <3>2
  <2>4. 1 \in 1..n /\ 1 <= k /\ n > 0
    BY <1>1
  <2>5. Over(s, k) \in SUBSET Tree(s)
    <3>1. Over(s, k) \subseteq Over(s, 1)
      BY <2>3, <2>4
    <3>2. \A x \in Over(s, 1) : x \in Tree(s)
      <4> TAKE x \in Over(s, 1)
      <4>1. x \in Met(s) /\ s.disc[x] >= s.disc[Held(s, 1)] /\ s.disc[x] \in Int /\ s.disc[Held(s, 1)] \in Int
        BY <1>1, <1>2, <1>3, <1>5, <2>4
      <4>2. QED BY <1>6, <2>4, <4>1
    <3>3. QED BY <3>1, <3>2
  <2>6. \A j \in 1..n : j < k => Held(s, j) \notin Over(s, k)
    <3> SUFFICES ASSUME NEW j \in 1..n, j < k, Held(s, j) \in Over(s, k) PROVE FALSE
      OBVIOUS
    <3>1. s.disc[Held(s, j)] >= s.disc[Held(s, k)] /\ s.disc[Held(s, j)] < s.disc[Held(s, k)]
      BY <1>4, <1>5
    <3>2. s.disc[Held(s, j)] \in Int /\ s.disc[Held(s, k)] \in Int
      BY <1>2, <1>3
    <3>3. QED BY <3>1, <3>2
  <2>7. \A j \in 1..n : Held(s, j) = Held(s, k) => j = k
    <3> SUFFICES ASSUME NEW j \in 1..n, Held(s, j) = Held(s, k), j # k PROVE FALSE
      OBVIOUS
    <3>1. j < k \/ k < j
      BY <1>1
    <3>2. s.disc[Held(s, j)] < s.disc[Held(s, k)] \/ s.disc[Held(s, k)] < s.disc[Held(s, j)]
      BY <1>4, <3>1
    <3>3. s.disc[Held(s, k)] \in Int /\ s.disc[Held(s, j)] = s.disc[Held(s, k)]
      BY <1>2, <1>3
    <3>4. QED BY <3>2, <3>3
  <2>8. QED BY <2>1, <2>3, <2>5, <2>6, <2>7
<1>8. n > 0 => Tree(s) = Over(s, 1)
  <2> SUFFICES ASSUME n > 0, NEW x PROVE x \in Tree(s) <=> x \in Over(s, 1)
    BY Zenon
  <2>1. 1 \in 1..n
    BY <1>1
  <2>2. x \in Met(s) => s.disc[x] \in Int /\ s.disc[Held(s, 1)] \in Int
    BY <1>1, <1>2, <1>3, <2>1
  <2>3. QED BY <1>5, <1>6, <2>2
<1>9. n = 0 => Tree(s) = {}
  BY <1>6
<1>10. QED BY <1>1, <1>2, <1>3, <1>7, <1>8, <1>9 DEF n

\* After a push, the new document is on top of the tree and of every frame.
LEMMA FindsSets ==
  ASSUME Mutual, NEW s, NEW t, NEW w, LowRight(s), Finds(s, t, w)
  PROVE  LET n == Len(s.work) IN
         /\ n \in Nat /\ w \in Docs /\ w \notin Met(s) /\ Met(s) \in SUBSET Docs
         /\ Met(t) = Met(s) \union {w} /\ Past(t) = Past(s) /\ Tree(t) = Tree(s) \union {w}
         /\ Len(t.work) = n + 1 /\ Over(t, n + 1) = {w} /\ Held(t, n + 1) = w
         /\ \A k \in 1..n : Held(t, k) = Held(s, k) /\ Over(t, k) = Over(s, k) \union {w}
         /\ \A x \in Met(s) : t.disc[x] = s.disc[x] /\ t.low[x] = s.low[x] /\ s.disc[x] < s.counter
         /\ t.disc[w] = s.counter /\ t.low[w] = s.counter /\ s.counter \in Int
         /\ \A x \in Past(s) : w \notin Neighbours(x) /\ x \notin Neighbours(w)
<1> DEFINE n == Len(s.work)
<1>0. LowTyped(s) /\ LowOrdered(s) /\ LowMet(s)
  BY DEF LowRight
<1>1. n \in Nat /\ Met(s) \in SUBSET Docs /\ Past(s) \subseteq Met(s) /\ Tree(s) \subseteq Met(s)
  BY <1>0, LowFacts
<1>2. \A x \in Docs : s.disc[x] \in Int
  BY <1>0, LowFacts
<1>3. \A k \in 1..n : Held(s, k) \in Docs /\ Held(s, k) \in Met(s)
  BY <1>0 DEF LowTyped, LowOrdered
<1>4. /\ w \in Docs /\ w \notin Met(s) /\ Len(t.work) = n + 1 /\ Held(t, n + 1) = w
      /\ t.disc = [s.disc EXCEPT ![w] = s.counter] /\ t.low = [s.low EXCEPT ![w] = s.counter]
      /\ \A k \in 1..n : Held(t, k) = Held(s, k)
  BY DEF Finds
<1>5. s.disc \in [Docs -> Int] /\ s.low \in [Docs -> Int] /\ s.counter \in Nat
  BY <1>0 DEF LowTyped
<1>6. \A x \in Met(s) : s.disc[x] \in 0..(s.counter - 1)
  BY <1>0 DEF LowOrdered
<1> HIDE DEF n
<1>7. \A x \in Docs : x # w => t.disc[x] = s.disc[x] /\ t.low[x] = s.low[x]
  BY <1>4, <1>5
<1>8. t.disc[w] = s.counter /\ t.low[w] = s.counter /\ s.counter # -1
  BY <1>4, <1>5
<1>9. \A x \in Met(s) : x # w /\ x \in Docs /\ t.disc[x] = s.disc[x] /\ t.low[x] = s.low[x] /\ s.disc[x] < s.counter
  BY <1>1, <1>4, <1>5, <1>6, <1>7
<1>10. Met(t) = Met(s) \union {w}
  BY <1>4, <1>7, <1>8 DEF Met
<1>11. ASSUME NEW k \in 1..n PROVE Over(t, k) = Over(s, k) \union {w}
  <2>1. /\ Held(t, k) = Held(s, k) /\ Held(s, k) \in Met(s)
        /\ t.disc[Held(t, k)] = s.disc[Held(s, k)] /\ s.disc[Held(s, k)] < s.counter
    BY <1>3, <1>4, <1>9
  <2>2. s.disc[Held(s, k)] \in Int
    BY <1>2, <1>3
  <2>3. s.counter >= s.disc[Held(s, k)]
    BY <1>5, <2>1, <2>2
  <2>4. \A x : x \in Over(t, k) <=> x \in Met(t) /\ t.disc[x] >= s.disc[Held(s, k)]
    BY <2>1 DEF Over
  <2>5. \A x : x \in Over(s, k) <=> x \in Met(s) /\ s.disc[x] >= s.disc[Held(s, k)]
    BY DEF Over
  <2>6. QED BY <1>8, <1>9, <1>10, <2>3, <2>4, <2>5
<1>12. Over(t, n + 1) = {w}
  <2>1. \A x : x \in Over(t, n + 1) <=> x \in Met(t) /\ t.disc[x] >= s.counter
    BY <1>4, <1>8 DEF Over
  <2>2. \A x \in Met(s) : ~(t.disc[x] >= s.counter)
    BY <1>2, <1>5, <1>9
  <2>3. s.counter >= s.counter
    BY <1>5
  <2>4. QED BY <1>8, <1>10, <2>1, <2>2, <2>3
<1>13. Past(t) = Past(s)
  <2>1. CASE n = 0
    <3>1. Past(s) = Met(s)
      BY <2>1 DEF Past, n
    <3>2. Len(t.work) > 0 /\ Held(t, 1) = w
      BY <1>4, <2>1
    <3>3. \A x : x \in Past(t) <=> x \in Met(t) /\ t.disc[x] < s.counter
      BY <1>8, <3>2 DEF Past
    <3>4. ~(s.counter < s.counter)
      BY <1>5
    <3>5. QED BY <1>8, <1>9, <1>10, <3>1, <3>3, <3>4
  <2>2. CASE n > 0
    <3>1. 1 \in 1..n /\ Len(t.work) > 0
      BY <1>1, <1>4, <2>2
    <3>2. /\ Held(t, 1) = Held(s, 1) /\ Held(s, 1) \in Met(s)
      BY <1>3, <1>4, <3>1
    <3>3. \A x : x \in Past(t) <=> x \in Met(t) /\ t.disc[x] < s.disc[Held(s, 1)]
      BY <1>9, <3>1, <3>2 DEF Past
    <3>4. \A x : x \in Past(s) <=> x \in Met(s) /\ s.disc[x] < s.disc[Held(s, 1)]
      BY <2>2 DEF Past, n
    <3>5. ~(s.counter < s.disc[Held(s, 1)])
      BY <1>2, <1>5, <1>9, <3>2
    <3>6. QED BY <1>8, <1>9, <1>10, <3>3, <3>4, <3>5
  <2>3. QED BY <1>1, <2>1, <2>2
<1>14. Tree(t) = Tree(s) \union {w}
  BY <1>1, <1>4, <1>10, <1>13 DEF Tree
<1>15. ASSUME NEW x \in Past(s) PROVE w \notin Neighbours(x) /\ x \notin Neighbours(w)
  <2>1. Neighbours(x) \subseteq Past(s) /\ x \in Docs
    BY <1>0, <1>1 DEF LowMet
  <2>2. w \notin Past(s)
    BY <1>1, <1>4
  <2>3. QED BY <1>4, <2>1, <2>2 DEF Mutual
<1>16. s.counter \in Int
  BY <1>5
<1>17. QED BY <1>1, <1>4, <1>8, <1>9, <1>10, <1>11, <1>12, <1>13, <1>14, <1>15, <1>16 DEF n

\* A new frame has a block of its own, the new document, and the other blocks stay what
\* they are.
LEMMA FindsBlocks ==
  ASSUME Mutual, NEW s, NEW t, NEW w, LowRight(s), Finds(s, t, w)
  PROVE  /\ \A k \in 1..Len(s.work) : \A x : InBlock(t, k, x) <=> InBlock(s, k, x)
         /\ \A x : InBlock(t, Len(s.work) + 1, x) <=> x = w
<1> DEFINE n == Len(s.work)
<1>1. /\ n \in Nat /\ w \notin Met(s) /\ Len(t.work) = n + 1 /\ Over(t, n + 1) = {w}
      /\ \A k \in 1..n : Over(t, k) = Over(s, k) \union {w}
  BY FindsSets
<1>2. \A k, x : x \in Over(s, k) => x \in Met(s)
  BY DEF Over
<1> HIDE DEF n
<1>3. ASSUME NEW k \in 1..n, NEW x PROVE InBlock(t, k, x) <=> InBlock(s, k, x)
  <2>1. InBlock(t, k, x) <=> x \in Over(t, k) /\ x \notin Over(t, k + 1)
    BY <1>1 DEF InBlock
  <2>2. CASE k = n
    <3>1. InBlock(s, k, x) <=> x \in Over(s, k)
      BY <1>1, <2>2 DEF InBlock, n
    <3>2. QED BY <1>1, <1>2, <2>1, <2>2, <3>1
  <2>3. CASE k # n
    <3>1. k < n /\ k + 1 \in 1..n
      BY <1>1, <2>3
    <3>2. InBlock(s, k, x) <=> x \in Over(s, k) /\ x \notin Over(s, k + 1)
      BY <3>1 DEF InBlock, n
    <3>3. QED BY <1>1, <1>2, <2>1, <3>1, <3>2
  <2>4. QED BY <2>2, <2>3
<1>4. \A x : InBlock(t, n + 1, x) <=> x = w
  BY <1>1 DEF InBlock
<1>5. QED BY <1>3, <1>4 DEF n

\* Pushing a frame keeps the numbers in order.
LEMMA FindsOrder ==
  ASSUME Mutual, NEW s, NEW t, NEW w, LowRight(s), Finds(s, t, w)
  PROVE  LowTyped(t) /\ LowOrdered(t)
<1> DEFINE n == Len(s.work)
<1>0. LowTyped(s) /\ LowOrdered(s)
  BY DEF LowRight
<1>1. /\ n \in Nat /\ w \in Docs /\ w \notin Met(s) /\ Met(s) \in SUBSET Docs
      /\ Met(t) = Met(s) \union {w} /\ Len(t.work) = n + 1 /\ Held(t, n + 1) = w
      /\ \A k \in 1..n : Held(t, k) = Held(s, k)
      /\ \A x \in Met(s) : t.disc[x] = s.disc[x] /\ s.disc[x] < s.counter
      /\ t.disc[w] = s.counter
  BY FindsSets
<1>2. /\ s.disc \in [Docs -> Int] /\ s.low \in [Docs -> Int] /\ s.counter \in Nat
      /\ \A k \in 1..n : Held(s, k) \in Docs /\ s.work[k].children \in Nat
  BY <1>0 DEF LowTyped
<1>3. /\ t.disc = [s.disc EXCEPT ![w] = s.counter] /\ t.low = [s.low EXCEPT ![w] = s.counter]
      /\ t.counter = s.counter + 1
      /\ t.work[n + 1].children = 0
      /\ \A k \in 1..n : k < n => t.work[k] = s.work[k]
      /\ n > 0 => t.work[n].children = s.work[n].children + 1
  BY DEF Finds
<1>4. \A k \in 1..n : Held(s, k) \in Met(s)
  BY <1>0 DEF LowOrdered
<1> HIDE DEF n
<1>5. \A k \in 1..(n + 1) : k = n + 1 \/ k \in 1..n
  BY <1>1
<1>6. LowTyped(t)
  <2>1. t.disc \in [Docs -> Int] /\ t.low \in [Docs -> Int] /\ t.counter \in Nat
    BY <1>1, <1>2, <1>3
  <2>2. ASSUME NEW k \in 1..n PROVE t.work[k].children \in Nat
    <3>1. CASE k < n
      BY <1>2, <1>3, <3>1
    <3>2. CASE k = n
      <4>1. n > 0 /\ n \in 1..n
        BY <1>1, <3>2
      <4>2. t.work[n].children = s.work[n].children + 1 /\ s.work[n].children \in Nat
        BY <1>2, <1>3, <4>1
      <4>3. QED BY <3>2, <4>2
    <3>3. QED BY <1>1, <3>1, <3>2
  <2>3. \A k \in 1..(n + 1) : Held(t, k) \in Docs /\ t.work[k].children \in Nat
    BY <1>1, <1>2, <1>3, <1>5, <2>2
  <2>4. QED BY <1>1, <2>1, <2>3 DEF LowTyped
<1>7. LowOrdered(t)
  <2>1. \A d \in Met(t) : t.disc[d] \in 0..(t.counter - 1)
    <3>1. \A d \in Met(s) : s.disc[d] \in 0..(s.counter - 1)
      BY <1>0 DEF LowOrdered
    <3>2. \A d \in Met(s) : t.disc[d] \in 0..(t.counter - 1)
      BY <1>1, <1>2, <1>3, <3>1
    <3>3. t.disc[w] \in 0..(t.counter - 1)
      BY <1>1, <1>2, <1>3
    <3>4. QED BY <1>1, <3>2, <3>3
  <2>2. \A d, e \in Met(t) : t.disc[d] = t.disc[e] => d = e
    <3>1. \A d, e \in Met(s) : s.disc[d] = s.disc[e] => d = e
      BY <1>0 DEF LowOrdered
    <3>2. \A d \in Met(s) : s.disc[d] # s.counter
      <4>1. \A d \in Met(s) : s.disc[d] \in Int
        BY <1>1, <1>2
      <4>2. QED BY <1>1, <1>2, <4>1
    <3>3. QED BY <1>1, <3>1, <3>2
  <2>3. \A k \in 1..(n + 1) : Held(t, k) \in Met(t)
    BY <1>1, <1>4, <1>5
  <2>4. ASSUME NEW j \in 1..(n + 1), NEW k \in 1..(n + 1), j < k
        PROVE  t.disc[Held(t, j)] < t.disc[Held(t, k)]
    <3>1. j \in 1..n /\ t.disc[Held(t, j)] = s.disc[Held(s, j)] /\ s.disc[Held(s, j)] < s.counter
      BY <1>1, <1>4, <2>4
    <3>2. CASE k = n + 1
      BY <1>1, <3>1, <3>2
    <3>3. CASE k \in 1..n
      <4>1. t.disc[Held(t, k)] = s.disc[Held(s, k)]
        BY <1>1, <1>4, <3>3
      <4>2. s.disc[Held(s, j)] < s.disc[Held(s, k)]
        BY <1>0, <2>4, <3>1, <3>3 DEF LowOrdered, n
      <4>3. QED BY <3>1, <4>1, <4>2
    <3>4. QED BY <1>5, <3>2, <3>3
  <2>5. QED BY <1>1, <2>1, <2>2, <2>3, <2>4 DEF LowOrdered
<1>8. QED BY <1>6, <1>7

\* Pushing a frame keeps the frames a path, and the neighbours of what is finished met.
LEMMA FindsFrames ==
  ASSUME Mutual, NEW s, NEW t, NEW w, LowRight(s), Finds(s, t, w)
  PROVE  LowFrames(t) /\ LowMet(t)
<1> DEFINE n == Len(s.work)
<1>0. LowTyped(s) /\ LowOrdered(s) /\ LowFrames(s) /\ LowMet(s)
  BY DEF LowRight
<1>1. /\ n \in Nat /\ w \in Docs /\ w \notin Met(s) /\ Met(s) \in SUBSET Docs
      /\ Met(t) = Met(s) \union {w} /\ Past(t) = Past(s) /\ Len(t.work) = n + 1 /\ Held(t, n + 1) = w
      /\ \A k \in 1..n : Held(t, k) = Held(s, k)
      /\ \A x \in Met(s) : t.disc[x] = s.disc[x] /\ s.disc[x] < s.counter
      /\ t.disc[w] = s.counter
  BY FindsSets
<1>2. /\ \A k \in 1..n : \A x : InBlock(t, k, x) <=> InBlock(s, k, x)
      /\ \A x : InBlock(t, n + 1, x) <=> x = w
  BY FindsBlocks
<1>3. /\ \A k \in 1..n : t.work[k].parent = s.work[k].parent /\ (k < n => t.work[k] = s.work[k])
      /\ Tried(t.work[n + 1]) = {}
      /\ n = 0 => t.work[1].parent = 0
      /\ n > 0 => /\ t.work[n + 1].parent = Held(s, n) /\ w \in Neighbours(Held(s, n))
                  /\ Tried(t.work[n]) = Tried(s.work[n]) \union {w}
  BY DEF Finds
<1>4. \A k \in 1..n : /\ Tried(s.work[k]) \subseteq Met(s)
                      /\ s.work[k].parent # 0 => k > 1 /\ s.work[k].parent = Held(s, k - 1)
                      /\ k > 1 => /\ Held(s, k) \in Neighbours(Held(s, k - 1))
                                  /\ Held(s, k - 1) \in Tried(s.work[k]) \/ s.work[k].parent = Held(s, k - 1)
  BY <1>0 DEF LowFrames
<1>5. \A k \in 1..n : Held(s, k) \in Met(s)
  BY <1>0 DEF LowOrdered
<1>6. /\ \A x \in Past(s) : Neighbours(x) \subseteq Past(s)
      /\ \A k \in 1..n : \A x \in Met(s) : InBlock(s, k, x) /\ x # Held(s, k) =>
           \A e \in Neighbours(x) : e \in Met(s) /\ (k < n => s.disc[e] < s.disc[Held(s, k + 1)])
  BY <1>0 DEF LowMet
<1> HIDE DEF n
<1>7. \A k \in 1..(n + 1) : k = n + 1 \/ k \in 1..n
  BY <1>1
<1>8. ASSUME NEW k \in 1..(n + 1)
      PROVE  /\ Tried(t.work[k]) \subseteq Met(t)
             /\ t.work[k].parent # 0 => k > 1 /\ t.work[k].parent = Held(t, k - 1)
             /\ k > 1 => /\ Held(t, k) \in Neighbours(Held(t, k - 1))
                         /\ Held(t, k - 1) \in Tried(t.work[k]) \/ t.work[k].parent = Held(t, k - 1)
  <2>1. CASE k = n + 1 /\ n = 0
    BY <1>1, <1>3, <2>1
  <2>2. CASE k = n + 1 /\ n # 0
    <3>1. n > 0 /\ n \in 1..n /\ k - 1 = n /\ k > 1
      BY <1>1, <2>2
    <3>2. QED BY <1>1, <1>3, <2>2, <3>1
  <2>3. CASE k \in 1..n
    <3>1. Tried(t.work[k]) \subseteq Met(t) /\ Tried(s.work[k]) \subseteq Tried(t.work[k])
      <4>1. CASE k < n
        BY <1>1, <1>3, <1>4, <2>3, <4>1
      <4>2. CASE k = n
        <5>1. n > 0
          BY <1>1, <2>3, <4>2
        <5>2. QED BY <1>1, <1>3, <1>4, <2>3, <4>2, <5>1
      <4>3. QED BY <1>1, <2>3, <4>1, <4>2
    <3>2. k > 1 => k - 1 \in 1..n /\ Held(t, k - 1) = Held(s, k - 1)
      BY <1>1, <2>3
    <3>3. Held(t, k) = Held(s, k) /\ t.work[k].parent = s.work[k].parent
      BY <1>1, <1>3, <2>3
    <3>4. QED BY <1>4, <2>3, <3>1, <3>2, <3>3
  <2>4. QED BY <1>7, <2>1, <2>2, <2>3
<1>9. LowFrames(t)
  BY <1>1, <1>8 DEF LowFrames
<1>10. ASSUME NEW k \in 1..(n + 1), NEW x \in Met(t), InBlock(t, k, x), x # Held(t, k), NEW e \in Neighbours(x)
       PROVE  e \in Met(t) /\ (k < n + 1 => t.disc[e] < t.disc[Held(t, k + 1)])
  <2>1. k \in 1..n
    BY <1>1, <1>2, <1>7, <1>10
  <2>2. InBlock(s, k, x) /\ x # Held(s, k) /\ x \in Met(s)
    BY <1>1, <1>2, <1>10, <2>1 DEF InBlock, Over
  <2>3. e \in Met(s) /\ (k < n => s.disc[e] < s.disc[Held(s, k + 1)])
    BY <1>6, <2>1, <2>2
  <2>4. CASE k = n
    BY <1>1, <2>3, <2>4
  <2>5. CASE k # n
    <3>1. k < n /\ k + 1 \in 1..n
      BY <1>1, <2>1, <2>5
    <3>2. t.disc[Held(t, k + 1)] = s.disc[Held(s, k + 1)]
      BY <1>1, <1>5, <3>1
    <3>3. QED BY <1>1, <2>3, <3>1, <3>2
  <2>6. QED BY <2>4, <2>5
<1>11. LowMet(t)
  <2>1. \A x \in Past(t) : Neighbours(x) \subseteq Past(t)
    BY <1>1, <1>6
  <2>2. QED BY <1>1, <1>10, <2>1 DEF LowMet
<1>12. QED BY <1>9, <1>11

\* Pushing a frame keeps low the least number looked at: no link from below leads to the
\* new document.
LEMMA FindsLeast ==
  ASSUME Mutual, NEW s, NEW t, NEW w, LowRight(s), Finds(s, t, w)
  PROVE  LowIsLeast(t)
<1> DEFINE n == Len(s.work)
<1>0. LowTyped(s) /\ LowOrdered(s) /\ LowFrames(s) /\ LowMet(s) /\ LowIsLeast(s)
  BY DEF LowRight
<1>1. /\ n \in Nat /\ w \in Docs /\ w \notin Met(s) /\ Met(s) \in SUBSET Docs
      /\ Met(t) = Met(s) \union {w} /\ Len(t.work) = n + 1 /\ Held(t, n + 1) = w
      /\ \A k \in 1..n : Held(t, k) = Held(s, k) /\ Over(t, k) = Over(s, k) \union {w}
      /\ \A x \in Met(s) : t.disc[x] = s.disc[x] /\ t.low[x] = s.low[x] /\ s.disc[x] < s.counter
      /\ t.disc[w] = s.counter /\ t.low[w] = s.counter /\ s.counter \in Int
  BY FindsSets
<1>2. /\ \A k \in 1..n : \A x : InBlock(t, k, x) <=> InBlock(s, k, x)
      /\ \A x : InBlock(t, n + 1, x) <=> x = w
  BY FindsBlocks
<1>3. /\ \A k \in 1..n : k < n => t.work[k] = s.work[k]
      /\ Tried(t.work[n + 1]) = {}
      /\ n > 0 => Tried(t.work[n]) = Tried(s.work[n]) \union {w}
  BY DEF Finds
<1>5. \A k \in 1..n : Held(s, k) \in Met(s) /\ Tried(s.work[k]) \subseteq Met(s)
  BY <1>0 DEF LowOrdered, LowFrames
<1>6. \A k \in 1..n : \A x \in Met(s) : InBlock(s, k, x) /\ x # Held(s, k) => Neighbours(x) \subseteq Met(s)
  BY <1>0 DEF LowMet
<1>7. \A k \in 1..n :
        /\ s.low[Held(s, k)] <= s.disc[Held(s, k)]
        /\ \/ s.low[Held(s, k)] = s.disc[Held(s, k)]
           \/ \E y, e \in Docs : Leads(s, k, y, e) /\ s.disc[e] = s.low[Held(s, k)]
        /\ \A x, e \in Docs : Looked(s, k, x, e) => s.low[Held(s, k)] <= s.disc[e]
  BY <1>0 DEF LowIsLeast
<1>8. \A x \in Docs : s.disc[x] \in Int /\ s.low[x] \in Int
  BY <1>0, LowFacts
<1> HIDE DEF n
<1>9. \A k \in 1..(n + 1) : k = n + 1 \/ k \in 1..n
  BY <1>1
<1>10. ASSUME NEW k \in 1..n
       PROVE  /\ t.low[Held(t, k)] = s.low[Held(s, k)] /\ t.disc[Held(t, k)] = s.disc[Held(s, k)]
              /\ s.low[Held(s, k)] < s.counter
              /\ k > 1 => k - 1 \in 1..n /\ Held(t, k - 1) = Held(s, k - 1)
  <2>1. Held(t, k) = Held(s, k) /\ Held(s, k) \in Met(s)
    BY <1>1, <1>5
  <2>2. s.low[Held(s, k)] \in Int /\ s.disc[Held(s, k)] \in Int /\ s.disc[Held(s, k)] < s.counter
        /\ s.low[Held(s, k)] <= s.disc[Held(s, k)]
    BY <1>1, <1>7, <1>8, <2>1
  <2>3. k > 1 => k - 1 \in 1..n
    BY <1>1
  <2>4. QED BY <1>1, <2>1, <2>2, <2>3
<1>11. ASSUME NEW k \in 1..(n + 1)
       PROVE  /\ t.low[Held(t, k)] <= t.disc[Held(t, k)]
              /\ \/ t.low[Held(t, k)] = t.disc[Held(t, k)]
                 \/ \E y, e \in Docs : Leads(t, k, y, e) /\ t.disc[e] = t.low[Held(t, k)]
  <2>1. CASE k = n + 1
    BY <1>1, <2>1
  <2>2. CASE k \in 1..n
    <3>1. CASE s.low[Held(s, k)] = s.disc[Held(s, k)]
      BY <1>7, <1>10, <2>2, <3>1
    <3>2. CASE s.low[Held(s, k)] # s.disc[Held(s, k)]
      <4>1. PICK y \in Docs, e \in Docs : Leads(s, k, y, e) /\ s.disc[e] = s.low[Held(s, k)]
        BY <1>7, <2>2, <3>2
      <4>2. /\ y \in Over(s, k) /\ e \in Met(s) /\ e \in Neighbours(y)
            /\ k > 1 => ~(y = Held(s, k) /\ e = Held(s, k - 1))
        BY <4>1 DEF Leads
      <4>3. y \in Over(t, k) /\ e \in Met(t) /\ t.disc[e] = s.disc[e]
        BY <1>1, <2>2, <4>2
      <4>4. k > 1 => ~(y = Held(t, k) /\ e = Held(t, k - 1))
        BY <1>1, <1>10, <2>2, <4>2
      <4>5. Leads(t, k, y, e) /\ t.disc[e] = t.low[Held(t, k)]
        BY <1>10, <2>2, <4>1, <4>2, <4>3, <4>4 DEF Leads
      <4>6. QED BY <1>7, <1>10, <2>2, <4>5
    <3>3. QED BY <3>1, <3>2
  <2>3. QED BY <1>9, <2>1, <2>2
<1>12. ASSUME NEW k \in 1..(n + 1), NEW x \in Docs, NEW e \in Docs, Looked(t, k, x, e)
       PROVE  t.low[Held(t, k)] <= t.disc[e]
  <2>0. /\ InBlock(t, k, x) /\ e \in Neighbours(x)
        /\ x = Held(t, k) => e \in Tried(t.work[k]) /\ (k > 1 => e # Held(t, k - 1))
    BY <1>12 DEF Looked
  <2>1. k # n + 1
    BY <1>1, <1>2, <1>3, <2>0
  <2>2. k \in 1..n
    BY <1>9, <2>1
  <2>3. InBlock(s, k, x) /\ x \in Met(s)
    BY <1>2, <2>0, <2>2 DEF InBlock, Over
  <2>4. CASE e = w
    BY <1>1, <1>8, <1>10, <1>5, <2>2, <2>4
  <2>5. CASE e # w
    <3>1. x = Held(t, k) => e \in Tried(s.work[k])
      <4>1. CASE k < n
        BY <1>3, <2>0, <2>2, <4>1
      <4>2. CASE k = n
        <5>1. n > 0
          BY <1>1, <2>2, <4>2
        <5>2. QED BY <1>3, <2>0, <2>5, <4>2, <5>1
      <4>3. QED BY <1>1, <2>2, <4>1, <4>2
    <3>2. Held(t, k) = Held(s, k) /\ (k > 1 => Held(t, k - 1) = Held(s, k - 1))
      BY <1>1, <1>10, <2>2
    <3>3. Looked(s, k, x, e)
      BY <2>0, <2>3, <3>1, <3>2 DEF Looked
    <3>4. e \in Met(s)
      BY <1>5, <1>6, <2>0, <2>2, <2>3, <3>1, <3>2
    <3>5. s.low[Held(s, k)] <= s.disc[e]
      BY <1>7, <2>2, <3>3
    <3>6. QED BY <1>1, <1>10, <2>2, <3>4, <3>5
  <2>6. QED BY <2>4, <2>5
<1>13. QED BY <1>1, <1>11, <1>12 DEF LowIsLeast

\* Pushing a frame keeps what was met since a frame connected, and what was met before
\* it.
LEMMA FindsJoined ==
  ASSUME Mutual, NEW s, NEW t, NEW w, LowRight(s), Finds(s, t, w)
  PROVE  LowJoined(t)
<1> DEFINE n == Len(s.work)
           r == Held(s, 1)
           v == Held(s, n)
<1>0. LowTyped(s) /\ LowOrdered(s)
  BY DEF LowRight
<1>1. /\ n \in Nat /\ w \in Docs /\ w \notin Met(s) /\ Met(s) \in SUBSET Docs
      /\ Tree(t) = Tree(s) \union {w} /\ Len(t.work) = n + 1 /\ Held(t, n + 1) = w /\ Over(t, n + 1) = {w}
      /\ \A k \in 1..n : Held(t, k) = Held(s, k) /\ Over(t, k) = Over(s, k) \union {w}
  BY FindsSets
<1>2. /\ Tree(s) \subseteq Met(s)
      /\ n > 0 => Tree(s) = Over(s, 1)
      /\ \A k \in 1..n : /\ Held(s, k) \in Docs /\ Held(s, k) \in Over(s, k) /\ Over(s, k) \in SUBSET Tree(s)
                         /\ \A j \in 1..n : j <= k => Over(s, k) \subseteq Over(s, j)
  BY <1>0, LowFacts
<1>3. n > 0 => w \in Neighbours(v)
  BY DEF Finds
<1>4. \A k \in 1..n :
        /\ \A x \in Over(s, k) : Joins(Over(s, k), x, Held(s, k))
        /\ k > 1 => \A x \in Tree(s) \ Over(s, k) : Joins(Tree(s) \ Over(s, k), x, r)
  BY DEF LowRight, LowJoined
<1> HIDE DEF n, r, v
<1>5. ASSUME NEW k \in 1..n PROVE \A x \in Over(t, k) : Joins(Over(t, k), x, Held(t, k))
  <2> DEFINE O == Over(s, k)
             P == Over(t, k)
  <2>1. n > 0 /\ n \in 1..n /\ k <= n
    BY <1>1
  <2>2. P = O \union {w} /\ P \in SUBSET Docs /\ O \in SUBSET Docs /\ O \subseteq P /\ Held(t, k) = Held(s, k)
    BY <1>1, <1>2
  <2>3. v \in O /\ v \in Docs
    BY <1>2, <2>1 DEF v
  <2>4. w \in Neighbours(v) /\ v \in Neighbours(w)
    BY <1>1, <1>3, <2>1, <2>3 DEF Mutual
  <2>5. \A x \in O : Joins(O, x, Held(s, k))
    BY <1>4
  <2> HIDE DEF O, P
  <2>6. \A x \in O : Joins(P, x, Held(s, k))
    BY <2>2, <2>5, JoinsFacts
  <2>7. Joins(P, w, v)
    BY <2>2, <2>3, <2>4, JoinsFacts
  <2>8. Joins(P, w, Held(s, k))
    BY <2>2, <2>3, <2>6, <2>7, JoinsFacts
  <2>9. QED BY <2>2, <2>6, <2>8 DEF P
<1>6. ASSUME NEW k \in 1..n, k > 1
      PROVE  \A x \in Tree(t) \ Over(t, k) : Joins(Tree(t) \ Over(t, k), x, Held(t, 1))
  <2>1. Tree(t) \ Over(t, k) = Tree(s) \ Over(s, k)
    BY <1>1, <1>2
  <2>2. Held(t, 1) = r
    BY <1>1, <1>6 DEF r
  <2>3. QED BY <1>4, <1>6, <2>1, <2>2
<1>7. \A x \in Over(t, n + 1) : Joins(Over(t, n + 1), x, Held(t, n + 1))
  <2> DEFINE W == {w}
  <2>1. W \in SUBSET Docs /\ w \in W
    BY <1>1
  <2> HIDE DEF W
  <2>2. Joins(W, w, w)
    BY <2>1, JoinsFacts
  <2>3. QED BY <1>1, <2>2 DEF W
<1>8. ASSUME n + 1 > 1
      PROVE  \A x \in Tree(t) \ Over(t, n + 1) : Joins(Tree(t) \ Over(t, n + 1), x, Held(t, 1))
  <2>1. n > 0 /\ 1 \in 1..n
    BY <1>1, <1>8
  <2>2. Tree(t) \ Over(t, n + 1) = Tree(s)
    BY <1>1, <1>2
  <2>3. Tree(s) = Over(s, 1) /\ Held(t, 1) = Held(s, 1)
    BY <1>1, <1>2, <2>1
  <2>4. \A x \in Over(s, 1) : Joins(Over(s, 1), x, Held(s, 1))
    BY <1>4, <2>1
  <2>5. QED BY <2>2, <2>3, <2>4
<1>9. \A k \in 1..(n + 1) : k = n + 1 \/ k \in 1..n
  BY <1>1
<1>10. QED BY <1>1, <1>5, <1>6, <1>7, <1>8, <1>9 DEF LowJoined

\* Pushing a frame keeps the cut points: the new document hangs below the last frame.
LEMMA FindsCuts ==
  ASSUME Mutual, NEW s, NEW t, NEW w, LowRight(s), Finds(s, t, w)
  PROVE  LowCuts(t)
<1> DEFINE n == Len(s.work)
           r == Held(s, 1)
           v == Held(s, n)
<1>0. LowTyped(s) /\ LowOrdered(s) /\ LowCuts(s)
  BY DEF LowRight
<1>1. /\ n \in Nat /\ w \in Docs /\ w \notin Met(s) /\ Met(s) \in SUBSET Docs /\ Past(t) = Past(s)
      /\ Tree(t) = Tree(s) \union {w} /\ Len(t.work) = n + 1 /\ Held(t, n + 1) = w /\ Over(t, n + 1) = {w}
      /\ \A k \in 1..n : Held(t, k) = Held(s, k) /\ Over(t, k) = Over(s, k) \union {w}
  BY FindsSets
<1>2. /\ Tree(s) \subseteq Met(s)
      /\ n > 0 => Tree(s) = Over(s, 1)
      /\ n = 0 => Tree(s) = {}
      /\ \A k \in 1..n : /\ Held(s, k) \in Docs /\ Held(s, k) \in Over(s, k) /\ Over(s, k) \in SUBSET Tree(s)
                         /\ \A j \in 1..n : Held(s, j) = Held(s, k) => j = k
  BY <1>0, LowFacts
<1>3. (n > 0 => w \in Neighbours(v)) /\ t.aps = s.aps
  BY DEF Finds
<1>4. n > 0 => \A x \in Over(s, 1) : Joins(Over(s, 1), x, r)
  <2>1. n > 0 => 1 \in 1..n
    BY <1>1
  <2>2. \A k \in 1..n : \A x \in Over(s, k) : Joins(Over(s, k), x, Held(s, k))
    BY DEF LowRight, LowJoined
  <2>3. QED BY <2>1, <2>2
<1>5. n > 0 => \A d \in Tree(s) \ s.aps : d # r => \A x \in Tree(s) : x # d => Clear(s, d, x)
  BY <1>0 DEF LowCuts
<1> HIDE DEF n, r, v
<1>6. ASSUME NEW d \in Tree(t) \ t.aps, d # Held(t, 1), NEW x \in Tree(t), x # d
      PROVE  Clear(t, d, x)
  <2>1. n > 0
    <3>1. CASE n = 0
      BY <1>1, <1>2, <1>6, <3>1
    <3>2. QED BY <1>1, <3>1
  <2>2. 1 \in 1..n /\ n \in 1..n /\ Held(t, 1) = r
    BY <1>1, <2>1 DEF r
  <2>3. r \in Tree(s) /\ v \in Tree(s) /\ r \in Docs /\ v \in Docs
    BY <1>2, <2>2 DEF r, v
  <2> DEFINE D == Docs \ {d}
  <2>4. D \in SUBSET Docs /\ d \in Docs /\ x \in D /\ r \in D
    BY <1>1, <1>2, <1>6, <2>2, <2>3
  <2>5. Joins(D, x, r) => Clear(t, d, x)
    BY <2>2 DEF Clear
  <2>6. CASE d = w
    <3>1. x \in Tree(s) /\ Tree(s) \in SUBSET D /\ Tree(s) \in SUBSET Docs
      BY <1>1, <1>2, <1>6, <2>6
    <3>2. Joins(Tree(s), x, r)
      BY <1>2, <1>4, <2>1, <3>1
    <3> HIDE DEF D
    <3>3. Joins(D, x, r)
      BY <2>4, <3>1, <3>2, JoinsFacts
    <3>4. QED BY <2>5, <3>3
  <2>7. CASE d # w /\ x = w
    <3>1. d \in Tree(s) \ s.aps
      BY <1>1, <1>3, <1>6, <2>7
    <3>2. CASE \E k \in 1..n : d = Held(s, k)
      <4>1. PICK k \in 1..n : d = Held(s, k)
        BY <3>2
      <4>2. k \in 1..(n + 1) /\ k < n + 1 /\ d = Held(t, k)
        BY <1>1, <4>1
      <4>3. w \in Over(t, k + 1)
        <5>1. k + 1 = n + 1 \/ k + 1 \in 1..n
          BY <1>1
        <5>2. QED BY <1>1, <5>1
      <4>4. QED BY <1>1, <2>7, <4>2, <4>3 DEF Clear
    <3>3. CASE ~\E k \in 1..n : d = Held(s, k)
      <4>1. v # d
        BY <2>2, <3>3 DEF v
      <4>2. Clear(s, d, v)
        BY <1>5, <1>6, <2>1, <2>2, <2>3, <3>1, <4>1
      <4>3. Joins(D, v, r)
        BY <3>3, <4>2 DEF Clear, r, n
      <4>4. w \in Neighbours(v) /\ v \in Neighbours(w) /\ v \in D /\ w \in D
        BY <1>1, <1>3, <2>1, <2>3, <2>7, <4>1 DEF Mutual
      <4> HIDE DEF D
      <4>5. Joins(D, w, v)
        BY <2>4, <4>4, JoinsFacts
      <4>6. Joins(D, w, r)
        BY <2>4, <4>3, <4>5, JoinsFacts
      <4>7. QED BY <2>5, <2>7, <4>6
    <3>4. QED BY <3>2, <3>3
  <2>8. CASE d # w /\ x # w
    <3>1. d \in Tree(s) \ s.aps /\ x \in Tree(s)
      BY <1>1, <1>3, <1>6, <2>8
    <3>2. Clear(s, d, x)
      BY <1>5, <1>6, <2>1, <2>2, <3>1
    <3>3. CASE \E k \in 1..n : k < n /\ d = Held(s, k) /\ x \in Over(s, k + 1)
      <4>1. PICK k \in 1..n : k < n /\ d = Held(s, k) /\ x \in Over(s, k + 1)
        BY <3>3
      <4>2. k \in 1..(n + 1) /\ k < n + 1 /\ d = Held(t, k) /\ k + 1 \in 1..n
        BY <1>1, <4>1
      <4>3. x \in Over(t, k + 1)
        BY <1>1, <4>1, <4>2
      <4>4. QED BY <1>1, <4>2, <4>3 DEF Clear
    <3>4. QED BY <2>5, <3>2, <3>3 DEF Clear, n, r
  <2>9. QED BY <2>6, <2>7, <2>8
<1>7. /\ t.aps \subseteq Docs /\ \A d \in t.aps : ~Whole(d)
      /\ \A d \in Past(t) \ t.aps : Whole(d)
  BY <1>0, <1>1, <1>3 DEF LowCuts
<1>8. QED BY <1>6, <1>7 DEF LowCuts

\* The tree of the current root is connected, and no link leads to earlier ones.
LEMMA TreeFacts ==
  ASSUME Mutual, NEW s, LowRight(s), Len(s.work) > 0
  PROVE  /\ Held(s, 1) \in Tree(s) /\ Tree(s) \in SUBSET Docs /\ Tree(s) \subseteq Met(s)
         /\ \A x \in Tree(s) : Joins(Tree(s), x, Held(s, 1))
         /\ \A x, y \in Tree(s) : Joins(Tree(s), x, y)
         /\ \A x \in Tree(s) : \A y \in Neighbours(x) : y \notin Past(s)
         /\ \A x \in Met(s) : x \notin Past(s) => x \in Tree(s)
<1>0. LowTyped(s) /\ LowOrdered(s) /\ LowMet(s)
  BY DEF LowRight
<1>1. /\ Len(s.work) \in Nat /\ Tree(s) = Over(s, 1) /\ Tree(s) \subseteq Met(s)
      /\ Met(s) \in SUBSET Docs /\ Past(s) \subseteq Met(s)
  BY <1>0, LowFacts
<1>2. 1 \in 1..Len(s.work)
  BY <1>1
<1>3. Held(s, 1) \in Tree(s)
  BY <1>0, <1>1, <1>2, LowFacts
<1>4. \A x \in Tree(s) : Joins(Tree(s), x, Held(s, 1))
  BY <1>1, <1>2 DEF LowRight, LowJoined
<1> DEFINE T == Tree(s)
           r == Held(s, 1)
<1>5. T \in SUBSET Docs /\ r \in T /\ \A x \in T : Joins(T, x, r)
  BY <1>1, <1>3, <1>4
<1> HIDE DEF T, r
<1>6. \A x, y \in T : Joins(T, x, y)
  BY <1>5, JoinsFacts
<1>7. ASSUME NEW x \in T, NEW y \in Neighbours(x), y \in Past(s) PROVE FALSE
  <2>1. Neighbours(y) \subseteq Past(s) /\ x \in Docs
    BY <1>0, <1>5, <1>7 DEF LowMet
  <2>2. x \in Neighbours(y)
    BY <1>7, <2>1 DEF Mutual
  <2>3. QED BY <1>7, <2>1, <2>2 DEF T, Tree
<1>8. \A x \in Met(s) : x \notin Past(s) => x \in T
  BY DEF T, Tree
<1>9. QED BY <1>1, <1>3, <1>4, <1>5, <1>6, <1>7, <1>8 DEF T, r

\* Pushing a frame keeps the count of the root's children right: without the root, a
\* second child is not connected to the first.
LEMMA FindsRoot ==
  ASSUME Mutual, NEW s, NEW t, NEW w, LowRight(s), Finds(s, t, w)
  PROVE  LowRoot(t)
<1> DEFINE n == Len(s.work)
           r == Held(s, 1)
           v == Held(s, n)
           D == Docs \ {r}
<1>0. LowTyped(s) /\ LowOrdered(s)
  BY DEF LowRight
<1>1. /\ n \in Nat /\ w \in Docs /\ w \notin Met(s) /\ Met(s) \in SUBSET Docs
      /\ Tree(t) = Tree(s) \union {w} /\ Len(t.work) = n + 1 /\ Held(t, n + 1) = w
      /\ \A k \in 1..n : Held(t, k) = Held(s, k)
  BY FindsSets
<1>2. /\ t.work[n + 1].children = 0
      /\ \A k \in 1..n : k < n => t.work[k] = s.work[k]
      /\ n > 0 => w \in Neighbours(v) /\ t.work[n].children = s.work[n].children + 1
  BY DEF Finds
<1>3. CASE n = 0
  <2>1. Tree(s) = {} /\ Held(t, 1) = w /\ t.work[1].children = 0
    BY <1>0, <1>1, <1>2, <1>3, LowFacts
  <2>2. QED BY <1>1, <2>1 DEF LowRoot
<1>4. CASE n > 0
  <2>1. 1 \in 1..n /\ n \in 1..n /\ Held(t, 1) = r
    BY <1>1, <1>4
  <2>2. /\ r \in Tree(s) /\ Tree(s) \in SUBSET Docs /\ Tree(s) \subseteq Met(s)
        /\ \A x \in Tree(s) : Joins(Tree(s), x, r)
        /\ \A x \in Tree(s) : \A y \in Neighbours(x) : y \notin Past(s)
        /\ \A x \in Met(s) : x \notin Past(s) => x \in Tree(s)
    BY <1>4, TreeFacts
  <2>3. /\ s.work[1].children = 0 <=> Tree(s) = {r}
        /\ s.work[1].children >= 2 => ~Whole(r)
        /\ s.work[1].children <= 1 => \A x, y \in Tree(s) : x # r /\ y # r => Joins(D, x, y)
    BY <1>4 DEF LowRight, LowRoot
  <2>4. v \in Tree(s) /\ (n > 1 => v # r) /\ v \in Docs
    <3>1. v \in Over(s, n) /\ Over(s, n) \in SUBSET Tree(s) /\ (Held(s, 1) = Held(s, n) => 1 = n) /\ Held(s, n) \in Docs
      BY <1>0, <2>1, LowFacts
    <3>2. ASSUME n > 1, v = r PROVE FALSE
      <4>1. 1 = n
        BY <3>1, <3>2
      <4> HIDE DEF n, v, r, D
      <4>2. QED BY <1>1, <3>2, <4>1
    <3>3. QED BY <3>1, <3>2
  <2>5. D \in SUBSET Docs /\ w \in D /\ w # r /\ w \notin Tree(s)
    BY <1>1, <2>2
  <2>6. s.work[1].children \in Nat /\ s.work[n].children \in Nat
    BY <1>0, <2>1 DEF LowTyped
  <2>w. w \in Neighbours(v) /\ v \in Neighbours(w)
    BY <1>1, <1>2, <1>4, <2>4 DEF Mutual
  <2> HIDE DEF n, r, v, D
  <2>7. Tree(t) # {r}
    BY <1>1, <2>2, <2>5
  <2>8. CASE n = 1
    <3>1. t.work[1].children = s.work[1].children + 1 /\ v = r
      BY <1>2, <2>8 DEF v, r
    <3>2. ASSUME s.work[1].children >= 1, Whole(r) PROVE FALSE
      <4>1. PICK x \in Tree(s) : x # r
        BY <2>2, <2>3, <2>6, <3>2
      <4>2. Joins(Docs, x, r)
        <5>1. Joins(Tree(s), x, r) /\ Docs \in SUBSET Docs
          BY <2>2, <4>1
        <5> DEFINE T == Tree(s)
        <5>2. T \in SUBSET Docs /\ Joins(T, x, r)
          BY <2>2, <5>1
        <5> HIDE DEF T
        <5>3. QED BY <5>1, <5>2, JoinsFacts
      <4>3. Joins(Docs, r, w)
        <5>1. Docs \in SUBSET Docs /\ r \in Docs
          BY <2>2
        <5>2. QED BY <1>1, <2>w, <3>1, <5>1, JoinsFacts
      <4>4. Joins(Docs, x, w)
        <5>1. Docs \in SUBSET Docs
          OBVIOUS
        <5>2. QED BY <4>2, <4>3, <5>1, JoinsFacts
      <4>5. x \in D
        BY <2>2, <4>1 DEF D
      <4>6. Joins(D, x, w)
        BY <2>5, <3>2, <4>4, <4>5 DEF Whole, D
      <4> DEFINE S == Tree(s) \ {r}
      <4>7. S \in SUBSET D /\ x \in S /\ w \notin S
        BY <2>2, <2>5, <4>1 DEF D
      <4>8. ASSUME NEW a \in S PROVE Neighbours(a) \intersect D \subseteq S
        <5>1. a \in Met(s) /\ a # Held(s, 1) /\ a \in Tree(s)
          BY <2>2 DEF r
        <5>2. InBlock(s, 1, a)
          <6>1. Tree(s) = Over(s, 1)
            BY <1>0, <1>4, LowFacts DEF n
          <6>2. ~(1 < Len(s.work))
            BY <2>8 DEF n
          <6>3. QED BY <5>1, <6>1, <6>2 DEF InBlock
        <5>3. Neighbours(a) \subseteq Met(s)
          BY <2>1, <5>1, <5>2 DEF LowRight, LowMet, n
        <5>4. QED BY <2>2, <5>1, <5>3 DEF D
      <4> HIDE DEF S
      <4>9. QED BY <4>6, <4>7, <4>8 DEF Joins
    <3>3. t.work[1].children >= 2 => ~Whole(r)
      BY <2>6, <3>1, <3>2
    <3>4. ASSUME t.work[1].children <= 1, NEW x \in Tree(t), NEW y \in Tree(t), x # r, y # r
          PROVE  Joins(D, x, y)
      <4>1. Tree(s) = {r}
        BY <2>3, <2>6, <3>1, <3>4
      <4>2. x = w /\ y = w
        BY <1>1, <3>4, <4>1
      <4>3. QED BY <2>5, <4>2, JoinsFacts
    <3>5. t.work[1].children # 0
      BY <2>6, <3>1
    <3>6. QED BY <2>1, <2>7, <3>3, <3>4, <3>5 DEF LowRoot, D
  <2>9. CASE n > 1
    <3>1. t.work[1] = s.work[1]
      BY <1>2, <2>1, <2>9
    <3>2. v # r /\ v \in D
      BY <2>4, <2>9 DEF D
    <3>3. s.work[1].children # 0
      BY <2>3, <2>4, <3>2
    <3>4. ASSUME s.work[1].children <= 1, NEW x \in Tree(t), NEW y \in Tree(t), x # r, y # r
          PROVE  Joins(D, x, y)
      <4>1. \A a \in Tree(s) : a # r => Joins(D, a, v)
        BY <2>3, <2>4, <3>2, <3>4
      <4>2. Joins(D, w, v)
        BY <2>5, <2>w, <3>2, JoinsFacts
      <4>3. Joins(D, x, v) /\ Joins(D, y, v)
        BY <1>1, <3>4, <4>1, <4>2
      <4>4. QED BY <2>5, <4>3, JoinsFacts
    <3>5. QED BY <2>1, <2>3, <2>7, <3>1, <3>3, <3>4 DEF LowRoot, D
  <2>10. QED BY <1>1, <1>4, <2>8, <2>9
<1>5. QED BY <1>1, <1>3, <1>4

\* Pushing a frame keeps the bridges: its link to the frame below is on the stack, and no
\* other is between documents met.
LEMMA FindsBridges ==
  ASSUME Mutual, NEW s, NEW t, NEW w, LowRight(s), Finds(s, t, w)
  PROVE  LowBridges(t)
<1> DEFINE n == Len(s.work)
           v == Held(s, n)
<1>0. LowTyped(s) /\ LowOrdered(s) /\ LowBridges(s)
  BY DEF LowRight
<1>1. /\ n \in Nat /\ w \in Docs /\ w \notin Met(s) /\ Met(s) \in SUBSET Docs
      /\ Met(t) = Met(s) \union {w} /\ Len(t.work) = n + 1 /\ Held(t, n + 1) = w
      /\ \A k \in 1..n : Held(t, k) = Held(s, k)
      /\ \A x \in Past(s) : w \notin Neighbours(x) /\ x \notin Neighbours(w)
  BY FindsSets
<1>2. t.bridges = s.bridges /\ (n > 0 => w \in Neighbours(v))
  BY DEF Finds
<1>3. ASSUME NEW y \in Met(s), y \in Neighbours(w)
      PROVE  Kept(w, y) \/ Stacked(t, w, y)
  <2>1. y \notin Past(s) /\ y \in Docs
    BY <1>1, <1>3
  <2>2. n > 0
    <3>1. CASE n = 0
      BY <1>3, <2>1, <3>1 DEF Past
    <3>2. QED BY <1>1, <3>1
  <2>3. /\ Tree(s) \in SUBSET Docs /\ Tree(s) \subseteq Met(s)
        /\ \A a, b \in Tree(s) : Joins(Tree(s), a, b) /\ y \in Tree(s)
    BY <1>3, <2>1, <2>2, TreeFacts
  <2>4. v \in Tree(s) /\ v \in Docs
    <3>1. n \in 1..n
      BY <1>1, <2>2
    <3>2. v \in Over(s, n) /\ Over(s, n) \in SUBSET Tree(s) /\ v \in Docs
      BY <1>0, <3>1, LowFacts
    <3>3. QED BY <3>2
  <2>5. CASE y = v
    <3>1. n + 1 \in 1..(n + 1) /\ n + 1 > 1 /\ Held(t, (n + 1) - 1) = v
      BY <1>1, <2>2
    <3>2. {w, y} = {v, w}
      BY <2>5
    <3>3. {w, y} = {Held(t, (n + 1) - 1), Held(t, n + 1)}
      BY <1>1, <3>1, <3>2
    <3>4. QED BY <1>1, <3>1, <3>3 DEF Stacked
  <2>6. CASE y # v
    <3> DEFINE T == Tree(s)
    <3>1. y \in Tree(s)
      BY <2>3, <2>4
    <3>2. T \in SUBSET Docs /\ w \notin T /\ Joins(T, v, y)
      BY <1>1, <2>3, <2>4, <3>1
    <3>0. w \in Neighbours(v) /\ w \in Docs /\ v \in Docs
      BY <1>1, <1>2, <2>2, <2>4
    <3> HIDE DEF n, v, T
    <3>3. v \in Neighbours(w)
      BY <3>0 DEF Mutual
    <3>8. {w, v} # {w, y}
      BY <2>6
    <3>4. JoinsPast(w, y, w, v)
      BY <3>0, <3>3, <3>8, JoinsPastFacts
    <3>5. JoinsPast(w, y, v, y)
      BY <3>2, JoinsPastFacts
    <3>6. JoinsPast(w, y, w, y)
      BY <3>4, <3>5, JoinsPastFacts
    <3>7. QED BY <3>6 DEF Kept
  <2>7. QED BY <2>5, <2>6
<1>4. ASSUME NEW x \in Met(t), NEW y \in Met(t), y \in Neighbours(x)
      PROVE  {x, y} \in t.bridges \/ Kept(x, y) \/ Stacked(t, x, y)
  <2>1. x \in Docs /\ y \in Docs /\ x \in Neighbours(y) /\ x # y
    BY <1>1, <1>4 DEF Mutual
  <2>2. CASE x = w
    BY <1>1, <1>3, <1>4, <2>1, <2>2
  <2>3. CASE y = w
    <3>1. x \in Met(s)
      BY <1>1, <2>1, <2>3
    <3>2. Kept(w, x) \/ Stacked(t, w, x)
      BY <1>3, <2>1, <2>3, <3>1
    <3>3. Kept(w, x) <=> Kept(x, w)
      BY JoinsPastFacts DEF Kept
    <3>4. {w, x} = {x, y}
      BY <2>3
    <3>5. Stacked(t, w, x) => Stacked(t, x, y)
      BY <3>4 DEF Stacked
    <3>6. QED BY <2>3, <3>2, <3>3, <3>5
  <2>4. CASE x # w /\ y # w
    <3>1. x \in Met(s) /\ y \in Met(s)
      BY <1>1, <1>4, <2>4
    <3>2. {x, y} \in s.bridges \/ Kept(x, y) \/ Stacked(s, x, y)
      <4>1. \A a, b \in Met(s) : b \in Neighbours(a) => {a, b} \in s.bridges \/ Kept(a, b) \/ Stacked(s, a, b)
        BY <1>0 DEF LowBridges
      <4>2. QED BY <1>4, <3>1, <4>1
    <3>3. Stacked(s, x, y) => Stacked(t, x, y)
      <4> SUFFICES ASSUME Stacked(s, x, y) PROVE Stacked(t, x, y)
        OBVIOUS
      <4>1. PICK k \in 1..n : k > 1 /\ {x, y} = {Held(s, k - 1), Held(s, k)}
        BY DEF Stacked
      <4>2. k \in 1..(n + 1) /\ k - 1 \in 1..n
        BY <1>1, <4>1
      <4>3. {x, y} = {Held(t, k - 1), Held(t, k)}
        BY <1>1, <4>1, <4>2
      <4>4. QED BY <1>1, <4>1, <4>2, <4>3 DEF Stacked
    <3>4. QED BY <1>2, <3>2, <3>3
  <2>5. QED BY <2>2, <2>3, <2>4
<1>5. \A b \in t.bridges : \E a, c \in Docs : c \in Neighbours(a) /\ b = {a, c} /\ ~Kept(a, c)
  BY <1>0, <1>2 DEF LowBridges
<1>6. QED BY <1>4, <1>5 DEF LowBridges

\* Pushing a frame keeps all that is said of the search.
LEMMA FindsRight ==
  ASSUME Mutual, NEW s, NEW t, NEW w, LowRight(s), Finds(s, t, w)
  PROVE  LowRight(t)
BY FindsOrder, FindsFrames, FindsLeast, FindsJoined, FindsCuts, FindsRoot, FindsBridges DEF LowRight

\* Without a new number, the documents met and the blocks stay what they are.
LEMMA SameNumbers ==
  ASSUME NEW s, NEW t, t.disc = s.disc, Len(s.work) \in Nat, Len(t.work) \in Nat \ {0},
         Len(t.work) <= Len(s.work), \A k \in 1..Len(t.work) : Held(t, k) = Held(s, k)
  PROVE  /\ Met(t) = Met(s) /\ Past(t) = Past(s) /\ Tree(t) = Tree(s)
         /\ \A k \in 1..Len(t.work) : Over(t, k) = Over(s, k)
<1>1. Met(t) = Met(s)
  BY DEF Met
<1>2. Held(t, 1) = Held(s, 1) /\ Len(t.work) > 0 /\ Len(s.work) > 0
  OBVIOUS
<1>3. Past(t) = Past(s)
  BY <1>1, <1>2 DEF Past
<1>4. Tree(t) = Tree(s)
  BY <1>1, <1>3 DEF Tree
<1>5. \A k \in 1..Len(t.work) : Over(t, k) = Over(s, k)
  BY <1>1 DEF Over
<1>6. QED BY <1>1, <1>3, <1>4, <1>5

\* Looking at a neighbour changes no block, and what was clear of a document or stacked
\* stays so.
LEMMA TriesSets ==
  ASSUME Mutual, NEW s, NEW t, NEW w, LowRight(s), Tries(s, t, w)
  PROVE  LET n == Len(s.work) IN
         /\ n \in Nat /\ n \in 1..n /\ Len(t.work) = n
         /\ Met(t) = Met(s) /\ Past(t) = Past(s) /\ Tree(t) = Tree(s)
         /\ \A k \in 1..n : Over(t, k) = Over(s, k) /\ Held(t, k) = Held(s, k)
         /\ \A k \in 1..n : \A x : InBlock(t, k, x) <=> InBlock(s, k, x)
         /\ \A d, x : Clear(s, d, x) => Clear(t, d, x)
         /\ \A x, y : Stacked(s, x, y) => Stacked(t, x, y)
         /\ \A k \in 1..n : \A y, e : Leads(s, k, y, e) => Leads(t, k, y, e)
<1> DEFINE n == Len(s.work)
<1>1. n \in Nat
  BY DEF LowRight, LowTyped
<1>2. n > 0 /\ Len(t.work) = n /\ t.disc = s.disc /\ \A k \in 1..n : Held(t, k) = Held(s, k)
  BY DEF Tries
<1>3. /\ Met(t) = Met(s) /\ Past(t) = Past(s) /\ Tree(t) = Tree(s)
      /\ \A k \in 1..n : Over(t, k) = Over(s, k)
  BY <1>1, <1>2, SameNumbers
<1>4. \A k \in 1..n : k < n => k + 1 \in 1..n
  BY <1>1
<1>5. \A k \in 1..n : k > 1 => k - 1 \in 1..n
  BY <1>1
<1>6. 1 \in 1..n /\ n \in 1..n
  BY <1>1, <1>2
<1>7. \A k \in 1..n : \A x : InBlock(t, k, x) <=> InBlock(s, k, x)
  BY <1>2, <1>3, <1>4 DEF InBlock
<1>8. \A d, x : Clear(s, d, x) => Clear(t, d, x)
  BY <1>2, <1>3, <1>4, <1>6 DEF Clear
<1>9. \A x, y : Stacked(s, x, y) => Stacked(t, x, y)
  BY <1>2, <1>5 DEF Stacked
<1>10. \A k \in 1..n : \A y, e : Leads(s, k, y, e) => Leads(t, k, y, e)
  BY <1>2, <1>3, <1>5 DEF Leads
<1>11. QED BY <1>1, <1>2, <1>3, <1>6, <1>7, <1>8, <1>9, <1>10

\* Looking at a neighbour keeps the numbers and the frames; it was met, and the link to
\* the frame below is the one that is skipped.
LEMMA TriesFrames ==
  ASSUME Mutual, NEW s, NEW t, NEW w, LowRight(s), Tries(s, t, w)
  PROVE  /\ LowTyped(t) /\ LowOrdered(t) /\ LowFrames(t) /\ LowMet(t)
         /\ w \in Met(s)
         /\ w = s.work[Len(s.work)].parent => Len(s.work) > 1 /\ w = Held(s, Len(s.work) - 1)
         /\ w # s.work[Len(s.work)].parent => (Len(s.work) > 1 => w # Held(s, Len(s.work) - 1))
<1> DEFINE n == Len(s.work)
<1>0. LowTyped(s) /\ LowOrdered(s) /\ LowFrames(s) /\ LowMet(s)
  BY DEF LowRight
<1>1. /\ n \in Nat /\ n \in 1..n /\ Len(t.work) = n
      /\ Met(t) = Met(s) /\ Past(t) = Past(s)
      /\ \A k \in 1..n : Held(t, k) = Held(s, k)
      /\ \A k \in 1..n : \A x : InBlock(t, k, x) <=> InBlock(s, k, x)
  BY TriesSets
<1>2. /\ t.disc = s.disc /\ t.counter = s.counter
      /\ \A k \in 1..n : t.work[k].children = s.work[k].children /\ (k < n => t.work[k] = s.work[k])
      /\ w \in Neighbours(Held(s, n)) /\ w \notin Tried(s.work[n])
      /\ Tried(t.work[n]) = Tried(s.work[n]) \union {w}
      /\ \/ /\ w = s.work[n].parent /\ t.work[n].parent = 0 /\ t.low = s.low
         \/ /\ w # s.work[n].parent /\ t.work[n].parent = s.work[n].parent /\ w \in Met(s)
            /\ t.low = [s.low EXCEPT ![Held(s, n)] = IF s.disc[w] < @ THEN s.disc[w] ELSE @]
  BY DEF Tries
<1>3. \A k \in 1..n : /\ Tried(s.work[k]) \subseteq Met(s)
                      /\ s.work[k].parent # 0 => k > 1 /\ s.work[k].parent = Held(s, k - 1)
                      /\ k > 1 => /\ Held(s, k) \in Neighbours(Held(s, k - 1))
                                  /\ Held(s, k - 1) \in Tried(s.work[k]) \/ s.work[k].parent = Held(s, k - 1)
  BY <1>0 DEF LowFrames
<1>4. \A k \in 1..n : Held(s, k) \in Docs /\ Held(s, k) \in Met(s)
  BY <1>0 DEF LowTyped, LowOrdered
<1>5. s.disc \in [Docs -> Int] /\ s.low \in [Docs -> Int] /\ s.counter \in Nat
      /\ \A k \in 1..n : s.work[k].children \in Nat
  BY <1>0 DEF LowTyped
<1>6. w \in Docs /\ w # 0
  BY <1>1, <1>2, <1>4 DEF Mutual
<1> HIDE DEF n
<1>7. \A k \in 1..n : k > 1 => k - 1 \in 1..n
  BY <1>1
<1>8. w = s.work[n].parent => n > 1 /\ w = Held(s, n - 1)
  BY <1>1, <1>3, <1>6
<1>9. w # s.work[n].parent => (n > 1 => w # Held(s, n - 1))
  BY <1>1, <1>2, <1>3
<1>10. w \in Met(s)
  BY <1>1, <1>2, <1>4, <1>7, <1>8
<1>11. LowTyped(t)
  <2>1. t.low \in [Docs -> Int]
    <3>1. s.disc[w] \in Int /\ s.low[Held(s, n)] \in Int
      BY <1>1, <1>4, <1>5, <1>6
    <3>2. QED BY <1>2, <1>5, <3>1
  <2>2. QED BY <1>1, <1>2, <1>4, <1>5, <2>1 DEF LowTyped
<1>12. LowOrdered(t)
  BY <1>0, <1>1, <1>2 DEF LowOrdered, n
<1>13. ASSUME NEW k \in 1..n
       PROVE  /\ Tried(t.work[k]) \subseteq Met(t)
              /\ t.work[k].parent # 0 => k > 1 /\ t.work[k].parent = Held(t, k - 1)
              /\ k > 1 => /\ Held(t, k) \in Neighbours(Held(t, k - 1))
                          /\ Held(t, k - 1) \in Tried(t.work[k]) \/ t.work[k].parent = Held(t, k - 1)
  <2>1. CASE k < n
    <3>1. t.work[k] = s.work[k] /\ Held(t, k) = Held(s, k) /\ (k > 1 => Held(t, k - 1) = Held(s, k - 1))
      BY <1>1, <1>2, <1>7, <2>1
    <3>2. QED BY <1>1, <1>3, <3>1
  <2>2. CASE k = n
    <3>1. Held(t, n) = Held(s, n) /\ (n > 1 => Held(t, n - 1) = Held(s, n - 1))
      BY <1>1, <1>7
    <3>2. Tried(t.work[n]) \subseteq Met(t)
      BY <1>1, <1>2, <1>3, <1>10
    <3>3. CASE w = s.work[n].parent
      BY <1>1, <1>2, <1>3, <1>8, <2>2, <3>1, <3>2, <3>3
    <3>4. CASE w # s.work[n].parent
      <4>1. t.work[n].parent = s.work[n].parent
        BY <1>2, <3>4
      <4>2. QED BY <1>1, <1>2, <1>3, <2>2, <3>1, <3>2, <4>1
    <3>5. QED BY <3>3, <3>4
  <2>3. QED BY <1>1, <2>1, <2>2
<1>14. LowFrames(t)
  BY <1>1, <1>13 DEF LowFrames
<1>15. LowMet(t)
  <2>1. \A k \in 1..n : k < n => k + 1 \in 1..n
    BY <1>1
  <2>2. /\ \A x \in Past(s) : Neighbours(x) \subseteq Past(s)
        /\ \A k \in 1..n : \A x \in Met(s) : InBlock(s, k, x) /\ x # Held(s, k) =>
             \A e \in Neighbours(x) : e \in Met(s) /\ (k < n => s.disc[e] < s.disc[Held(s, k + 1)])
    BY <1>0 DEF LowMet, n
  <2>3. ASSUME NEW k \in 1..n, NEW x \in Met(t), InBlock(t, k, x), x # Held(t, k), NEW e \in Neighbours(x)
        PROVE  e \in Met(t) /\ (k < n => t.disc[e] < t.disc[Held(t, k + 1)])
    <3>1. InBlock(s, k, x) /\ x # Held(s, k) /\ x \in Met(s)
      BY <1>1, <2>3
    <3>2. e \in Met(s) /\ (k < n => s.disc[e] < s.disc[Held(s, k + 1)])
      BY <2>2, <3>1
    <3>3. k < n => Held(t, k + 1) = Held(s, k + 1)
      BY <1>1, <2>1
    <3>4. QED BY <1>1, <1>2, <3>2, <3>3
  <2>4. \A x \in Past(t) : Neighbours(x) \subseteq Past(t)
    BY <1>1, <2>2
  <2>5. QED BY <1>1, <2>3, <2>4 DEF LowMet
<1>16. QED BY <1>8, <1>9, <1>10, <1>11, <1>12, <1>14, <1>15 DEF n

\* Looking at a neighbour keeps low the least number looked at.
LEMMA TriesLeast ==
  ASSUME Mutual, NEW s, NEW t, NEW w, LowRight(s), Tries(s, t, w)
  PROVE  LowIsLeast(t)
<1> DEFINE n == Len(s.work)
           v == Held(s, n)
<1>0. LowTyped(s) /\ LowOrdered(s) /\ LowIsLeast(s)
  BY DEF LowRight
<1>1. /\ n \in Nat /\ n \in 1..n /\ Len(t.work) = n
      /\ Met(t) = Met(s)
      /\ \A k \in 1..n : Held(t, k) = Held(s, k) /\ Over(t, k) = Over(s, k)
      /\ \A k \in 1..n : \A x : InBlock(t, k, x) <=> InBlock(s, k, x)
      /\ \A k \in 1..n : \A y, e : Leads(s, k, y, e) => Leads(t, k, y, e)
  BY TriesSets
<1>2. /\ t.disc = s.disc
      /\ \A k \in 1..n : k < n => t.work[k] = s.work[k]
      /\ w \in Neighbours(v)
      /\ Tried(t.work[n]) = Tried(s.work[n]) \union {w}
      /\ \/ w = s.work[n].parent /\ t.low = s.low
         \/ /\ w # s.work[n].parent
            /\ t.low = [s.low EXCEPT ![v] = IF s.disc[w] < @ THEN s.disc[w] ELSE @]
  BY DEF Tries
<1>3. /\ w \in Met(s)
      /\ w = s.work[n].parent => n > 1 /\ w = Held(s, n - 1)
      /\ w # s.work[n].parent => (n > 1 => w # Held(s, n - 1))
  BY TriesFrames
<1>4. /\ Met(s) \in SUBSET Docs
      /\ \A x \in Docs : s.disc[x] \in Int /\ s.low[x] \in Int
      /\ \A k \in 1..n : /\ Held(s, k) \in Docs /\ Held(s, k) \in Over(s, k)
                         /\ \A j \in 1..n : Held(s, j) = Held(s, k) => j = k
  BY <1>0, LowFacts
<1>5. \A k \in 1..n :
        /\ s.low[Held(s, k)] <= s.disc[Held(s, k)]
        /\ \/ s.low[Held(s, k)] = s.disc[Held(s, k)]
           \/ \E y, e \in Docs : Leads(s, k, y, e) /\ s.disc[e] = s.low[Held(s, k)]
        /\ \A x, e \in Docs : Looked(s, k, x, e) => s.low[Held(s, k)] <= s.disc[e]
  BY <1>0 DEF LowIsLeast
<1>6. s.low \in [Docs -> Int]
  BY <1>0 DEF LowTyped
<1>7. v \in Docs /\ w \in Docs /\ s.disc[w] \in Int /\ s.low[v] \in Int /\ s.disc[v] \in Int
  BY <1>1, <1>3, <1>4
<1> HIDE DEF n, v
<1>8. \A k \in 1..n : k > 1 => k - 1 \in 1..n
  BY <1>1
<1>9. \A k \in 1..n : k < n => t.low[Held(s, k)] = s.low[Held(s, k)]
  BY <1>1, <1>2, <1>4, <1>6, <1>7 DEF v
<1>10. \/ t.low[v] = s.low[v] /\ (w # s.work[n].parent => s.low[v] <= s.disc[w])
       \/ t.low[v] = s.disc[w] /\ s.disc[w] < s.low[v] /\ w # s.work[n].parent
  BY <1>2, <1>6, <1>7
<1>11. \A k \in 1..n : \A x, e \in Docs : Looked(t, k, x, e) =>
         \/ Looked(s, k, x, e)
         \/ k = n /\ e = w /\ w # s.work[n].parent
  <2> SUFFICES ASSUME NEW k \in 1..n, NEW x \in Docs, NEW e \in Docs, Looked(t, k, x, e),
                      ~(k = n /\ e = w /\ w # s.work[n].parent)
               PROVE  Looked(s, k, x, e)
    OBVIOUS
  <2>1. /\ InBlock(t, k, x) /\ e \in Neighbours(x)
        /\ x = Held(t, k) => e \in Tried(t.work[k]) /\ (k > 1 => e # Held(t, k - 1))
    BY DEF Looked
  <2>2. InBlock(s, k, x) /\ Held(t, k) = Held(s, k) /\ (k > 1 => Held(t, k - 1) = Held(s, k - 1))
    BY <1>1, <1>8, <2>1
  <2>3. x = Held(s, k) => e \in Tried(s.work[k])
    <3>1. CASE k < n
      BY <1>1, <1>2, <2>1, <2>2, <3>1
    <3>2. CASE k = n
      BY <1>1, <1>2, <1>3, <2>1, <2>2, <3>2
    <3>3. QED BY <1>1, <3>1, <3>2
  <2>4. QED BY <2>1, <2>2, <2>3 DEF Looked
<1>12. ASSUME NEW k \in 1..n, k < n
       PROVE  /\ t.low[Held(t, k)] <= t.disc[Held(t, k)]
              /\ \/ t.low[Held(t, k)] = t.disc[Held(t, k)]
                 \/ \E y, e \in Docs : Leads(t, k, y, e) /\ t.disc[e] = t.low[Held(t, k)]
              /\ \A x, e \in Docs : Looked(t, k, x, e) => t.low[Held(t, k)] <= t.disc[e]
  <2>1. t.low[Held(t, k)] = s.low[Held(s, k)] /\ t.disc[Held(t, k)] = s.disc[Held(s, k)] /\ k # n
    BY <1>1, <1>2, <1>9, <1>12
  <2>2. \A x, e \in Docs : Looked(t, k, x, e) => Looked(s, k, x, e)
    BY <1>11, <2>1
  <2>3. QED BY <1>1, <1>2, <1>5, <2>1, <2>2
<1>13. /\ t.low[v] <= t.disc[v]
       /\ \/ t.low[v] = t.disc[v]
          \/ \E y, e \in Docs : Leads(t, n, y, e) /\ t.disc[e] = t.low[v]
       /\ \A x, e \in Docs : Looked(t, n, x, e) => t.low[v] <= t.disc[e]
  <2>1. /\ s.low[v] <= s.disc[v]
        /\ \/ s.low[v] = s.disc[v]
           \/ \E y, e \in Docs : Leads(s, n, y, e) /\ s.disc[e] = s.low[v]
        /\ \A x, e \in Docs : Looked(s, n, x, e) => s.low[v] <= s.disc[e]
    BY <1>1, <1>5 DEF v
  <2>2. t.low[v] <= t.disc[v] /\ t.low[v] <= s.low[v] /\ t.low[v] \in Int
    BY <1>2, <1>7, <1>10, <2>1
  <2>3. \/ t.low[v] = t.disc[v]
        \/ \E y, e \in Docs : Leads(t, n, y, e) /\ t.disc[e] = t.low[v]
    <3>1. CASE t.low[v] = s.low[v]
      BY <1>1, <1>2, <2>1, <3>1
    <3>2. CASE t.low[v] = s.disc[w] /\ w # s.work[n].parent
      <4>1. v \in Over(t, n) /\ w \in Met(t) /\ v = Held(t, n)
        BY <1>1, <1>3, <1>4 DEF v
      <4>2. n > 1 => w # Held(t, n - 1)
        BY <1>1, <1>3, <1>8, <3>2
      <4>3. Leads(t, n, v, w)
        BY <1>2, <4>1, <4>2 DEF Leads
      <4>4. QED BY <1>2, <1>7, <3>2, <4>3
    <3>3. QED BY <1>10, <3>1, <3>2
  <2>4. ASSUME NEW x \in Docs, NEW e \in Docs, Looked(t, n, x, e) PROVE t.low[v] <= t.disc[e]
    <3>1. CASE Looked(s, n, x, e)
      <4>1. s.low[v] <= s.disc[e] /\ s.disc[e] \in Int
        BY <1>4, <2>1, <3>1
      <4>2. QED BY <1>2, <1>7, <2>2, <4>1
    <3>2. CASE e = w /\ w # s.work[n].parent
      BY <1>2, <1>7, <1>10, <3>2
    <3>3. QED BY <1>1, <1>11, <2>4, <3>1, <3>2
  <2>5. QED BY <2>2, <2>3, <2>4
<1>14. ASSUME NEW k \in 1..n
       PROVE  /\ t.low[Held(t, k)] <= t.disc[Held(t, k)]
              /\ \/ t.low[Held(t, k)] = t.disc[Held(t, k)]
                 \/ \E y, e \in Docs : Leads(t, k, y, e) /\ t.disc[e] = t.low[Held(t, k)]
              /\ \A x, e \in Docs : Looked(t, k, x, e) => t.low[Held(t, k)] <= t.disc[e]
  <2>1. CASE k < n
    BY <1>12, <2>1
  <2>2. CASE k = n
    <3>1. Held(t, k) = v
      BY <1>1, <2>2 DEF v
    <3>2. QED BY <1>13, <2>2, <3>1
  <2>3. QED BY <1>1, <2>1, <2>2
<1>15. QED BY <1>1, <1>14 DEF LowIsLeast

\* Looking at a neighbour keeps all that is said of the search.
LEMMA TriesRight ==
  ASSUME Mutual, NEW s, NEW t, NEW w, LowRight(s), Tries(s, t, w)
  PROVE  LowRight(t)
<1> DEFINE n == Len(s.work)
<1>0. LowJoined(s) /\ LowCuts(s) /\ LowRoot(s) /\ LowBridges(s)
  BY DEF LowRight
<1>1. /\ n \in Nat /\ n \in 1..n /\ Len(t.work) = n
      /\ Met(t) = Met(s) /\ Past(t) = Past(s) /\ Tree(t) = Tree(s)
      /\ \A k \in 1..n : Over(t, k) = Over(s, k) /\ Held(t, k) = Held(s, k)
      /\ \A d, x : Clear(s, d, x) => Clear(t, d, x)
      /\ \A x, y : Stacked(s, x, y) => Stacked(t, x, y)
  BY TriesSets
<1>2. /\ t.aps = s.aps /\ t.bridges = s.bridges
      /\ \A k \in 1..n : t.work[k].children = s.work[k].children
  BY DEF Tries
<1> HIDE DEF n
<1>3. 1 \in 1..n
  BY <1>1
<1>4. LowJoined(t)
  BY <1>0, <1>1, <1>3 DEF LowJoined, n
<1>5. LowCuts(t)
  BY <1>0, <1>1, <1>2, <1>3 DEF LowCuts, n
<1>6. LowRoot(t)
  BY <1>0, <1>1, <1>2, <1>3 DEF LowRoot, n
<1>7. LowBridges(t)
  BY <1>0, <1>1, <1>2 DEF LowBridges
<1>8. QED BY <1>4, <1>5, <1>6, <1>7, TriesFrames, TriesLeast DEF LowRight

\* The block of the finished frame joins the block below it.
LEMMA BacksSets ==
  ASSUME Mutual, NEW s, NEW t, LowRight(s), Backs(s, t)
  PROVE  LET n == Len(s.work)
             m == n - 1 IN
         /\ n \in Nat /\ m \in Nat /\ m + 1 = n /\ m \in 1..n /\ n \in 1..n /\ 1 \in 1..m /\ m \in 1..m
         /\ Len(t.work) = m /\ \A k \in 1..m : k \in 1..n /\ k < n
         /\ Met(t) = Met(s) /\ Past(t) = Past(s) /\ Tree(t) = Tree(s)
         /\ \A k \in 1..m : Over(t, k) = Over(s, k) /\ Held(t, k) = Held(s, k)
         /\ \A k \in 1..m : k < m => \A x : InBlock(t, k, x) <=> InBlock(s, k, x)
         /\ \A x : InBlock(t, m, x) <=> InBlock(s, m, x) \/ x \in Over(s, n)
         /\ \A x : InBlock(s, n, x) <=> x \in Over(s, n)
         /\ \A k \in 1..m : \A y, e : Leads(s, k, y, e) => Leads(t, k, y, e)
<1> DEFINE n == Len(s.work)
           m == n - 1
<1>0. LowTyped(s) /\ LowOrdered(s)
  BY DEF LowRight
<1>1. n \in Nat
  BY <1>0 DEF LowTyped
<1>2. n > 1 /\ Len(t.work) = m /\ t.disc = s.disc /\ \A k \in 1..m : t.work[k] = s.work[k]
  BY DEF Backs
<1>3. \A k \in 1..m : Held(t, k) = Held(s, k)
  BY <1>2 DEF Held
<1>4. \A k \in 1..n : \A j \in 1..n : j <= k => Over(s, k) \subseteq Over(s, j)
  BY <1>0, LowFacts
<1>5. /\ m \in Nat /\ m + 1 = n /\ m \in 1..n /\ n \in 1..n /\ 1 \in 1..m /\ m \in 1..m /\ m <= n
      /\ \A k \in 1..m : k \in 1..n /\ k < n
  BY <1>1, <1>2
<1>6. Len(s.work) \in Nat /\ Len(t.work) \in Nat \ {0} /\ Len(t.work) <= Len(s.work)
      /\ \A k \in 1..Len(t.work) : Held(t, k) = Held(s, k)
  <2>1. Len(t.work) = m /\ Len(s.work) = n /\ n \in Nat
    BY <1>1, <1>2
  <2> HIDE DEF m, n
  <2>2. m \in Nat \ {0} /\ m <= n
    BY <1>1, <1>5
  <2>3. QED BY <1>3, <2>1, <2>2
<1>7. /\ Met(t) = Met(s) /\ Past(t) = Past(s) /\ Tree(t) = Tree(s)
      /\ \A k \in 1..m : Over(t, k) = Over(s, k)
  BY <1>2, <1>6, SameNumbers
<1>8. \A k : \A x : InBlock(s, k, x) <=> x \in Over(s, k) /\ (k < n => x \notin Over(s, k + 1))
  BY DEF InBlock
<1>9. \A k : \A x : InBlock(t, k, x) <=> x \in Over(t, k) /\ (k < m => x \notin Over(t, k + 1))
  BY <1>2 DEF InBlock
<1>10. \A k \in 1..m : \A y, e : Leads(s, k, y, e) => Leads(t, k, y, e)
  <2>1. \A k \in 1..m : k > 1 => k - 1 \in 1..m
    BY <1>1
  <2>2. QED BY <1>3, <1>7, <2>1 DEF Leads
<1> HIDE DEF m, n
<1>11. \A k \in 1..m : k < m => \A x : InBlock(t, k, x) <=> InBlock(s, k, x)
  <2>1. \A k \in 1..m : k < m => k + 1 \in 1..m /\ k < n
    BY <1>5
  <2>2. QED BY <1>7, <1>8, <1>9, <2>1
<1>12. \A x : InBlock(t, m, x) <=> InBlock(s, m, x) \/ x \in Over(s, n)
  <2>1. ~(m < m) /\ m < n /\ Over(s, n) \subseteq Over(s, m)
    BY <1>4, <1>5
  <2>2. \A x : InBlock(t, m, x) <=> x \in Over(s, m)
    BY <1>5, <1>7, <1>9, <2>1
  <2>3. \A x : InBlock(s, m, x) <=> x \in Over(s, m) /\ x \notin Over(s, n)
    BY <1>5, <1>8, <2>1
  <2>4. QED BY <2>1, <2>2, <2>3
<1>13. \A x : InBlock(s, n, x) <=> x \in Over(s, n)
  <2>1. ~(n < n)
    BY <1>1
  <2>2. QED BY <1>8, <2>1
<1>14. QED BY <1>1, <1>2, <1>3, <1>5, <1>7, <1>10, <1>11, <1>12, <1>13 DEF n, m

\* What the finished frame knows: where the links lead from what was met since it was
\* pushed, and one that leads as low as it says.
LEMMA BacksKnows ==
  ASSUME Mutual, NEW s, NEW t, LowRight(s), Backs(s, t)
  PROVE  LET n == Len(s.work)
             v == Held(s, n)
             p == Held(s, n - 1) IN
         /\ v \in Docs /\ p \in Docs /\ p \in Neighbours(v) /\ v \in Neighbours(p)
         /\ v \in Over(s, n) /\ p \notin Over(s, n) /\ Over(s, n) \in SUBSET Docs /\ Over(s, n) \subseteq Tree(s)
         /\ p \in Tree(s) /\ p \in Over(s, n - 1)
         /\ s.disc[p] < s.disc[v] /\ s.low[v] <= s.disc[v]
         /\ \A x \in Over(s, n) : Neighbours(x) \subseteq Met(s)
         /\ \A x \in Over(s, n) : \A e \in Neighbours(x) : (x = v /\ e = p) \/ s.low[v] <= s.disc[e]
         /\ \A x \in Over(s, n) : \A e \in Neighbours(x) :
              e \in Over(s, n) \/ e = p \/ s.disc[e] < s.disc[p]
         /\ s.low[v] <= s.disc[p] =>
              \E y, e \in Docs : /\ Leads(s, n, y, e) /\ s.disc[e] = s.low[v]
                                 /\ y \in Over(s, n) /\ e \in Neighbours(y) /\ ~(y = v /\ e = p)
                                 /\ e \in Tree(s) /\ e \notin Over(s, n)
                                 /\ s.low[v] < s.disc[p] => e \notin Over(s, n - 1)
<1> DEFINE n == Len(s.work)
           m == n - 1
           v == Held(s, n)
           p == Held(s, m)
           T == Over(s, n)
<1>0. LowTyped(s) /\ LowOrdered(s) /\ LowFrames(s) /\ LowMet(s) /\ LowIsLeast(s)
  BY DEF LowRight
<1>1. /\ n \in Nat /\ m \in Nat /\ m + 1 = n /\ m \in 1..n /\ n \in 1..n /\ m < n /\ n > 1
      /\ \A x : InBlock(s, n, x) <=> x \in T
  <2>1. /\ n \in Nat /\ m + 1 = n /\ m \in 1..n /\ n \in 1..n
        /\ \A x : InBlock(s, n, x) <=> x \in T
    BY BacksSets
  <2>2. n > 1
    BY DEF Backs
  <2>3. QED BY <2>1, <2>2
<1>2. Neighbours(v) \subseteq Tried(s.work[n])
  BY DEF Backs
<1>3. /\ Met(s) \in SUBSET Docs
      /\ \A x \in Docs : s.disc[x] \in Int /\ s.low[x] \in Int
      /\ \A k \in 1..n : /\ Held(s, k) \in Docs /\ Held(s, k) \in Over(s, k) /\ Over(s, k) \in SUBSET Tree(s)
                         /\ \A j \in 1..n : j < k => Held(s, j) \notin Over(s, k)
  BY <1>0, LowFacts
<1>t. /\ Tree(s) \in SUBSET Docs /\ Tree(s) \subseteq Met(s)
      /\ \A x \in Tree(s) : \A y \in Neighbours(x) : y \notin Past(s)
      /\ \A x \in Met(s) : x \notin Past(s) => x \in Tree(s)
  BY <1>1, TreeFacts
<1>4. /\ Tried(s.work[n]) \subseteq Met(s) /\ v \in Neighbours(p)
  BY <1>0, <1>1 DEF LowFrames
<1>5. s.disc[p] < s.disc[v]
  BY <1>0, <1>1 DEF LowOrdered
<1>6. /\ s.low[v] <= s.disc[v]
      /\ \/ s.low[v] = s.disc[v]
         \/ \E y, e \in Docs : Leads(s, n, y, e) /\ s.disc[e] = s.low[v]
      /\ \A x, e \in Docs : Looked(s, n, x, e) => s.low[v] <= s.disc[e]
  BY <1>0, <1>1 DEF LowIsLeast
<1>7. \A k \in 1..n : \A x \in Met(s) : InBlock(s, k, x) /\ x # Held(s, k) =>
        \A w \in Neighbours(x) : w \in Met(s) /\ (k < n => s.disc[w] < s.disc[Held(s, k + 1)])
  BY <1>0 DEF LowMet
<1>8. \A k, x : InBlock(s, k, x) <=> x \in Over(s, k) /\ (k < n => x \notin Over(s, k + 1))
  BY DEF InBlock
<1>9. \A k, x : x \in Over(s, k) <=> x \in Met(s) /\ s.disc[x] >= s.disc[Held(s, k)]
  BY DEF Over
<1>10. \A x, e : Looked(s, n, x, e) <=>
         /\ InBlock(s, n, x) /\ e \in Neighbours(x)
         /\ x = v => e \in Tried(s.work[n]) /\ (n > 1 => e # p)
  BY DEF Looked
<1>11. \A y, e : Leads(s, n, y, e) <=>
         /\ y \in T /\ e \in Met(s) /\ e \in Neighbours(y)
         /\ n > 1 => ~(y = v /\ e = p)
  BY DEF Leads
<1>12. /\ v \in Docs /\ p \in Docs /\ v \in T /\ p \notin T /\ T \in SUBSET Docs /\ T \subseteq Tree(s)
       /\ p \in Tree(s) /\ p \in Over(s, m)
  BY <1>1, <1>3, <1>t
<1> HIDE DEF n, m, v, p, T
<1>13. p \in Neighbours(v)
  BY <1>4, <1>12 DEF Mutual
<1>14. \A x \in T : Neighbours(x) \subseteq Met(s)
  <2> TAKE x \in T
  <2>1. CASE x = v
    BY <1>2, <1>4, <2>1
  <2>2. CASE x # v
    <3>1. x \in Met(s) /\ InBlock(s, n, x)
      BY <1>1, <1>12, <1>t
    <3>2. QED BY <1>1, <1>7, <2>2, <3>1 DEF v
  <2>3. QED BY <2>1, <2>2
<1>15. \A x \in T : \A e \in Neighbours(x) : (x = v /\ e = p) \/ s.low[v] <= s.disc[e]
  <2> TAKE x \in T
  <2> TAKE e \in Neighbours(x)
  <2>1. e \in Docs /\ x \in Docs
    BY <1>3, <1>12, <1>14
  <2>2. ASSUME ~(x = v /\ e = p) PROVE Looked(s, n, x, e)
    BY <1>1, <1>2, <1>10, <2>2
  <2>3. QED BY <1>6, <2>1, <2>2
<1>16. ASSUME NEW x \in T, NEW e \in Neighbours(x), e \notin T, e # p PROVE s.disc[e] < s.disc[p]
  <2>1. e \in Met(s) /\ e \in Docs /\ x \in Docs /\ x \in Met(s) /\ s.disc[x] >= s.disc[v]
    BY <1>3, <1>9, <1>12, <1>14, <1>t DEF T, v
  <2>2. x \in Neighbours(e)
    BY <1>16, <2>1 DEF Mutual
  <2>3. s.disc[e] \in Int /\ s.disc[p] \in Int /\ s.disc[x] \in Int /\ s.disc[v] \in Int
    BY <1>3, <1>12, <2>1
  <2>4. ASSUME s.disc[e] >= s.disc[p] PROVE FALSE
    <3>1. e \in Over(s, m)
      BY <1>9, <2>1, <2>4 DEF p
    <3>2. InBlock(s, m, e)
      BY <1>1, <1>8, <1>16, <3>1 DEF T
    <3>3. s.disc[x] < s.disc[v]
      BY <1>1, <1>7, <1>16, <2>1, <2>2, <3>2 DEF p, v
    <3>4. QED BY <2>1, <2>3, <3>3
  <2>5. QED BY <2>3, <2>4
<1>17. ASSUME s.low[v] <= s.disc[p]
       PROVE  \E y, e \in Docs : /\ Leads(s, n, y, e) /\ s.disc[e] = s.low[v]
                                 /\ y \in T /\ e \in Neighbours(y) /\ ~(y = v /\ e = p)
                                 /\ e \in Tree(s) /\ e \notin T
                                 /\ s.low[v] < s.disc[p] => e \notin Over(s, m)
  <2>1. s.low[v] # s.disc[v]
    BY <1>3, <1>5, <1>12, <1>17
  <2>2. PICK y \in Docs, e \in Docs : Leads(s, n, y, e) /\ s.disc[e] = s.low[v]
    BY <1>6, <2>1
  <2>3. y \in T /\ e \in Met(s) /\ e \in Neighbours(y) /\ ~(y = v /\ e = p)
    BY <1>1, <1>11, <2>2
  <2>4. e \in Tree(s)
    BY <1>12, <1>t, <2>3
  <2>5. s.disc[e] \in Int /\ s.disc[p] \in Int /\ s.disc[v] \in Int
    BY <1>3, <1>12
  <2>6. e \notin T
    <3>1. e \in T => s.disc[e] >= s.disc[v]
      BY <1>9 DEF T, v
    <3>2. QED BY <1>5, <1>17, <2>2, <2>5, <3>1
  <2>7. s.low[v] < s.disc[p] => e \notin Over(s, m)
    <3>1. e \in Over(s, m) => s.disc[e] >= s.disc[p]
      BY <1>9 DEF p
    <3>2. QED BY <2>2, <2>5, <3>1
  <2>8. QED BY <2>2, <2>3, <2>4, <2>6, <2>7
<1>18. \A x \in T : \A e \in Neighbours(x) : e \in T \/ e = p \/ s.disc[e] < s.disc[p]
  BY <1>16
<1>19. QED BY <1>4, <1>5, <1>6, <1>12, <1>13, <1>14, <1>15, <1>17, <1>18 DEF n, m, v, p, T

\* A frame that returns leaves the numbers in order and the frames a path.
LEMMA BacksFrames ==
  ASSUME Mutual, NEW s, NEW t, LowRight(s), Backs(s, t)
  PROVE  LowTyped(t) /\ LowOrdered(t) /\ LowFrames(t) /\ LowMet(t)
<1> DEFINE n == Len(s.work)
           m == n - 1
           v == Held(s, n)
           p == Held(s, m)
<1>0. LowTyped(s) /\ LowOrdered(s) /\ LowFrames(s) /\ LowMet(s)
  BY DEF LowRight
<1>1. /\ n \in Nat /\ m \in Nat /\ m + 1 = n /\ m \in 1..n /\ n \in 1..n
      /\ Len(t.work) = m /\ (\A k \in 1..m : k \in 1..n /\ k < n)
      /\ Met(t) = Met(s) /\ Past(t) = Past(s)
      /\ (\A k \in 1..m : Held(t, k) = Held(s, k))
      /\ (\A k \in 1..m : k < m => \A x : InBlock(t, k, x) <=> InBlock(s, k, x))
      /\ \A x : InBlock(t, m, x) <=> InBlock(s, m, x) \/ x \in Over(s, n)
  BY BacksSets
<1>2. /\ \A k \in 1..m : t.work[k] = s.work[k]
      /\ t.disc = s.disc /\ t.counter = s.counter
      /\ t.low = [s.low EXCEPT ![p] = IF s.low[v] < @ THEN s.low[v] ELSE @]
  BY DEF Backs
<1>3. /\ s.disc \in [Docs -> Int] /\ s.low \in [Docs -> Int] /\ s.counter \in Nat
      /\ \A k \in 1..n : Held(s, k) \in Docs /\ s.work[k].children \in Nat
  BY <1>0 DEF LowTyped
<1>4. /\ \A d \in Met(s) : s.disc[d] \in 0..(s.counter - 1)
      /\ \A d, e \in Met(s) : s.disc[d] = s.disc[e] => d = e
      /\ \A k \in 1..n : Held(s, k) \in Met(s)
      /\ \A j, k \in 1..n : j < k => s.disc[Held(s, j)] < s.disc[Held(s, k)]
  BY <1>0 DEF LowOrdered
<1>5. \A k \in 1..n : /\ Tried(s.work[k]) \subseteq Met(s)
                      /\ s.work[k].parent # 0 => k > 1 /\ s.work[k].parent = Held(s, k - 1)
                      /\ k > 1 => /\ Held(s, k) \in Neighbours(Held(s, k - 1))
                                  /\ Held(s, k - 1) \in Tried(s.work[k]) \/ s.work[k].parent = Held(s, k - 1)
  BY <1>0 DEF LowFrames
<1>6. /\ \A x \in Past(s) : Neighbours(x) \subseteq Past(s)
      /\ \A k \in 1..n : \A x \in Met(s) : InBlock(s, k, x) /\ x # Held(s, k) =>
           \A e \in Neighbours(x) : e \in Met(s) /\ (k < n => s.disc[e] < s.disc[Held(s, k + 1)])
  BY <1>0 DEF LowMet
<1>7. \A x \in Over(s, n) : Neighbours(x) \subseteq Met(s)
  BY BacksKnows
<1> HIDE DEF n, m, v, p
<1>8. LowTyped(t)
  <2>1. v \in Docs /\ p \in Docs /\ s.low[v] \in Int /\ s.low[p] \in Int
    BY <1>1, <1>3 DEF v, p
  <2>2. t.low \in [Docs -> Int]
    BY <1>2, <1>3, <2>1
  <2>3. QED BY <1>1, <1>2, <1>3, <2>2 DEF LowTyped
<1>9. LowOrdered(t)
  BY <1>1, <1>2, <1>4 DEF LowOrdered
<1>10. LowFrames(t)
  <2>1. \A k \in 1..m : k > 1 => k - 1 \in 1..m
    BY <1>1
  <2>2. QED BY <1>1, <1>2, <1>5, <2>1 DEF LowFrames
<1>11. ASSUME NEW k \in 1..m, NEW x \in Met(t), InBlock(t, k, x), x # Held(t, k), NEW e \in Neighbours(x)
       PROVE  e \in Met(t) /\ (k < m => t.disc[e] < t.disc[Held(t, k + 1)])
  <2>1. CASE k < m
    <3>1. k + 1 \in 1..m /\ k \in 1..n /\ k < n
      BY <1>1, <2>1
    <3>2. InBlock(s, k, x) /\ x # Held(s, k) /\ x \in Met(s) /\ Held(t, k + 1) = Held(s, k + 1)
      BY <1>1, <1>11, <2>1, <3>1
    <3>3. e \in Met(s) /\ s.disc[e] < s.disc[Held(s, k + 1)]
      BY <1>6, <3>1, <3>2
    <3>4. QED BY <1>1, <1>2, <3>2, <3>3
  <2>2. CASE k = m
    <3>1. ~(k < m)
      BY <1>1, <2>2
    <3>2. InBlock(s, m, x) \/ x \in Over(s, n)
      BY <1>1, <1>11, <2>2
    <3>3. CASE InBlock(s, m, x)
      <4>1. x # Held(s, m) /\ x \in Met(s)
        BY <1>1, <1>11, <2>2
      <4>2. QED BY <1>1, <1>6, <3>1, <3>3, <4>1
    <3>4. CASE x \in Over(s, n)
      BY <1>1, <1>7, <3>1, <3>4
    <3>5. QED BY <3>2, <3>3, <3>4
  <2>3. QED BY <1>1, <2>1, <2>2
<1>12. \A x \in Past(t) : Neighbours(x) \subseteq Past(t)
  BY <1>1, <1>6
<1>13. LowMet(t)
  BY <1>1, <1>11, <1>12 DEF LowMet
<1>14. QED BY <1>8, <1>9, <1>10, <1>13

\* A frame that returns hands its low to the frame below, whose low stays the least
\* number looked at.
LEMMA BacksLeast ==
  ASSUME Mutual, NEW s, NEW t, LowRight(s), Backs(s, t)
  PROVE  LowIsLeast(t)
<1> DEFINE n == Len(s.work)
           m == n - 1
           v == Held(s, n)
           p == Held(s, m)
           T == Over(s, n)
<1>0. LowTyped(s) /\ LowOrdered(s) /\ LowIsLeast(s)
  BY DEF LowRight
<1>1. /\ n \in Nat /\ m \in Nat /\ m + 1 = n /\ m \in 1..n /\ n \in 1..n /\ m \in 1..m
      /\ Len(t.work) = m /\ (\A k \in 1..m : k \in 1..n /\ k < n)
      /\ (\A k \in 1..m : Held(t, k) = Held(s, k) /\ Over(t, k) = Over(s, k))
      /\ (\A k \in 1..m : k < m => \A x : InBlock(t, k, x) <=> InBlock(s, k, x))
      /\ (\A x : InBlock(t, m, x) <=> InBlock(s, m, x) \/ x \in T)
      /\ \A k \in 1..m : \A y, e : Leads(s, k, y, e) => Leads(t, k, y, e)
  BY BacksSets
<1>2. /\ \A k \in 1..m : t.work[k] = s.work[k]
      /\ t.disc = s.disc
      /\ t.low = [s.low EXCEPT ![p] = IF s.low[v] < @ THEN s.low[v] ELSE @]
  BY DEF Backs
<1>3. /\ v \in Docs /\ p \in Docs
      /\ v \in T /\ p \notin T /\ T \in SUBSET Docs
      /\ s.disc[p] < s.disc[v] /\ s.low[v] <= s.disc[v]
      /\ \A x \in T : \A e \in Neighbours(x) : (x = v /\ e = p) \/ s.low[v] <= s.disc[e]
      /\ s.low[v] <= s.disc[p] =>
           \E y, e \in Docs : Leads(s, n, y, e) /\ s.disc[e] = s.low[v]
  <2>1. /\ v \in Docs /\ p \in Docs
        /\ v \in T /\ p \notin T /\ T \in SUBSET Docs
        /\ s.disc[p] < s.disc[v] /\ s.low[v] <= s.disc[v]
        /\ \A x \in T : \A e \in Neighbours(x) : (x = v /\ e = p) \/ s.low[v] <= s.disc[e]
    BY BacksKnows
  <2>2. s.low[v] <= s.disc[p] => \E y, e \in Docs : Leads(s, n, y, e) /\ s.disc[e] = s.low[v]
    BY BacksKnows
  <2>3. QED BY <2>1, <2>2
<1>4. /\ \A x \in Docs : s.disc[x] \in Int /\ s.low[x] \in Int
      /\ \A k \in 1..n : /\ Held(s, k) \in Docs
                         /\ \A j \in 1..n : j <= k => Over(s, k) \subseteq Over(s, j)
                         /\ \A j \in 1..n : Held(s, j) = Held(s, k) => j = k
  BY <1>0, LowFacts
<1>5. \A k \in 1..n :
        /\ s.low[Held(s, k)] <= s.disc[Held(s, k)]
        /\ \/ s.low[Held(s, k)] = s.disc[Held(s, k)]
           \/ \E y, e \in Docs : Leads(s, k, y, e) /\ s.disc[e] = s.low[Held(s, k)]
        /\ \A x, e \in Docs : Looked(s, k, x, e) => s.low[Held(s, k)] <= s.disc[e]
  BY <1>0 DEF LowIsLeast
<1>6. s.low \in [Docs -> Int]
  BY <1>0 DEF LowTyped
<1>7. s.low[v] \in Int /\ s.disc[v] \in Int /\ s.low[p] \in Int /\ s.disc[p] \in Int
  BY <1>3, <1>4
<1>8. \A k, x, e : Looked(s, k, x, e) <=>
        /\ InBlock(s, k, x) /\ e \in Neighbours(x)
        /\ x = Held(s, k) => e \in Tried(s.work[k]) /\ (k > 1 => e # Held(s, k - 1))
  BY DEF Looked
<1>9. \A k, x, e : Looked(t, k, x, e) <=>
        /\ InBlock(t, k, x) /\ e \in Neighbours(x)
        /\ x = Held(t, k) => e \in Tried(t.work[k]) /\ (k > 1 => e # Held(t, k - 1))
  BY DEF Looked
<1>l. \A y, e : Leads(s, n, y, e) => y \in T /\ e \in Met(s) /\ e \in Neighbours(y)
  BY DEF Leads
<1>m. \A k, y, e : Leads(t, k, y, e) <=>
         /\ y \in Over(t, k) /\ e \in Met(t) /\ e \in Neighbours(y)
         /\ k > 1 => ~(y = Held(t, k) /\ e = Held(t, k - 1))
  BY DEF Leads
<1>n. Met(t) = Met(s)
  BY BacksSets
<1>p. \A k \in 1..m : Held(s, k) = p <=> k = m
  BY <1>1, <1>4 DEF p
<1> HIDE DEF n, m, v, p, T
<1>10. \A k \in 1..m : k > 1 => k - 1 \in 1..m
  BY <1>1
<1>11. \A k \in 1..m : k # m => t.low[Held(s, k)] = s.low[Held(s, k)]
  BY <1>1, <1>2, <1>4, <1>6, <1>p
<1>12. \/ t.low[p] = s.low[p] /\ s.low[p] <= s.low[v]
       \/ t.low[p] = s.low[v] /\ s.low[v] < s.low[p]
  BY <1>2, <1>3, <1>6, <1>7
<1>13. \A k \in 1..m : \A x, e \in Docs : Looked(t, k, x, e) => Looked(s, k, x, e) \/ (k = m /\ x \in T)
  <2> SUFFICES ASSUME NEW k \in 1..m, NEW x \in Docs, NEW e \in Docs, Looked(t, k, x, e),
                      ~(k = m /\ x \in T)
               PROVE  Looked(s, k, x, e)
    OBVIOUS
  <2>1. InBlock(s, k, x)
    <3>1. k < m \/ k = m
      BY <1>1
    <3>2. InBlock(t, k, x)
      BY <1>9
    <3>3. QED BY <1>1, <3>1, <3>2
  <2>2. Held(t, k) = Held(s, k) /\ (k > 1 => Held(t, k - 1) = Held(s, k - 1)) /\ t.work[k] = s.work[k]
    BY <1>1, <1>2, <1>10
  <2>3. QED BY <1>8, <1>9, <2>1, <2>2
<1>14. ASSUME NEW k \in 1..m, k # m
       PROVE  /\ t.low[Held(t, k)] <= t.disc[Held(t, k)]
              /\ \/ t.low[Held(t, k)] = t.disc[Held(t, k)]
                 \/ \E y, e \in Docs : Leads(t, k, y, e) /\ t.disc[e] = t.low[Held(t, k)]
              /\ \A x, e \in Docs : Looked(t, k, x, e) => t.low[Held(t, k)] <= t.disc[e]
  <2>1. t.low[Held(t, k)] = s.low[Held(s, k)] /\ t.disc[Held(t, k)] = s.disc[Held(s, k)] /\ k \in 1..n
    BY <1>1, <1>2, <1>11, <1>14
  <2>2. \A x, e \in Docs : Looked(t, k, x, e) => Looked(s, k, x, e)
    BY <1>13, <1>14
  <2>3. QED BY <1>1, <1>2, <1>5, <2>1, <2>2
<1>15. /\ t.low[p] <= t.disc[p]
       /\ \/ t.low[p] = t.disc[p]
          \/ \E y, e \in Docs : Leads(t, m, y, e) /\ t.disc[e] = t.low[p]
       /\ \A x, e \in Docs : Looked(t, m, x, e) => t.low[p] <= t.disc[e]
  <2>1. /\ s.low[p] <= s.disc[p]
        /\ \/ s.low[p] = s.disc[p]
           \/ \E y, e \in Docs : Leads(s, m, y, e) /\ s.disc[e] = s.low[p]
        /\ \A x, e \in Docs : Looked(s, m, x, e) => s.low[p] <= s.disc[e]
    BY <1>1, <1>5 DEF p
  <2>2. t.low[p] <= t.disc[p] /\ t.low[p] <= s.low[p] /\ t.low[p] <= s.low[v] /\ t.low[p] \in Int
    BY <1>2, <1>7, <1>12, <2>1
  <2>3. \/ t.low[p] = t.disc[p]
        \/ \E y, e \in Docs : Leads(t, m, y, e) /\ t.disc[e] = t.low[p]
    <3>1. CASE t.low[p] = s.low[p]
      BY <1>1, <1>2, <2>1, <3>1
    <3>2. CASE t.low[p] = s.low[v]
      <4>1. s.low[v] <= s.disc[p]
        BY <1>2, <1>7, <2>2, <3>2
      <4>2. PICK y \in Docs, e \in Docs : Leads(s, n, y, e) /\ s.disc[e] = s.low[v]
        BY <1>3, <4>1
      <4>3. y \in T /\ e \in Met(t) /\ e \in Neighbours(y) /\ y # p
        BY <1>3, <1>l, <1>n, <4>2
      <4>4. y \in Over(t, m) /\ Held(t, m) = p
        <5>1. T \subseteq Over(s, m)
          BY <1>1, <1>4 DEF T
        <5>2. QED BY <1>1, <4>3, <5>1 DEF p
      <4>5. Leads(t, m, y, e)
        BY <1>m, <4>3, <4>4
      <4>6. QED BY <1>2, <3>2, <4>2, <4>5
    <3>3. QED BY <1>12, <3>1, <3>2
  <2>4. ASSUME NEW x \in Docs, NEW e \in Docs, Looked(t, m, x, e) PROVE t.low[p] <= t.disc[e]
    <3>1. s.disc[e] \in Int
      BY <1>4
    <3>2. CASE Looked(s, m, x, e)
      <4>1. s.low[p] <= s.disc[e]
        BY <2>1, <3>2
      <4>2. QED BY <1>2, <1>7, <2>2, <3>1, <4>1
    <3>3. CASE x \in T
      <4>1. e \in Neighbours(x)
        BY <1>9, <2>4
      <4>2. CASE e = p
        BY <2>2, <4>2
      <4>3. CASE e # p
        <5>1. s.low[v] <= s.disc[e]
          BY <1>3, <3>3, <4>1, <4>3
        <5>2. QED BY <1>2, <1>7, <2>2, <3>1, <5>1
      <4>4. QED BY <4>2, <4>3
    <3>4. QED BY <1>1, <1>13, <2>4, <3>2, <3>3
  <2>5. QED BY <2>2, <2>3, <2>4
<1>16. ASSUME NEW k \in 1..m
       PROVE  /\ t.low[Held(t, k)] <= t.disc[Held(t, k)]
              /\ \/ t.low[Held(t, k)] = t.disc[Held(t, k)]
                 \/ \E y, e \in Docs : Leads(t, k, y, e) /\ t.disc[e] = t.low[Held(t, k)]
              /\ \A x, e \in Docs : Looked(t, k, x, e) => t.low[Held(t, k)] <= t.disc[e]
  <2>1. CASE k # m
    BY <1>14, <2>1
  <2>2. CASE k = m
    <3>1. Held(t, k) = p
      BY <1>1, <2>2 DEF p
    <3>2. QED BY <1>15, <2>2, <3>1
  <2>3. QED BY <2>1, <2>2
<1>17. QED BY <1>1, <1>16 DEF LowIsLeast

\* A frame that returns makes the document below a cut point exactly if no link from what
\* was met since leads below that document.
LEMMA BacksCuts ==
  ASSUME Mutual, NEW s, NEW t, LowRight(s), Backs(s, t)
  PROVE  LowCuts(t)
<1> DEFINE n == Len(s.work)
           m == n - 1
           v == Held(s, n)
           p == Held(s, m)
           T == Over(s, n)
           r == Held(s, 1)
           R == Tree(s)
           L == R \ Over(s, m)
           D == Docs \ {p}
<1>0. LowTyped(s) /\ LowOrdered(s) /\ LowCuts(s) /\ LowJoined(s)
  BY DEF LowRight
<1>1. /\ n \in Nat /\ m \in Nat /\ m + 1 = n /\ m \in 1..n /\ n \in 1..n /\ 1 \in 1..m /\ m \in 1..m
      /\ Len(t.work) = m /\ (\A k \in 1..m : k \in 1..n /\ k < n)
      /\ Past(t) = Past(s) /\ Tree(t) = R
      /\ (\A k \in 1..m : Held(t, k) = Held(s, k) /\ Over(t, k) = Over(s, k))
  BY BacksSets
<1>2. t.aps = IF m > 1 /\ s.low[v] >= s.disc[p] THEN s.aps \union {p} ELSE s.aps
  BY DEF Backs
<1>3. /\ v \in Docs /\ p \in Docs /\ p \in R
      /\ v \in T /\ p \notin T /\ T \in SUBSET Docs /\ T \subseteq R
      /\ s.low[v] <= s.disc[v]
      /\ \A x \in T : Neighbours(x) \subseteq Met(s)
      /\ \A x \in T : \A e \in Neighbours(x) : (x = v /\ e = p) \/ s.low[v] <= s.disc[e]
      /\ \A x \in T : \A e \in Neighbours(x) : e \in T \/ e = p \/ s.disc[e] < s.disc[p]
  BY BacksKnows
<1>4. s.low[v] < s.disc[p] =>
        \E y, e \in Docs : y \in T /\ e \in Neighbours(y) /\ e \in R /\ e \notin Over(s, m)
  <2>1. s.low[v] <= s.disc[p] =>
          \E y, e \in Docs : /\ Leads(s, n, y, e) /\ s.disc[e] = s.low[v]
                             /\ y \in T /\ e \in Neighbours(y) /\ ~(y = v /\ e = p)
                             /\ e \in R /\ e \notin T
                             /\ s.low[v] < s.disc[p] => e \notin Over(s, m)
    BY BacksKnows
  <2>2. s.low[v] \in Int /\ s.disc[p] \in Int
    <3>1. \A x \in Docs : s.disc[x] \in Int /\ s.low[x] \in Int
      BY <1>0, LowFacts
    <3>2. QED BY <1>3, <3>1
  <2> HIDE DEF n, m, v, p, T, R, L, D, r
  <2>3. QED BY <2>1, <2>2
<1>5. /\ Met(s) \in SUBSET Docs
      /\ \A x \in Docs : s.disc[x] \in Int /\ s.low[x] \in Int
      /\ \A k \in 1..n : /\ Held(s, k) \in Over(s, k)
                         /\ \A j \in 1..n : j < k => Held(s, j) \notin Over(s, k)
                         /\ \A j \in 1..n : Held(s, j) = Held(s, k) => j = k
  BY <1>0, LowFacts
<1>t. /\ r \in R /\ R \in SUBSET Docs /\ R \subseteq Met(s)
      /\ \A x, y \in R : Joins(R, x, y)
  <2>1. Len(s.work) > 0
    BY <1>1
  <2>2. QED BY <2>1, TreeFacts
<1>6. /\ s.aps \subseteq Docs /\ \A d \in s.aps : ~Whole(d)
      /\ \A d \in Past(s) \ s.aps : Whole(d)
      /\ n > 0 => \A d \in R \ s.aps : d # r => \A x \in R : x # d => Clear(s, d, x)
  BY <1>0 DEF LowCuts
<1>7. /\ \A x \in T : Joins(T, x, v)
      /\ m > 1 => \A x \in L : Joins(L, x, r)
  BY <1>0, <1>1 DEF LowJoined
<1>8. D \in SUBSET Docs /\ Docs \in SUBSET Docs /\ T \in SUBSET D /\ L \in SUBSET D /\ L \in SUBSET Docs
  BY <1>1, <1>3, <1>5, <1>t
<1>9. \A d, x : Clear(s, d, x) <=>
         \/ \E k \in 1..n : k < n /\ d = Held(s, k) /\ x \in Over(s, k + 1)
         \/ Joins(Docs \ {d}, x, r)
  BY DEF Clear
<1>10. \A d, x : Clear(t, d, x) <=>
         \/ \E k \in 1..m : k < m /\ d = Held(t, k) /\ x \in Over(t, k + 1)
         \/ Joins(Docs \ {d}, x, r)
  BY <1>1 DEF Clear
<1>11. m > 1 => p # r
  <2>1. 1 \in 1..n
    BY <1>1
  <2>2. Held(s, 1) = Held(s, m) => 1 = m
    BY <1>1, <1>5, <2>1
  <2> HIDE DEF n, m, v, T, R, L, D
  <2>3. QED BY <1>1, <2>2
<1>12. r \notin T
  BY <1>1, <1>5
<1>d. \A x : x \in D <=> x \in Docs /\ x # p
  OBVIOUS
<1> HIDE DEF n, m, v, p, T, r, R, L, D
<1>13. ASSUME m > 1, s.low[v] >= s.disc[p], Whole(p) PROVE FALSE
  <2>1. v \in R /\ v # p /\ v \in D /\ r \in D
    BY <1>3, <1>11, <1>13, <1>d, <1>t
  <2>2. Joins(R, v, r)
    BY <1>t, <2>1
  <2>3. Joins(Docs, v, r)
    BY <1>8, <1>t, <2>2, JoinsFacts
  <2>4. Joins(D, v, r)
    BY <1>13, <2>1, <2>3 DEF Whole, D
  <2>5. \A x \in T : Neighbours(x) \intersect D \subseteq T
    <3> SUFFICES ASSUME NEW x \in T, NEW e \in Neighbours(x), e \in D, e \notin T PROVE FALSE
      OBVIOUS
    <3>1. e # p /\ e \in Docs
      BY <1>d
    <3>2. s.disc[e] < s.disc[p] /\ s.low[v] <= s.disc[e]
      BY <1>3, <3>1
    <3>3. s.disc[e] \in Int /\ s.disc[p] \in Int /\ s.low[v] \in Int
      BY <1>3, <1>5, <3>1
    <3>4. QED BY <1>13, <3>2, <3>3
  <2>6. r \in T
    BY <1>3, <1>8, <2>4, <2>5 DEF Joins
  <2>7. QED BY <1>12, <2>6
<1>14. t.aps \subseteq Docs /\ \A d \in t.aps : ~Whole(d)
  BY <1>2, <1>3, <1>6, <1>13
<1>15. \A d \in Past(t) \ t.aps : Whole(d)
  BY <1>1, <1>2, <1>6
<1>16. ASSUME NEW d \in Tree(t) \ t.aps, d # r, NEW x \in Tree(t), x # d
       PROVE  Clear(t, d, x)
  <2>1. d \in R /\ d \notin s.aps /\ x \in R
    BY <1>1, <1>2, <1>16
  <2>2. Clear(s, d, x)
    <3>1. n > 0
      BY <1>1
    <3>2. QED BY <1>6, <1>16, <2>1, <3>1
  <2>3. CASE Joins(Docs \ {d}, x, r)
    BY <1>10, <2>3
  <2>4. CASE \E k \in 1..n : k < n /\ d = Held(s, k) /\ x \in Over(s, k + 1)
    <3>1. PICK k \in 1..n : k < n /\ d = Held(s, k) /\ x \in Over(s, k + 1)
      BY <2>4
    <3>2. CASE k < m
      <4>1. k \in 1..m /\ k + 1 \in 1..m
        BY <1>1, <3>1, <3>2
      <4>2. d = Held(t, k) /\ x \in Over(t, k + 1)
        BY <1>1, <3>1, <4>1
      <4>3. QED BY <1>10, <3>2, <4>1, <4>2
    <3>3. CASE k = m
      <4>1. d = p /\ x \in T
        BY <1>1, <3>1, <3>3 DEF p, T
      <4>2. m > 1
        <5>1. ASSUME m = 1 PROVE FALSE
          BY <1>16, <4>1, <5>1 DEF p, r
        <5>2. QED BY <1>1, <5>1
      <4>3. s.low[v] < s.disc[p]
        <5>1. ~(s.low[v] >= s.disc[p])
          BY <1>2, <1>16, <4>1, <4>2
        <5>2. s.low[v] \in Int /\ s.disc[p] \in Int
          BY <1>3, <1>5
        <5>3. QED BY <5>1, <5>2
      <4>4. PICK y \in Docs, e \in Docs : y \in T /\ e \in Neighbours(y) /\ e \in R /\ e \notin Over(s, m)
        BY <1>4, <4>3
      <4>5. e \in L /\ e \in D /\ y \in D
        BY <1>8, <4>4 DEF L
      <4>6. Joins(L, e, r) /\ Joins(T, x, v) /\ Joins(T, y, v)
        BY <1>7, <4>1, <4>2, <4>4, <4>5
      <4>7. Joins(D, e, r)
        BY <1>8, <4>6, JoinsFacts
      <4>8. Joins(D, x, v) /\ Joins(D, y, v)
        BY <1>3, <1>8, <4>6, JoinsFacts
      <4>9. Joins(D, v, y)
        BY <1>8, <4>8, JoinsFacts
      <4>10. Joins(D, y, e)
        BY <1>8, <4>4, <4>5, JoinsFacts
      <4>11. Joins(D, x, y)
        BY <1>8, <4>8, <4>9, JoinsFacts
      <4>12. Joins(D, x, e)
        BY <1>8, <4>10, <4>11, JoinsFacts
      <4>13. Joins(D, x, r)
        BY <1>8, <4>7, <4>12, JoinsFacts
      <4>14. QED BY <1>10, <4>1, <4>13 DEF D
    <3>4. k \in Nat /\ m \in Nat /\ k < m + 1
      BY <1>1, <3>1
    <3>5. k < m \/ k = m
      BY <3>4
    <3>6. QED BY <3>2, <3>3, <3>5
  <2>5. QED BY <1>9, <2>2, <2>3, <2>4
<1>17. Held(t, 1) = r
  BY <1>1 DEF r
<1>18. QED BY <1>14, <1>15, <1>16, <1>17 DEF LowCuts

\* A frame that returns makes the link to the document below a bridge exactly if no other
\* link leads out of what was met since.
LEMMA BacksBridges ==
  ASSUME Mutual, NEW s, NEW t, LowRight(s), Backs(s, t)
  PROVE  LowBridges(t)
<1> DEFINE n == Len(s.work)
           m == n - 1
           v == Held(s, n)
           p == Held(s, m)
           T == Over(s, n)
           R == Tree(s)
           L == R \ T
<1>0. LowTyped(s) /\ LowOrdered(s) /\ LowBridges(s) /\ LowJoined(s)
  BY DEF LowRight
<1>1. /\ n \in Nat /\ m \in Nat /\ m + 1 = n /\ m \in 1..n /\ n \in 1..n /\ n > 1
      /\ Len(t.work) = m /\ Met(t) = Met(s)
      /\ (\A k \in 1..m : Held(t, k) = Held(s, k))
  <2>1. /\ n \in Nat /\ m \in Nat /\ m + 1 = n /\ m \in 1..n /\ n \in 1..n
        /\ Len(t.work) = m /\ Met(t) = Met(s)
        /\ (\A k \in 1..m : Held(t, k) = Held(s, k))
    BY BacksSets
  <2>2. n > 1
    BY DEF Backs
  <2>3. QED BY <2>1, <2>2
<1>2. t.bridges = IF s.low[v] > s.disc[p] THEN s.bridges \union {{p, v}} ELSE s.bridges
  BY DEF Backs
<1>3. /\ v \in Docs /\ p \in Docs /\ v \in Neighbours(p) /\ p \in R
      /\ v \in T /\ p \notin T /\ T \in SUBSET Docs /\ T \subseteq R
      /\ s.disc[p] < s.disc[v]
      /\ \A x \in T : Neighbours(x) \subseteq Met(s)
      /\ \A x \in T : \A e \in Neighbours(x) : (x = v /\ e = p) \/ s.low[v] <= s.disc[e]
      /\ \A x \in T : \A e \in Neighbours(x) : e \in T \/ e = p \/ s.disc[e] < s.disc[p]
  BY BacksKnows
<1>4. s.low[v] <= s.disc[p] =>
        \E y, e \in Docs : y \in T /\ e \in Neighbours(y) /\ ~(y = v /\ e = p) /\ e \in R /\ e \notin T
  <2>1. s.low[v] <= s.disc[p] =>
          \E y, e \in Docs : /\ Leads(s, n, y, e) /\ s.disc[e] = s.low[v]
                             /\ y \in T /\ e \in Neighbours(y) /\ ~(y = v /\ e = p)
                             /\ e \in R /\ e \notin T
                             /\ s.low[v] < s.disc[p] => e \notin Over(s, m)
    BY BacksKnows
  <2> HIDE DEF n, m, v, p, T, R, L
  <2>3. QED BY <2>1
<1>5. Met(s) \in SUBSET Docs /\ \A x \in Docs : s.disc[x] \in Int /\ s.low[x] \in Int
  BY <1>0, LowFacts
<1>t. R \in SUBSET Docs
  <2>1. Len(s.work) > 0
    BY <1>1
  <2>2. QED BY <2>1, TreeFacts
<1>6. /\ \A b \in s.bridges : \E a, c \in Docs : c \in Neighbours(a) /\ b = {a, c} /\ ~Kept(a, c)
      /\ \A x, w \in Met(s) : w \in Neighbours(x) => {x, w} \in s.bridges \/ Kept(x, w) \/ Stacked(s, x, w)
  BY <1>0 DEF LowBridges
<1>7. /\ \A x \in T : Joins(T, x, v)
      /\ \A x \in L : Joins(L, x, Held(s, 1))
  BY <1>0, <1>1 DEF LowJoined
<1>8. L \in SUBSET Docs /\ v \notin L /\ p \in L
  BY <1>3, <1>t
<1>9. \A x, w : Stacked(s, x, w) <=> \E k \in 1..n : k > 1 /\ {x, w} = {Held(s, k - 1), Held(s, k)}
  BY DEF Stacked
<1>10. \A x, w : Stacked(t, x, w) <=> \E k \in 1..m : k > 1 /\ {x, w} = {Held(t, k - 1), Held(t, k)}
  BY <1>1 DEF Stacked
<1>l. \A x : x \in L <=> x \in R /\ x \notin T
  OBVIOUS
<1> HIDE DEF n, m, v, p, T, R, L
<1>11. ASSUME s.low[v] > s.disc[p], Kept(p, v) PROVE FALSE
  <2>1. JoinsPast(p, v, v, p)
    <3>1. JoinsPast(p, v, p, v)
      BY <1>11 DEF Kept
    <3>2. QED BY <3>1, JoinsPastFacts
  <2>2. \A x \in T : \A e \in Neighbours(x) : {x, e} = {p, v} \/ e \in T
    <3> SUFFICES ASSUME NEW x \in T, NEW e \in Neighbours(x), {x, e} # {p, v}, e \notin T PROVE FALSE
      OBVIOUS
    <3>1. ~(x = v /\ e = p)
      <4>1. {v, p} = {p, v}
        OBVIOUS
      <4>2. QED BY <4>1
    <3>2. s.low[v] <= s.disc[e] /\ (e = p \/ s.disc[e] < s.disc[p])
      BY <1>3, <3>1
    <3>3. e \in Docs
      BY <1>3, <1>5
    <3>4. s.disc[e] \in Int /\ s.disc[p] \in Int /\ s.low[v] \in Int
      BY <1>3, <1>5, <3>3
    <3>5. QED BY <1>11, <3>2, <3>4
  <2>3. p \in T
    BY <1>3, <2>1, <2>2 DEF JoinsPast
  <2>4. QED BY <1>3, <2>3
<1>12. ASSUME NEW b \in t.bridges
       PROVE  \E a, c \in Docs : c \in Neighbours(a) /\ b = {a, c} /\ ~Kept(a, c)
  <2>1. CASE b \in s.bridges
    BY <1>6, <2>1
  <2>2. CASE b \notin s.bridges
    <3>1. s.low[v] > s.disc[p] /\ b = {p, v}
      BY <1>2, <1>12, <2>2
    <3>2. ~Kept(p, v)
      BY <1>11, <3>1
    <3>3. QED BY <1>3, <3>1, <3>2
  <2>3. QED BY <2>1, <2>2
<1>13. ASSUME s.low[v] <= s.disc[p] PROVE Kept(p, v)
  <2>1. PICK y \in Docs, e \in Docs : y \in T /\ e \in Neighbours(y) /\ ~(y = v /\ e = p) /\ e \in R /\ e \notin T
    BY <1>4, <1>13
  <2>2. {y, e} # {p, v}
    BY <1>3, <2>1
  <2>3. Joins(T, y, v) /\ e \in L
    BY <1>7, <1>l, <2>1
  <2>4. Joins(L, e, Held(s, 1)) /\ Joins(L, p, Held(s, 1))
    BY <1>7, <1>8, <2>3
  <2>5. Joins(L, e, p)
    BY <1>8, <2>4, JoinsFacts
  <2>6. JoinsPast(p, v, y, v) /\ JoinsPast(p, v, e, p)
    BY <1>3, <1>8, <2>3, <2>5, JoinsPastFacts
  <2>7. JoinsPast(p, v, v, y) /\ JoinsPast(p, v, y, e)
    BY <2>1, <2>2, <2>6, JoinsPastFacts
  <2>8. JoinsPast(p, v, v, e)
    BY <2>7, JoinsPastFacts
  <2>9. JoinsPast(p, v, v, p)
    BY <2>6, <2>8, JoinsPastFacts
  <2>10. JoinsPast(p, v, p, v)
    BY <2>9, JoinsPastFacts
  <2>11. QED BY <2>10 DEF Kept
<1>14. ASSUME NEW x \in Met(t), NEW w \in Met(t), w \in Neighbours(x), Stacked(s, x, w)
       PROVE  {x, w} \in t.bridges \/ Kept(x, w) \/ Stacked(t, x, w)
  <2>1. PICK k \in 1..n : k > 1 /\ {x, w} = {Held(s, k - 1), Held(s, k)}
    BY <1>9, <1>14
  <2>2. CASE k = n
    <3>1. k - 1 = m
      BY <1>1, <2>2
    <3>2. {x, w} = {p, v}
      BY <2>1, <2>2, <3>1 DEF p, v
    <3>3. CASE s.low[v] > s.disc[p]
      BY <1>2, <3>2, <3>3
    <3>4. CASE s.low[v] <= s.disc[p]
      <4>1. Kept(p, v)
        BY <1>13, <3>4
      <4>2. (x = p /\ w = v) \/ (x = v /\ w = p)
        BY <3>2
      <4>3. Kept(p, v) <=> Kept(v, p)
        BY JoinsPastFacts DEF Kept
      <4>4. QED BY <4>1, <4>2, <4>3
    <3>5. s.low[v] \in Int /\ s.disc[p] \in Int
      BY <1>3, <1>5
    <3>6. QED BY <3>3, <3>4, <3>5
  <2>3. CASE k # n
    <3>1. k \in 1..m /\ k - 1 \in 1..m
      BY <1>1, <2>1, <2>3
    <3>2. {x, w} = {Held(t, k - 1), Held(t, k)}
      BY <1>1, <2>1, <3>1
    <3>3. QED BY <1>10, <2>1, <3>1, <3>2
  <2>4. QED BY <2>2, <2>3
<1>15. \A x, w \in Met(t) : w \in Neighbours(x) => {x, w} \in t.bridges \/ Kept(x, w) \/ Stacked(t, x, w)
  <2> SUFFICES ASSUME NEW x \in Met(t), NEW w \in Met(t), w \in Neighbours(x)
               PROVE  {x, w} \in t.bridges \/ Kept(x, w) \/ Stacked(t, x, w)
    OBVIOUS
  <2>1. {x, w} \in s.bridges \/ Kept(x, w) \/ Stacked(s, x, w)
    BY <1>1, <1>6
  <2>2. {x, w} \in s.bridges => {x, w} \in t.bridges
    BY <1>2
  <2>3. QED BY <1>14, <2>1, <2>2
<1>16. QED BY <1>12, <1>15 DEF LowBridges

\* Handing down what the last frame found keeps all that is said of the search.
LEMMA BacksRight ==
  ASSUME Mutual, NEW s, NEW t, LowRight(s), Backs(s, t)
  PROVE  LowRight(t)
<1> DEFINE n == Len(s.work)
           m == n - 1
<1>0. LowJoined(s) /\ LowRoot(s)
  BY DEF LowRight
<1>1. /\ n \in Nat /\ 1 \in 1..m /\ m \in Nat
      /\ Len(t.work) = m /\ (\A k \in 1..m : k \in 1..n) /\ Tree(t) = Tree(s)
      /\ (\A k \in 1..m : Held(t, k) = Held(s, k) /\ Over(t, k) = Over(s, k))
  BY BacksSets
<1>2. \A k \in 1..m : t.work[k] = s.work[k]
  BY DEF Backs
<1>3. \A k \in 1..n :
        /\ \A x \in Over(s, k) : Joins(Over(s, k), x, Held(s, k))
        /\ k > 1 => \A x \in Tree(s) \ Over(s, k) : Joins(Tree(s) \ Over(s, k), x, Held(s, 1))
  BY <1>0 DEF LowJoined
<1>4. LowJoined(t)
  <2> HIDE DEF m, n
  <2>1. QED BY <1>1, <1>3 DEF LowJoined
<1>5. LowRoot(t)
  <2>1. t.work[1] = s.work[1] /\ Held(t, 1) = Held(s, 1) /\ Len(s.work) > 0
    BY <1>1, <1>2
  <2>2. QED BY <1>0, <1>1, <2>1 DEF LowRoot
<1>6. QED BY <1>4, <1>5, BacksFrames, BacksLeast, BacksCuts, BacksBridges DEF LowRight

\* The tree of a finished root is closed: no link leads out of it or into it.
LEMMA EndsClosed ==
  ASSUME Mutual, NEW s, NEW t, LowRight(s), Ends(s, t)
  PROVE  /\ Met(t) = Met(s) /\ Past(t) = Met(s) /\ Tree(t) = {} /\ Met(s) \in SUBSET Docs
         /\ Held(s, 1) \in Tree(s) /\ Tree(s) \in SUBSET Docs
         /\ \A x \in Met(s) : Neighbours(x) \subseteq Met(s) /\ (x \notin Past(s) => x \in Tree(s))
         /\ \A x \in Tree(s) : Neighbours(x) \subseteq Tree(s)
         /\ \A x \in Docs : x \notin Tree(s) => Neighbours(x) \intersect Tree(s) = {}
         /\ \A d, x : Clear(s, d, x) => Joins(Docs \ {d}, x, Held(s, 1))
         /\ \A x, w : ~Stacked(s, x, w)
<1> DEFINE r == Held(s, 1)
           R == Tree(s)
<1>0. LowTyped(s) /\ LowOrdered(s) /\ LowFrames(s) /\ LowMet(s)
  BY DEF LowRight
<1>1. Len(s.work) = 1 /\ Len(t.work) = 0 /\ t.disc = s.disc /\ Neighbours(r) \subseteq Tried(s.work[1])
  BY DEF Ends
<1>2. Met(t) = Met(s)
  BY <1>1 DEF Met
<1>3. Past(t) = Met(s)
  BY <1>1, <1>2 DEF Past
<1>4. Tree(t) = {}
  BY <1>2, <1>3 DEF Tree
<1>5. /\ r \in R /\ R \in SUBSET Docs /\ R \subseteq Met(s)
      /\ \A x \in R : \A y \in Neighbours(x) : y \notin Past(s)
      /\ \A x \in Met(s) : x \notin Past(s) => x \in R
  <2>1. Len(s.work) > 0
    BY <1>1
  <2>2. QED BY <2>1, TreeFacts
<1>6. Met(s) \in SUBSET Docs /\ Past(s) \subseteq Met(s) /\ R = Over(s, 1)
  <2>1. Met(s) \in SUBSET Docs /\ Past(s) \subseteq Met(s)
    BY <1>0, LowFacts
  <2>2. Len(s.work) > 0
    BY <1>1
  <2>3. Tree(s) = Over(s, 1)
    BY <1>0, <2>2, LowFacts
  <2>4. QED BY <2>1, <2>3
<1>7. Tried(s.work[1]) \subseteq Met(s)
  BY <1>0, <1>1 DEF LowFrames
<1>8. /\ \A x \in Past(s) : Neighbours(x) \subseteq Past(s)
      /\ \A x \in Met(s) : InBlock(s, 1, x) /\ x # r => Neighbours(x) \subseteq Met(s)
  BY <1>0, <1>1 DEF LowMet
<1>9. \A x : InBlock(s, 1, x) <=> x \in R
  BY <1>1, <1>6 DEF InBlock
<1>10. \A d, x : Clear(s, d, x) => Joins(Docs \ {d}, x, r)
  BY <1>1 DEF Clear
<1>11. \A x, w : ~Stacked(s, x, w)
  BY <1>1 DEF Stacked
<1> HIDE DEF r, R
<1>12. \A x \in Met(s) : Neighbours(x) \subseteq Met(s)
  <2> TAKE x \in Met(s)
  <2>1. CASE x \in Past(s)
    BY <1>6, <1>8, <2>1
  <2>2. CASE x = r
    BY <1>1, <1>7, <2>2
  <2>3. CASE x \notin Past(s) /\ x # r
    BY <1>5, <1>8, <1>9, <2>3
  <2>4. QED BY <2>1, <2>2, <2>3
<1>13. \A x \in R : Neighbours(x) \subseteq R
  BY <1>5, <1>12
<1>14. ASSUME NEW x \in Docs, x \notin R PROVE Neighbours(x) \intersect R = {}
  <2> SUFFICES ASSUME NEW y \in Neighbours(x) \intersect R PROVE FALSE
    OBVIOUS
  <2>1. x \in Neighbours(y)
    BY DEF Mutual
  <2>2. QED BY <1>13, <1>14, <2>1
<1>15. QED BY <1>2, <1>3, <1>4, <1>5, <1>6, <1>10, <1>11, <1>12, <1>13, <1>14 DEF r, R

\* At the end of the search from a root the cut points of its tree are known, the root's
\* among them.
LEMMA EndsCuts ==
  ASSUME Mutual, NEW s, NEW t, LowRight(s), Ends(s, t)
  PROVE  LowCuts(t)
<1> DEFINE r == Held(s, 1)
           R == Tree(s)
<1>1. /\ Past(t) = Met(s) /\ Tree(t) = {} /\ Met(s) \in SUBSET Docs /\ r \in R /\ R \in SUBSET Docs
      /\ \A x \in Met(s) : x \notin Past(s) => x \in R
      /\ \A x \in R : Neighbours(x) \subseteq R
      /\ \A x \in Docs : x \notin R => Neighbours(x) \intersect R = {}
      /\ \A d, x : Clear(s, d, x) => Joins(Docs \ {d}, x, r)
  BY EndsClosed
<1>2. /\ Len(s.work) = 1 /\ Len(t.work) = 0
      /\ t.aps = IF s.work[1].children >= 2 THEN s.aps \union {r} ELSE s.aps
  BY DEF Ends
<1>3. /\ s.aps \subseteq Docs /\ \A d \in s.aps : ~Whole(d)
      /\ \A d \in Past(s) \ s.aps : Whole(d)
      /\ \A d \in R \ s.aps : d # r => \A x \in R : x # d => Clear(s, d, x)
  BY <1>2 DEF LowRight, LowCuts
<1>4. /\ s.work[1].children >= 2 => ~Whole(r)
      /\ s.work[1].children <= 1 => \A x, y \in R : x # r /\ y # r => Joins(Docs \ {r}, x, y)
  <2>1. Len(s.work) > 0 /\ LowRoot(s)
    BY <1>2 DEF LowRight
  <2>2. QED BY <2>1 DEF LowRoot
<1>5. s.work[1].children \in Nat
  BY <1>2 DEF LowRight, LowTyped
<1> HIDE DEF r, R
<1>6. t.aps \subseteq Docs /\ \A d \in t.aps : ~Whole(d)
  BY <1>1, <1>2, <1>3, <1>4
<1>7. ASSUME NEW d \in R \ t.aps PROVE Whole(d)
  <2> DEFINE D == Docs \ {d}
  <2>1. D \in SUBSET Docs /\ \A x : x \in D <=> x \in Docs /\ x # d
    OBVIOUS
  <2> SUFFICES ASSUME NEW x \in D, NEW y \in D, Joins(Docs, x, y) PROVE Joins(D, x, y)
    BY DEF Whole
  <2>2. CASE x \in R
    <3>1. y \in R
      <4>1. \A a \in R : Neighbours(a) \intersect Docs \subseteq R
        BY <1>1
      <4>2. QED BY <1>1, <2>2, <4>1 DEF Joins
    <3>2. CASE d = r
      <4>1. s.work[1].children <= 1
        BY <1>2, <1>5, <1>7, <3>2
      <4>2. QED BY <1>4, <2>1, <2>2, <3>1, <3>2, <4>1 DEF D
    <3>3. CASE d # r
      <4>1. d \in R \ s.aps
        BY <1>2, <1>7
      <4>2. Joins(D, x, r) /\ Joins(D, y, r)
        BY <1>1, <1>3, <2>1, <2>2, <3>1, <3>3, <4>1 DEF D
      <4> HIDE DEF D
      <4>3. QED BY <2>1, <4>2, JoinsFacts
    <3>4. QED BY <3>2, <3>3
  <2>3. CASE x \notin R
    <3> SUFFICES ASSUME NEW u \in SUBSET D, x \in u, \A a \in u : Neighbours(a) \intersect D \subseteq u
                 PROVE  y \in u
      BY DEF Joins
    <3> DEFINE q == u \ R
    <3>1. q \in SUBSET Docs /\ x \in q
      BY <2>1, <2>3
    <3>2. \A a \in q : Neighbours(a) \intersect Docs \subseteq q
      <4> SUFFICES ASSUME NEW a \in q, NEW e \in Neighbours(a) \intersect Docs PROVE e \in q
        OBVIOUS
      <4>1. a \in u /\ a \in Docs /\ a \notin R
        BY <2>1
      <4>2. e \notin R
        BY <1>1, <4>1
      <4>3. e \in D
        BY <1>7, <2>1, <4>2
      <4>4. QED BY <4>1, <4>2, <4>3
    <3> HIDE DEF q
    <3>3. y \in q
      BY <3>1, <3>2 DEF Joins
    <3>4. QED BY <3>3 DEF q
  <2>4. QED BY <2>2, <2>3
<1>8. \A d \in Past(t) \ t.aps : Whole(d)
  <2> TAKE d \in Past(t) \ t.aps
  <2>1. CASE d \in Past(s)
    BY <1>2, <1>3, <2>1
  <2>2. CASE d \notin Past(s)
    BY <1>1, <1>7, <2>2
  <2>3. QED BY <2>1, <2>2
<1>9. QED BY <1>2, <1>6, <1>8 DEF LowCuts

\* The end of the search from a root keeps all that is said of it.
LEMMA EndsRight ==
  ASSUME Mutual, NEW s, NEW t, LowRight(s), Ends(s, t)
  PROVE  LowRight(t)
<1>0. LowTyped(s) /\ LowOrdered(s) /\ LowBridges(s)
  BY DEF LowRight
<1>1. /\ Met(t) = Met(s) /\ Past(t) = Met(s) /\ Tree(t) = {}
      /\ \A x \in Met(s) : Neighbours(x) \subseteq Met(s)
      /\ \A x, w : ~Stacked(s, x, w)
  BY EndsClosed
<1>2. /\ Len(t.work) = 0 /\ t.disc = s.disc /\ t.counter = s.counter /\ t.low = s.low /\ t.bridges = s.bridges
  BY DEF Ends
<1>3. LowTyped(t)
  BY <1>0, <1>2 DEF LowTyped
<1>4. LowOrdered(t)
  BY <1>0, <1>1, <1>2 DEF LowOrdered
<1>5. LowFrames(t)
  BY <1>2 DEF LowFrames
<1>6. LowMet(t)
  BY <1>1, <1>2 DEF LowMet
<1>7. LowIsLeast(t) /\ LowJoined(t) /\ LowRoot(t)
  BY <1>2 DEF LowIsLeast, LowJoined, LowRoot
<1>8. LowBridges(t)
  BY <1>0, <1>1, <1>2 DEF LowBridges
<1>9. QED BY <1>3, <1>4, <1>5, <1>6, <1>7, <1>8, EndsCuts DEF LowRight

\* In a built graph the neighbours of a document are those it is linked with, either way.
LEMMA BuiltMutual ==
  ASSUME IsBuilt
  PROVE  Mutual
<1>1. IsFiniteSet(Docs) /\ Docs \subseteq Nat \ {0}
  BY CorpusFacts DEF IsBuilt
<1>2. \A d \in Docs : /\ Neighbours(d) \subseteq Docs /\ d \notin Neighbours(d)
                      /\ \A e \in Docs : e \in Neighbours(d) <=> <<d, e>> \in Links \/ <<e, d>> \in Links
  BY NeighboursIn
<1>3. \A d \in Docs : IsFiniteSet(Neighbours(d))
  BY <1>1, <1>2, FS_Subset
<1>4. \A d \in Docs : \A e \in Neighbours(d) : d \in Neighbours(e)
  BY <1>2
<1>5. QED BY <1>1, <1>2, <1>3, <1>4 DEF Mutual

\* The neighbours a frame has looked at, by the number it looks at next.
LEMMA Trying ==
  ASSUME Mutual, NEW f \in Frame
  PROVE  /\ f.next <= Cardinality(Neighbours(f.v)) =>
              /\ Sorted(Neighbours(f.v))[f.next] \in Neighbours(f.v) \ Tried(f)
              /\ \A g \in Frame : g.v = f.v /\ g.next = f.next + 1
                   => Tried(g) = Tried(f) \union {Sorted(Neighbours(f.v))[f.next]}
         /\ f.next > Cardinality(Neighbours(f.v)) => Neighbours(f.v) \subseteq Tried(f)
         /\ f.next = 1 => Tried(f) = {}
         /\ Cardinality(Neighbours(f.v)) \in Nat /\ f.next \in Nat
<1> DEFINE S == Neighbours(f.v)
           n == Cardinality(S)
           at(i) == Sorted(S)[i]
<1>1. f.v \in Docs /\ f.next \in Nat \ {0}
  BY DEF Frame
<1>2. S \in SUBSET Nat /\ IsFiniteSet(S)
  BY <1>1 DEF Mutual
<1>3. /\ n \in Nat
      /\ \A i \in 1..n : at(i) \in S
      /\ \A x \in S : \E i \in 1..n : at(i) = x
      /\ \A i, k \in 1..n : at(i) = at(k) => i = k
  BY <1>2, SortedOf
<1>4. \A g \in Frame : g.v = f.v => Tried(g) = {at(i) : i \in 1..(g.next - 1)} /\ g.next \in Nat
  BY DEF Tried, Frame
<1>5. Tried(f) = {at(i) : i \in 1..(f.next - 1)}
  BY DEF Tried
<1> HIDE DEF S, n, at
<1>6. ASSUME f.next <= n PROVE at(f.next) \in S \ Tried(f)
  <2>1. f.next \in 1..n /\ \A i \in 1..(f.next - 1) : i \in 1..n /\ i # f.next
    BY <1>1, <1>3, <1>6
  <2>2. QED BY <1>3, <1>5, <2>1
<1>7. ASSUME NEW g \in Frame, g.v = f.v, g.next = f.next + 1
      PROVE  Tried(g) = Tried(f) \union {at(f.next)}
  <2>1. 1..(g.next - 1) = 1..(f.next - 1) \union {f.next}
    BY <1>1, <1>7
  <2>2. Tried(g) = {at(i) : i \in 1..(g.next - 1)}
    BY <1>4, <1>7
  <2>3. QED BY <1>5, <2>1, <2>2
<1>8. ASSUME f.next > n PROVE S \subseteq Tried(f)
  <2>1. ASSUME NEW x \in S PROVE x \in Tried(f)
    <3>1. PICK i \in 1..n : at(i) = x
      BY <1>3
    <3>2. i \in 1..(f.next - 1)
      BY <1>1, <1>3, <1>8
    <3>3. QED BY <1>5, <3>1, <3>2
  <2>2. QED BY <2>1
<1>9. ASSUME f.next = 1 PROVE Tried(f) = {}
  BY <1>5, <1>9
<1>10. QED BY <1>1, <1>3, <1>6, <1>7, <1>8, <1>9 DEF S, n, at

\* The last frame of a search has looked at one neighbour more.
Moves(s, t, parent, children) ==
  LET n == Len(s.work) IN
  /\ t.disc = s.disc /\ t.low = s.low /\ t.counter = s.counter /\ t.aps = s.aps /\ t.bridges = s.bridges
  /\ Len(t.work) = n /\ \A k \in 1..n : k < n => t.work[k] = s.work[k]
  /\ t.work[n] \in Frame /\ t.work[n].v = s.work[n].v /\ t.work[n].next = s.work[n].next + 1
  /\ t.work[n].parent = parent /\ t.work[n].children = children

\* The three ways the last frame moves on: past a neighbour, past the one it was found
\* from, and to a new one.
LEMMA MovesTo ==
  ASSUME IsBuilt, ab \in Search, Frames(ab.work), AbMore
  PROVE  /\ Moves(ab, AbAdvanced, AbTop.parent, AbTop.children)
         /\ Moves(ab, [AbAdvanced EXCEPT !.work[Len(ab.work)].parent = 0], 0, AbTop.children)
         /\ Moves(ab, [AbAdvanced EXCEPT !.work[Len(ab.work)].children = @ + 1], AbTop.parent, AbTop.children + 1)
<1> DEFINE work == ab.work
           n == Len(work)
           top == work[n]
           f == [top EXCEPT !.next = @ + 1]
           g == [f EXCEPT !.parent = 0]
           h == [f EXCEPT !.children = @ + 1]
<1>1. work # <<>>
  BY DEF AbMore
<1>2. n \in Nat \ {0} /\ top \in Frame /\ AbTop = top
  BY <1>1, TopOf
<1>3. /\ f \in Frame /\ g \in Frame /\ h \in Frame /\ f.v = top.v /\ g.v = top.v /\ h.v = top.v
      /\ f.next = top.next + 1 /\ g.next = top.next + 1 /\ h.next = top.next + 1
      /\ f.parent = top.parent /\ g.parent = 0 /\ h.parent = top.parent
      /\ f.children = top.children /\ g.children = top.children /\ h.children = top.children + 1
  <2>1. top \in [v : Docs, parent : Docs \union {0}, next : Nat \ {0}, children : Nat]
    BY <1>2 DEF Frame
  <2>2. f = [v |-> top.v, parent |-> top.parent, next |-> top.next + 1, children |-> top.children]
    BY <2>1
  <2>3. /\ g = [v |-> top.v, parent |-> 0, next |-> top.next + 1, children |-> top.children]
        /\ h = [v |-> top.v, parent |-> top.parent, next |-> top.next + 1, children |-> top.children + 1]
    <3> HIDE DEF f, top
    <3>1. QED BY <2>2
  <2>4. top.v \in Docs /\ top.parent \in Docs \union {0} /\ top.next + 1 \in Nat \ {0} /\ top.children \in Nat
        /\ top.children + 1 \in Nat
    <3> HIDE DEF top, f, g, h
    <3>1. top.v \in Docs /\ top.parent \in Docs \union {0} /\ top.next \in Nat \ {0} /\ top.children \in Nat
      BY <2>1
    <3>2. QED BY <3>1
  <2> HIDE DEF f, g, h, top
  <2>5. QED BY <2>2, <2>3, <2>4 DEF Frame
<1>4. work \in Seq(Frame) /\ n \in DOMAIN work
  BY <1>2 DEF Frames
<1>5. /\ Len([work EXCEPT ![n] = f]) = n /\ Len([work EXCEPT ![n] = g]) = n /\ Len([work EXCEPT ![n] = h]) = n
  BY <1>2, <1>4
<1>6. /\ [work EXCEPT ![n] = f][n] = f /\ [work EXCEPT ![n] = g][n] = g /\ [work EXCEPT ![n] = h][n] = h
      /\ \A x : \A k \in 1..n : k < n => [work EXCEPT ![n] = x][k] = work[k]
  BY <1>2, <1>4
<1> DEFINE wf == [work EXCEPT ![n] = f]
<1>7. AbAdvanced = [ab EXCEPT !.work = wf]
  BY <1>4 DEF AbAdvanced, Search
<1>8. /\ [wf EXCEPT ![n].parent = 0] = [work EXCEPT ![n] = g]
      /\ [wf EXCEPT ![n].children = @ + 1] = [work EXCEPT ![n] = h]
  <2> HIDE DEF f
  <2>1. wf[n] = f /\ DOMAIN wf = DOMAIN work
    BY <1>4
  <2>2. [wf EXCEPT ![n].parent = 0] = [wf EXCEPT ![n] = g]
    <3> HIDE DEF wf
    <3>1. QED BY <2>1
  <2>3. [wf EXCEPT ![n].children = @ + 1] = [wf EXCEPT ![n] = h]
    <3> HIDE DEF wf
    <3>1. QED BY <2>1
  <2> HIDE DEF g, h
  <2>4. \A x : [wf EXCEPT ![n] = x] = [work EXCEPT ![n] = x]
    BY <2>1
  <2>5. QED BY <2>2, <2>3, <2>4
<1> DEFINE wg == [work EXCEPT ![n] = g]
           wh == [work EXCEPT ![n] = h]
<1>9. /\ Len(wf) = n /\ Len(wg) = n /\ Len(wh) = n /\ wf[n] = f /\ wg[n] = g /\ wh[n] = h
      /\ \A k \in 1..n : k < n => wf[k] = work[k] /\ wg[k] = work[k] /\ wh[k] = work[k]
  BY <1>5, <1>6
<1>10. /\ [wf EXCEPT ![n].parent = 0] = wg /\ [wf EXCEPT ![n].children = @ + 1] = wh
  BY <1>8
<1> HIDE DEF wf, wg, wh, f, g, h
<1>11. /\ [AbAdvanced EXCEPT !.work[n].parent = 0] = [ab EXCEPT !.work = wg]
       /\ [AbAdvanced EXCEPT !.work[n].children = @ + 1] = [ab EXCEPT !.work = wh]
  <2>1. AbAdvanced.work = wf /\ \A w : [AbAdvanced EXCEPT !.work = w] = [ab EXCEPT !.work = w]
    BY <1>7 DEF Search
  <2>2. [AbAdvanced EXCEPT !.work[n].parent = 0] = [AbAdvanced EXCEPT !.work = wg]
    BY <1>10, <2>1
  <2>3. [AbAdvanced EXCEPT !.work[n].children = @ + 1] = [AbAdvanced EXCEPT !.work = wh]
    BY <1>10, <2>1
  <2>4. QED BY <2>1, <2>2, <2>3
<1>12. \A w : LET t == [ab EXCEPT !.work = w] IN
         /\ t.disc = ab.disc /\ t.low = ab.low /\ t.counter = ab.counter /\ t.aps = ab.aps /\ t.bridges = ab.bridges
         /\ t.work = w
  BY DEF Search
<1>13. \A w, p, c : /\ Len(w) = n /\ (\A k \in 1..n : k < n => w[k] = work[k])
                    /\ w[n] \in Frame /\ w[n].v = top.v /\ w[n].next = top.next + 1
                    /\ w[n].parent = p /\ w[n].children = c
                    => Moves(ab, [ab EXCEPT !.work = w], p, c)
  BY <1>12 DEF Moves
<1>14. Moves(ab, [ab EXCEPT !.work = wf], top.parent, top.children)
  <2> HIDE DEF n, work, top
  <2>1. QED BY <1>3, <1>9, <1>13
<1>15. Moves(ab, [ab EXCEPT !.work = wg], 0, top.children)
  <2> HIDE DEF n, work, top
  <2>1. QED BY <1>3, <1>9, <1>13
<1>16. Moves(ab, [ab EXCEPT !.work = wh], top.parent, top.children + 1)
  <2> HIDE DEF n, work, top
  <2>1. QED BY <1>3, <1>9, <1>13
<1>17. QED BY <1>2, <1>7, <1>11, <1>14, <1>15, <1>16

\* Discover pushes a new frame.
LEMMA Discovers ==
  ASSUME NEW s, s \in Search, Frames(s.work), NEW v \in Docs, NEW p
  PROVE  LET t == Discover(s, v, p)
             n == Len(s.work) IN
         /\ t.disc = [s.disc EXCEPT ![v] = s.counter] /\ t.low = [s.low EXCEPT ![v] = s.counter]
         /\ t.counter = s.counter + 1 /\ t.aps = s.aps /\ t.bridges = s.bridges
         /\ n \in Nat /\ Len(t.work) = n + 1 /\ t.work[n + 1] = AbFrame(v, p)
         /\ \A k \in 1..n : t.work[k] = s.work[k]
<1> DEFINE t == Discover(s, v, p)
           n == Len(s.work)
           f == AbFrame(v, p)
           w == Append(s.work, f)
<1>1. /\ t.disc = [s.disc EXCEPT ![v] = s.counter] /\ t.low = [s.low EXCEPT ![v] = s.counter]
      /\ t.counter = s.counter + 1 /\ t.aps = s.aps /\ t.bridges = s.bridges /\ t.work = w
  BY DEF Discover, Search
<1>2. s.work \in Seq(Frame) /\ n \in Nat
  BY DEF Frames
<1> HIDE DEF f
<1>3. Len(w) = n + 1 /\ w[n + 1] = f /\ \A k \in 1..n : w[k] = s.work[k]
  BY <1>2
<1> HIDE DEF w, t
<1>4. QED BY <1>1, <1>2, <1>3 DEF t, f

\* What a search is made of.
LEMMA SearchFields ==
  ASSUME ab \in Search, Frames(ab.work)
  PROVE  /\ ab.disc \in [Docs -> Int] /\ ab.low \in [Docs -> Int] /\ ab.counter \in Nat
         /\ Len(ab.work) \in Nat /\ (ab.work = <<>> <=> Len(ab.work) = 0)
         /\ \A k \in 1..Len(ab.work) : ab.work[k] \in Frame /\ Held(ab, k) \in Docs
<1>1. ab.disc \in [Docs -> Int] /\ ab.low \in [Docs -> Int] /\ ab.counter \in Nat
  BY DEF Search
<1>2. ab.work \in Seq(Frame)
  BY DEF Frames
<1>3. \A k \in 1..Len(ab.work) : ab.work[k] \in Frame
  BY <1>2
<1>4. Len(ab.work) \in Nat /\ (ab.work = <<>> <=> Len(ab.work) = 0)
  BY <1>2
<1>5. \A k \in 1..Len(ab.work) : Held(ab, k) \in Docs
  BY <1>3 DEF Held, Frame
<1>6. QED BY <1>1, <1>3, <1>4, <1>5

\* A new root is found.
LEMMA RootFinds ==
  ASSUME IsBuilt, ab \in Search, Frames(ab.work), AbRoot
  PROVE  \E w : Finds(ab, ab', w)
<1> DEFINE n == Len(ab.work)
<1>1. PICK v \in Docs : ab.disc[v] = -1 /\ ab' = Discover(ab, v, 0)
  BY DEF AbRoot
<1>2. n = 0
  BY SearchFields DEF AbRoot
<1>3. /\ ab'.disc = [ab.disc EXCEPT ![v] = ab.counter] /\ ab'.low = [ab.low EXCEPT ![v] = ab.counter]
      /\ ab'.counter = ab.counter + 1 /\ ab'.aps = ab.aps /\ ab'.bridges = ab.bridges
      /\ Len(ab'.work) = n + 1 /\ ab'.work[n + 1] = AbFrame(v, 0)
  <2> DEFINE z == 0
  <2>1. ab' = Discover(ab, v, z)
    BY <1>1
  <2> HIDE DEF z
  <2>2. /\ ab'.disc = [ab.disc EXCEPT ![v] = ab.counter] /\ ab'.low = [ab.low EXCEPT ![v] = ab.counter]
        /\ ab'.counter = ab.counter + 1 /\ ab'.aps = ab.aps /\ ab'.bridges = ab.bridges
        /\ Len(ab'.work) = n + 1 /\ ab'.work[n + 1] = AbFrame(v, z)
    BY <2>1, Discovers
  <2>3. QED BY <2>2 DEF z
<1> DEFINE f == AbFrame(v, 0)
<1>4. f \in Frame /\ f.v = v /\ f.parent = 0 /\ f.next = 1 /\ f.children = 0
  BY DEF AbFrame, Frame
<1> HIDE DEF f, n
<1>5. Tried(f) = {}
  BY <1>4, BuiltMutual, Trying
<1>6. v \in Docs \ Met(ab)
  BY <1>1 DEF Met
<1>7. ab'.work[n + 1] = f /\ n + 1 = 1
  BY <1>2, <1>3 DEF f
<1>8. Held(ab', n + 1) = v /\ Tried(ab'.work[n + 1]) = {} /\ ab'.work[n + 1].children = 0 /\ ab'.work[1].parent = 0
  BY <1>4, <1>5, <1>7 DEF Held
<1>9. \A k \in 1..n : FALSE
  BY <1>2
<1>10. Finds(ab, ab', v)
  BY <1>2, <1>3, <1>6, <1>8, <1>9 DEF Finds, n
<1>11. QED BY <1>10

\* What the last frame looks at.
LEMMA TopTries ==
  ASSUME IsBuilt, ab \in Search, Frames(ab.work), AbMore
  PROVE  LET n == Len(ab.work) IN
         /\ n \in Nat /\ n > 0 /\ AbTop = ab.work[n] /\ AbTop.v = Held(ab, n) /\ AbTop \in Frame
         /\ AbNext \in Neighbours(Held(ab, n)) /\ AbNext \in Docs /\ AbNext \notin Tried(ab.work[n])
         /\ \A t, p, c : Moves(ab, t, p, c) => Tried(t.work[n]) = Tried(ab.work[n]) \union {AbNext}
<1> DEFINE n == Len(ab.work)
           top == ab.work[n]
<1>1. ab.work # <<>> /\ AbTop.next <= Cardinality(Neighbours(AbTop.v))
  BY DEF AbMore
<1>2. n \in Nat \ {0} /\ AbTop = top /\ top \in Frame /\ AbNext \in Neighbours(top.v) /\ AbNext \in Docs
  BY <1>1, TopOf
<1>3. top.next <= Cardinality(Neighbours(top.v)) /\ AbNext = Sorted(Neighbours(top.v))[top.next]
  BY <1>1, <1>2 DEF AbNext
<1>4. top.v = Held(ab, n)
  BY DEF Held
<1> HIDE DEF top, n
<1>5. /\ AbNext \notin Tried(top)
      /\ \A g \in Frame : g.v = top.v /\ g.next = top.next + 1 => Tried(g) = Tried(top) \union {AbNext}
  BY <1>2, <1>3, BuiltMutual, Trying
<1>6. ASSUME NEW t, NEW p, NEW c, Moves(ab, t, p, c) PROVE Tried(t.work[n]) = Tried(top) \union {AbNext}
  <2>1. t.work[n] \in Frame /\ t.work[n].v = top.v /\ t.work[n].next = top.next + 1
    BY <1>6 DEF Moves, n, top
  <2>2. QED BY <1>5, <2>1
<1>7. QED BY <1>2, <1>4, <1>5, <1>6 DEF n, top

\* So is an unvisited neighbour.
LEMMA DescendFinds ==
  ASSUME IsBuilt, ab \in Search, Frames(ab.work), AbDescend
  PROVE  Finds(ab, ab', AbNext)
<1> DEFINE n == Len(ab.work)
           w == AbNext
           p == AbTop.v
           s == [AbAdvanced EXCEPT !.work[Len(ab.work)].children = @ + 1]
<1>1. AbMore /\ ab.disc[w] = -1 /\ ab' = Discover(s, w, p)
  BY DEF AbDescend
<1>2. s \in Search /\ Frames(s.work)
  BY <1>1, Advances
<1>3. Moves(ab, s, AbTop.parent, AbTop.children + 1)
  BY <1>1, MovesTo
<1>4. /\ n \in Nat /\ n > 0 /\ AbTop = ab.work[n] /\ p = Held(ab, n)
      /\ w \in Neighbours(p) /\ w \in Docs
      /\ \A t, q, c : Moves(ab, t, q, c) => Tried(t.work[n]) = Tried(ab.work[n]) \union {w}
  BY <1>1, TopTries
<1> HIDE DEF s, w, p
<1>5. /\ s.disc = ab.disc /\ s.low = ab.low /\ s.counter = ab.counter /\ s.aps = ab.aps /\ s.bridges = ab.bridges
      /\ Len(s.work) = n /\ (\A k \in 1..n : k < n => s.work[k] = ab.work[k])
      /\ s.work[n].v = ab.work[n].v /\ s.work[n].parent = AbTop.parent /\ s.work[n].children = AbTop.children + 1
      /\ Tried(s.work[n]) = Tried(ab.work[n]) \union {w}
  BY <1>3, <1>4 DEF Moves
<1>6. /\ ab'.disc = [s.disc EXCEPT ![w] = s.counter] /\ ab'.low = [s.low EXCEPT ![w] = s.counter]
      /\ ab'.counter = s.counter + 1 /\ ab'.aps = s.aps /\ ab'.bridges = s.bridges
      /\ Len(ab'.work) = n + 1 /\ ab'.work[n + 1] = AbFrame(w, p)
      /\ \A k \in 1..n : ab'.work[k] = s.work[k]
  <2> DEFINE t == ab'
             m == Len(s.work)
  <2>1. t = Discover(s, w, p)
    BY <1>1
  <2> HIDE DEF t
  <2>2. /\ t.disc = [s.disc EXCEPT ![w] = s.counter] /\ t.low = [s.low EXCEPT ![w] = s.counter]
        /\ t.counter = s.counter + 1 /\ t.aps = s.aps /\ t.bridges = s.bridges
        /\ Len(t.work) = m + 1 /\ t.work[m + 1] = AbFrame(w, p)
        /\ \A k \in 1..m : t.work[k] = s.work[k]
    <3>1. w \in Docs
      BY <1>4
    <3> HIDE DEF m, n
    <3>2. /\ t.disc = [s.disc EXCEPT ![w] = s.counter] /\ t.low = [s.low EXCEPT ![w] = s.counter]
          /\ t.counter = s.counter + 1 /\ t.aps = s.aps /\ t.bridges = s.bridges
          /\ Len(t.work) = Len(s.work) + 1 /\ t.work[Len(s.work) + 1] = AbFrame(w, p)
          /\ \A k \in 1..Len(s.work) : t.work[k] = s.work[k]
      BY <1>2, <2>1, <3>1, Discovers
    <3>3. QED BY <3>2 DEF m
  <2>3. m = n
    BY <1>5
  <2> HIDE DEF m, n
  <2>4. QED BY <2>2, <2>3 DEF t
<1> DEFINE f == AbFrame(w, p)
<1>7. f.v = w /\ f.parent = p /\ f.next = 1 /\ f.children = 0
  BY DEF AbFrame
<1>8. f \in Frame
  <2>1. p \in Docs
    <3>1. n \in 1..n
      BY <1>4
    <3>2. QED BY <1>4, <3>1, SearchFields
  <2>2. QED BY <1>4, <2>1 DEF AbFrame, Frame
<1> HIDE DEF f, n
<1>9. Tried(f) = {}
  BY <1>7, <1>8, BuiltMutual, Trying
<1>10. w \in Docs \ Met(ab)
  BY <1>1, <1>4 DEF Met
<1>11. Held(ab', n + 1) = w /\ Tried(ab'.work[n + 1]) = {} /\ ab'.work[n + 1].children = 0 /\ ab'.work[n + 1].parent = p
  BY <1>6, <1>7, <1>9 DEF Held, f
<1>12. ASSUME NEW k \in 1..n
       PROVE  /\ Held(ab', k) = Held(ab, k) /\ ab'.work[k].parent = ab.work[k].parent
              /\ k < n => ab'.work[k] = ab.work[k]
  <2>1. CASE k < n
    BY <1>5, <1>6, <2>1 DEF Held
  <2>2. CASE k = n
    BY <1>4, <1>5, <1>6, <2>2 DEF Held
  <2>3. QED BY <1>4, <2>1, <2>2
<1>13. n \in 1..n /\ n # 0
  BY <1>4
<1>14. Tried(ab'.work[n]) = Tried(ab.work[n]) \union {w} /\ ab'.work[n].children = ab.work[n].children + 1
  BY <1>4, <1>5, <1>6, <1>13
<1>15. Finds(ab, ab', w)
  BY <1>4, <1>5, <1>6, <1>10, <1>11, <1>12, <1>13, <1>14 DEF Finds, n
<1>16. QED BY <1>15 DEF w

\* Skipping the link to the parent is a look at a neighbour.
LEMMA SkipTries ==
  ASSUME IsBuilt, ab \in Search, Frames(ab.work), AbSkipParent
  PROVE  Tries(ab, ab', AbNext)
<1> DEFINE n == Len(ab.work)
           w == AbNext
<1>1. AbMore /\ w = AbTop.parent /\ ab' = [AbAdvanced EXCEPT !.work[Len(ab.work)].parent = 0]
  BY DEF AbSkipParent
<1> DEFINE z == 0
           c == AbTop.children
<1>2. Moves(ab, ab', z, c)
  BY <1>1, MovesTo
<1>3. /\ n \in Nat /\ n > 0 /\ AbTop = ab.work[n]
      /\ w \in Neighbours(Held(ab, n)) /\ w \notin Tried(ab.work[n])
      /\ \A t, q, d : Moves(ab, t, q, d) => Tried(t.work[n]) = Tried(ab.work[n]) \union {w}
  BY <1>1, TopTries
<1> HIDE DEF w, z, c
<1>4. /\ ab'.disc = ab.disc /\ ab'.low = ab.low /\ ab'.counter = ab.counter /\ ab'.aps = ab.aps /\ ab'.bridges = ab.bridges
      /\ Len(ab'.work) = n /\ (\A k \in 1..n : k < n => ab'.work[k] = ab.work[k])
      /\ ab'.work[n].v = ab.work[n].v /\ ab'.work[n].parent = z /\ ab'.work[n].children = c
      /\ Tried(ab'.work[n]) = Tried(ab.work[n]) \union {w}
  BY <1>2, <1>3 DEF Moves
<1> HIDE DEF n
<1>5. ASSUME NEW k \in 1..n
      PROVE  /\ Held(ab', k) = Held(ab, k) /\ ab'.work[k].children = ab.work[k].children
             /\ k < n => ab'.work[k] = ab.work[k]
  <2>1. CASE k < n
    BY <1>4, <2>1 DEF Held
  <2>2. CASE k = n
    BY <1>3, <1>4, <2>2 DEF Held, c
  <2>3. QED BY <1>3, <2>1, <2>2
<1>6. w = ab.work[n].parent /\ ab'.work[n].parent = 0
  BY <1>1, <1>3, <1>4 DEF z
<1>7. Tries(ab, ab', w)
  BY <1>3, <1>4, <1>5, <1>6 DEF Tries, n
<1>8. QED BY <1>7 DEF w

\* So is a back edge.
LEMMA BackTries ==
  ASSUME IsBuilt, ab \in Search, Frames(ab.work), AbBackEdge
  PROVE  Tries(ab, ab', AbNext)
<1> DEFINE n == Len(ab.work)
           w == AbNext
           t == AbAdvanced
           p == AbTop.parent
           c == AbTop.children
<1>1. /\ AbMore /\ w # p /\ ab.disc[w] # -1
      /\ ab' = [t EXCEPT !.low[AbTop.v] = IF ab.disc[w] < @ THEN ab.disc[w] ELSE @]
  BY DEF AbBackEdge
<1>2. Moves(ab, t, p, c) /\ t \in Search
  BY <1>1, MovesTo, Advances
<1>3. /\ n \in Nat /\ n > 0 /\ AbTop = ab.work[n] /\ AbTop.v = Held(ab, n)
      /\ w \in Neighbours(Held(ab, n)) /\ w \in Docs /\ w \notin Tried(ab.work[n])
      /\ \A u, q, d : Moves(ab, u, q, d) => Tried(u.work[n]) = Tried(ab.work[n]) \union {w}
  BY <1>1, TopTries
<1>4. /\ ab'.disc = t.disc /\ ab'.counter = t.counter /\ ab'.aps = t.aps /\ ab'.bridges = t.bridges
      /\ ab'.work = t.work
      /\ ab'.low = [t.low EXCEPT ![AbTop.v] = IF ab.disc[w] < @ THEN ab.disc[w] ELSE @]
  <2> HIDE DEF t, w
  <2>1. QED BY <1>1, <1>2 DEF Search
<1> HIDE DEF w, p, c, t
<1>5. /\ t.disc = ab.disc /\ t.low = ab.low /\ t.counter = ab.counter /\ t.aps = ab.aps /\ t.bridges = ab.bridges
      /\ Len(t.work) = n /\ (\A k \in 1..n : k < n => t.work[k] = ab.work[k])
      /\ t.work[n].v = ab.work[n].v /\ t.work[n].parent = p /\ t.work[n].children = c
      /\ Tried(t.work[n]) = Tried(ab.work[n]) \union {w}
  BY <1>2, <1>3 DEF Moves
<1> HIDE DEF n
<1>6. ASSUME NEW k \in 1..n
      PROVE  /\ Held(ab', k) = Held(ab, k) /\ ab'.work[k].children = ab.work[k].children
             /\ k < n => ab'.work[k] = ab.work[k]
  <2>1. CASE k < n
    BY <1>4, <1>5, <2>1 DEF Held
  <2>2. CASE k = n
    BY <1>3, <1>4, <1>5, <2>2 DEF Held, c
  <2>3. QED BY <1>3, <2>1, <2>2
<1>7. w # ab.work[n].parent /\ ab'.work[n].parent = ab.work[n].parent /\ w \in Met(ab)
  BY <1>1, <1>3, <1>4, <1>5 DEF p, Met
<1>8. ab'.low = [ab.low EXCEPT ![Held(ab, n)] = IF ab.disc[w] < @ THEN ab.disc[w] ELSE @]
  BY <1>3, <1>4, <1>5
<1>9. Tries(ab, ab', w)
  BY <1>3, <1>4, <1>5, <1>6, <1>7, <1>8 DEF Tries, n
<1>10. QED BY <1>9 DEF w

\* A frame with no more to look at has looked at every neighbour.
LEMMA TopTried ==
  ASSUME IsBuilt, ab \in Search, Frames(ab.work), ab.work # <<>>, ~AbMore
  PROVE  LET n == Len(ab.work) IN
         /\ n \in Nat /\ n > 0 /\ AbTop = ab.work[n] /\ AbTop.v = Held(ab, n)
         /\ Neighbours(Held(ab, n)) \subseteq Tried(ab.work[n])
<1> DEFINE n == Len(ab.work)
           top == ab.work[n]
<1>1. n \in Nat \ {0} /\ AbTop = top /\ top \in Frame
  BY TopOf
<1>2. ~(top.next <= Cardinality(Neighbours(top.v)))
  BY <1>1 DEF AbMore
<1>3. top.v = Held(ab, n)
  BY DEF Held
<1> HIDE DEF top, n
<1>4. Cardinality(Neighbours(top.v)) \in Nat /\ top.next \in Nat
  BY <1>1, BuiltMutual, Trying
<1>5. top.next > Cardinality(Neighbours(top.v))
  BY <1>2, <1>4
<1>6. Neighbours(top.v) \subseteq Tried(top)
  BY <1>1, <1>5, BuiltMutual, Trying
<1>7. QED BY <1>1, <1>3, <1>6 DEF n, top

\* The return of the root ends its search.
LEMMA RootEnds ==
  ASSUME IsBuilt, ab \in Search, Frames(ab.work), AbReturnRoot
  PROVE  Ends(ab, ab')
<1>1. /\ Len(ab.work) = 1 /\ ~AbMore
      /\ ab' = [ab EXCEPT !.work = <<>>, !.aps = IF AbTop.children >= 2 THEN @ \union {AbTop.v} ELSE @]
  BY DEF AbReturnRoot
<1>2. ab.work # <<>>
  BY <1>1
<1>3. AbTop = ab.work[1] /\ AbTop.v = Held(ab, 1) /\ Neighbours(Held(ab, 1)) \subseteq Tried(ab.work[1])
  BY <1>1, <1>2, TopTried
<1>4. /\ ab'.disc = ab.disc /\ ab'.counter = ab.counter /\ ab'.low = ab.low /\ ab'.bridges = ab.bridges
      /\ Len(ab'.work) = 0
      /\ ab'.aps = IF AbTop.children >= 2 THEN ab.aps \union {AbTop.v} ELSE ab.aps
  BY <1>1 DEF Search
<1>5. QED BY <1>1, <1>3, <1>4 DEF Ends

\* The return of another frame hands down what it found.
LEMMA ReturnBacks ==
  ASSUME IsBuilt, ab \in Search, Frames(ab.work), AbReturn
  PROVE  Backs(ab, ab')
<1> DEFINE work == Front(ab.work)
           n == Len(ab.work)
           v == AbTop.v
           p == Last(work).v
           l == [ab.low EXCEPT ![p] = IF ab.low[v] < @ THEN ab.low[v] ELSE @]
           a == IF Len(work) > 1 /\ ab.low[v] >= ab.disc[p] THEN ab.aps \union {p} ELSE ab.aps
           b == IF ab.low[v] > ab.disc[p] THEN ab.bridges \union {{p, v}} ELSE ab.bridges
<1>1. n > 1 /\ ~AbMore /\ ab' = [ab EXCEPT !.work = work, !.low = l, !.aps = a, !.bridges = b]
  BY DEF AbReturn, Search
<1>2. ab.work # <<>>
  BY <1>1
<1>3. n \in Nat /\ v = Held(ab, n) /\ Neighbours(v) \subseteq Tried(ab.work[n])
  BY <1>1, <1>2, TopTried
<1>4. Frames(work) /\ Len(work) = n - 1 /\ \A i \in 1..(n - 1) : work[i] = ab.work[i]
  BY <1>2, FramesPop
<1>5. /\ ab'.disc = ab.disc /\ ab'.counter = ab.counter /\ ab'.work = work /\ ab'.low = l /\ ab'.aps = a
      /\ ab'.bridges = b
  <2> HIDE DEF work, l, a, b
  <2>1. QED BY <1>1 DEF Search
<1> HIDE DEF work
<1>6. work # <<>>
  <2> HIDE DEF n, l, a, b, v, p
  <2>1. Len(work) # 0
    BY <1>1, <1>3, <1>4
  <2>2. QED BY <2>1
<1>7. Last(work) = work[Len(work)]
  BY <1>4, <1>6, LastFrame
<1>8. p = Held(ab, n - 1)
  <2>1. n - 1 \in 1..(n - 1)
    <3> HIDE DEF n, l, a, b, v, p
    <3>1. QED BY <1>1, <1>3
  <2>2. QED BY <1>4, <1>7, <2>1 DEF Held
<1> HIDE DEF v, p, n
<1>9. /\ Len(ab'.work) = n - 1 /\ (\A k \in 1..(n - 1) : ab'.work[k] = ab.work[k])
      /\ ab'.aps = IF n - 1 > 1 /\ ab.low[v] >= ab.disc[p] THEN ab.aps \union {p} ELSE ab.aps
  BY <1>4, <1>5
<1>10. QED BY <1>1, <1>3, <1>5, <1>8, <1>9 DEF Backs, n

\* Every step of the search keeps what is said of it.
LEMMA LowStep ==
  ASSUME IsBuilt, ab \in Search, Frames(ab.work), LowRight(ab), CriticalStep
  PROVE  LowRight(ab')
<1>1. Mutual
  BY BuiltMutual
<1>2. CASE AbRoot \/ AbDescend
  <2>1. PICK w : Finds(ab, ab', w)
    BY <1>2, RootFinds, DescendFinds
  <2>2. QED BY <1>1, <2>1, FindsRight
<1>3. CASE AbSkipParent \/ AbBackEdge
  <2>1. PICK w : Tries(ab, ab', w)
    BY <1>3, SkipTries, BackTries
  <2>2. QED BY <1>1, <2>1, TriesRight
<1>4. CASE AbReturnRoot
  BY <1>1, <1>4, RootEnds, EndsRight
<1>5. CASE AbReturn
  BY <1>1, <1>5, ReturnBacks, BacksRight
<1>6. QED BY <1>2, <1>3, <1>4, <1>5 DEF CriticalStep

\* A new search is right.
LEMMA LowStarts ==
  LowRight(NewCritical)
<1> DEFINE s == NewCritical
           none == [d \in Docs |-> -1]
<1>1. s = [disc |-> none, low |-> none, counter |-> 0, work |-> <<>>, aps |-> {}, bridges |-> {}]
  BY DEF NewCritical
<1>2. none \in [Docs -> Int] /\ \A d \in Docs : none[d] = -1
  OBVIOUS
<1> HIDE DEF none, s
<1>3. s.disc = none /\ s.low = none /\ s.counter = 0 /\ Len(s.work) = 0 /\ s.aps = {} /\ s.bridges = {}
  BY <1>1
<1>4. Met(s) = {} /\ Past(s) = {} /\ Tree(s) = {}
  BY <1>2, <1>3 DEF Met, Past, Tree
<1>5. \A k \in 1..Len(s.work) : FALSE
  BY <1>3
<1>6. LowTyped(s)
  BY <1>2, <1>3, <1>5 DEF LowTyped
<1>7. LowOrdered(s) /\ LowFrames(s) /\ LowMet(s) /\ LowIsLeast(s) /\ LowJoined(s)
  BY <1>4, <1>5 DEF LowOrdered, LowFrames, LowMet, LowIsLeast, LowJoined
<1>8. LowCuts(s) /\ LowRoot(s) /\ LowBridges(s)
  BY <1>3, <1>4 DEF LowCuts, LowRoot, LowBridges
<1>9. QED BY <1>6, <1>7, <1>8 DEF LowRight, s

\* What a right search is depends on inputs and graph.
LEMMA SameLow ==
  ASSUME given' = given, graph' = graph
  PROVE  NewCritical' = NewCritical /\ \A s : LowRight(s)' = LowRight(s)
<1>1. Docs' = Docs /\ \A d : Neighbours(d)' = Neighbours(d)
  BY DEF given, Docs, Neighbours
<1>2. NewCritical' = NewCritical
  BY <1>1 DEF NewCritical
<1>3. \A S, x, y : Joins(S, x, y)' <=> Joins(S, x, y)
  BY <1>1 DEF Joins
<1>4. \A a, b, x, y : JoinsPast(a, b, x, y)' <=> JoinsPast(a, b, x, y)
  BY <1>1 DEF JoinsPast
<1>5. \A d : Whole(d)' <=> Whole(d)
  <2> TAKE d
  <2> DEFINE D == Docs \ {d}
             P(x, y) == Joins(Docs, x, y) => Joins(D, x, y)
  <2>1. D' = D
    BY <1>1
  <2>2. \A x, y : P(x, y)' <=> P(x, y)
    BY <1>1, <1>3, <2>1
  <2>3. Whole(d) <=> \A x, y \in D : P(x, y)
    BY DEF Whole
  <2>4. Whole(d)' <=> \A x, y \in D' : P(x, y)'
    BY DEF Whole
  <2> HIDE DEF D, P
  <2>5. QED BY <2>1, <2>2, <2>3, <2>4
<1>6. \A a, b : Kept(a, b)' <=> Kept(a, b)
  BY <1>4 DEF Kept
<1>7. \A s : Met(s)' = Met(s)
  BY <1>1 DEF Met
<1>8. \A s : Past(s)' = Past(s)
  BY <1>7 DEF Past
<1>9. \A s : Tree(s)' = Tree(s)
  BY <1>7, <1>8 DEF Tree
<1>10. \A s, k : Over(s, k)' = Over(s, k)
  BY <1>7 DEF Over
<1>11. \A s, k, x : InBlock(s, k, x)' <=> InBlock(s, k, x)
  BY <1>10 DEF InBlock
<1>12. \A f : Tried(f)' = Tried(f)
  BY <1>1 DEF Tried
<1>13. \A s, k, y, w : Leads(s, k, y, w)' <=> Leads(s, k, y, w)
  BY <1>1, <1>7, <1>10 DEF Leads
<1>14. \A s, k, x, w : Looked(s, k, x, w)' <=> Looked(s, k, x, w)
  BY <1>1, <1>11, <1>12 DEF Looked
<1>15. \A s, d, x : Clear(s, d, x)' <=> Clear(s, d, x)
  BY <1>1, <1>3, <1>10 DEF Clear
<1>16. \A s : LowTyped(s)' <=> LowTyped(s)
  BY <1>1 DEF LowTyped
<1>17. \A s : LowOrdered(s)' <=> LowOrdered(s)
  BY <1>7 DEF LowOrdered
<1>18. \A s : LowFrames(s)' <=> LowFrames(s)
  BY <1>1, <1>7, <1>12 DEF LowFrames
<1>19. \A s : LowMet(s)' <=> LowMet(s)
  BY <1>1, <1>7, <1>8, <1>11 DEF LowMet
<1>20. \A s : LowIsLeast(s)' <=> LowIsLeast(s)
  BY <1>1, <1>13, <1>14 DEF LowIsLeast
<1>21. \A s : LowJoined(s)' <=> LowJoined(s)
  BY <1>3, <1>9, <1>10 DEF LowJoined
<1>22. \A s : LowCuts(s)' <=> LowCuts(s)
  BY <1>1, <1>5, <1>8, <1>9, <1>15 DEF LowCuts
<1>23. \A s : LowRoot(s)' <=> LowRoot(s)
  BY <1>1, <1>3, <1>5, <1>9 DEF LowRoot
<1>24. \A s : LowBridges(s)' <=> LowBridges(s)
  <2> TAKE s
  <2> DEFINE Found(b) == \E a, c \in Docs : c \in Neighbours(a) /\ b = {a, c} /\ ~Kept(a, c)
             Told(x, w) == w \in Neighbours(x) => {x, w} \in s.bridges \/ Kept(x, w) \/ Stacked(s, x, w)
  <2>1. \A b : Found(b)' <=> Found(b)
    BY <1>1, <1>6
  <2>2. \A x, w : Told(x, w)' <=> Told(x, w)
    BY <1>1, <1>6 DEF Stacked
  <2>3. LowBridges(s) <=> (\A b \in s.bridges : Found(b)) /\ \A x, w \in Met(s) : Told(x, w)
    BY DEF LowBridges
  <2>4. LowBridges(s)' <=> (\A b \in s.bridges : Found(b)') /\ \A x, w \in Met(s)' : Told(x, w)'
    BY DEF LowBridges
  <2>5. Met(s)' = Met(s)
    BY <1>7
  <2> HIDE DEF Found, Told
  <2>6. QED BY <2>1, <2>2, <2>3, <2>4, <2>5
<1>25. \A s : LowRight(s)' = LowRight(s)
  BY <1>16, <1>17, <1>18, <1>19, <1>20, <1>21, <1>22, <1>23, <1>24 DEF LowRight
<1>26. QED BY <1>2, <1>25

\* From the stage that starts it on, the low-link search is right; at its end it is done.
LowInv ==
  /\ stage \in {"critical", "rank", "trails", "done"} => LowRight(ab)
  /\ stage \in {"rank", "trails", "done"} => CriticalDone

\* The search is right in every step of a run.
LEMMA LowInvStep ==
  ASSUME BaseInv, AbInv, LowInv, [Next]_vars
  PROVE  LowInv'
<1> DEFINE late == {"critical", "rank", "trails", "done"}
           over == {"rank", "trails", "done"}
<1>1. given' = given
  BY DEF Next, vars, ResolveReferences, BuildGraph, StartComponents, WeakStep, WeakDone,
    StrongStep, StrongDone, SearchDistances, SearchPaths, Measure, CriticalSteps, CriticalEnds,
    PageRank, TrailStep, TrailsEnd, Terminating
<1>2. CASE stage' \notin late
  BY <1>2 DEF LowInv
<1>3. CASE Measure
  <2>1. graph' = graph /\ ab' = NewCritical /\ stage' = "critical"
    BY <1>3 DEF Measure
  <2>2. LowRight(ab')
    BY <2>1, LowStarts
  <2>3. QED BY <1>1, <2>1, <2>2, SameLow DEF LowInv
<1>4. CASE CriticalSteps
  <2>1. stage = "critical" /\ stage' = "critical" /\ CriticalStep /\ graph' = graph
    BY <1>4 DEF CriticalSteps
  <2>2. ab \in Search /\ Frames(ab.work) /\ LowRight(ab)
    BY <2>1 DEF AbInv, LowInv
  <2>3. IsBuilt
    BY <2>1, BuiltGraph
  <2>4. LowRight(ab')
    BY <2>1, <2>2, <2>3, LowStep
  <2>5. QED BY <1>1, <2>1, <2>4, SameLow DEF LowInv
<1>5. CASE stage' \in late /\ ~Measure /\ ~CriticalSteps
  <2>1. stage \in late /\ graph' = graph /\ ab' = ab /\ (stage' \in over => stage \in over \/ CriticalDone)
    <3>1. CASE UNCHANGED vars
      BY <1>5, <3>1 DEF vars, search
    <3>2. CASE Next
      BY <1>5, <3>2 DEF Next, ResolveReferences, BuildGraph, StartComponents, WeakStep, WeakDone,
        StrongStep, StrongDone, SearchDistances, SearchPaths, CriticalEnds,
        PageRank, TrailStep, TrailsEnd, Terminating, vars, search
    <3>3. QED BY <3>1, <3>2
  <2>2. LowRight(ab') /\ (stage' \in over => CriticalDone)
    BY <2>1 DEF LowInv
  <2>3. CriticalDone => CriticalDone'
    BY <1>1, <2>1 DEF CriticalDone, Docs, given
  <2>4. QED BY <1>1, <2>1, <2>2, <2>3, SameLow DEF LowInv
<1>6. QED BY <1>2, <1>3, <1>4, <1>5

-----------------------------------------------------------------------------
(* What the search has found at its end.                                   *)

\* To be connected within a set is to be reachable by the links in it.
LEMMA JoinsIs ==
  ASSUME NEW S, NEW L, L \subseteq S \X S, \A a, b \in S : <<a, b>> \in L <=> b \in Neighbours(a)
  PROVE  \A x, y : <<x, y>> \in Reachable(S, L) <=> Joins(S, x, y)
<1>1. \A s \in SUBSET S : s \in Closed(S, L) <=> \A a \in s : Neighbours(a) \intersect S \subseteq s
  <2> SUFFICES ASSUME NEW s \in SUBSET S
               PROVE  (\A e \in L : e[1] \in s => e[2] \in s) <=> \A a \in s : Neighbours(a) \intersect S \subseteq s
    BY DEF Closed
  <2>1. ASSUME \A e \in L : e[1] \in s => e[2] \in s, NEW a \in s, NEW b \in Neighbours(a) \intersect S
        PROVE  b \in s
    <3>1. <<a, b>> \in L /\ <<a, b>>[1] = a /\ <<a, b>>[2] = b
      OBVIOUS
    <3>2. QED BY <2>1, <3>1
  <2>2. ASSUME \A a \in s : Neighbours(a) \intersect S \subseteq s, NEW e \in L, e[1] \in s
        PROVE  e[2] \in s
    <3>1. e = <<e[1], e[2]>> /\ e[1] \in S /\ e[2] \in S
      OBVIOUS
    <3>2. e[2] \in Neighbours(e[1])
      BY <3>1
    <3>3. QED BY <2>2, <3>1, <3>2
  <2>3. QED BY <2>1, <2>2
<1>2. Closed(S, L) \subseteq SUBSET S
  BY DEF Closed
<1> DEFINE C == Closed(S, L)
<1>3. \A x, y : <<x, y>> \in Reachable(S, L) <=>
        <<x, y>> \in S \X S /\ \A s \in C : <<x, y>>[1] \in s => <<x, y>>[2] \in s
  BY DEF Reachable
<1>4. \A x, y : <<x, y>>[1] = x /\ <<x, y>>[2] = y /\ (<<x, y>> \in S \X S <=> x \in S /\ y \in S)
  OBVIOUS
<1> HIDE DEF C
<1>5. \A x, y : <<x, y>> \in Reachable(S, L) <=> x \in S /\ y \in S /\ \A s \in C : x \in s => y \in s
  BY <1>3, <1>4
<1>6. QED BY <1>1, <1>2, <1>5 DEF Joins, C

\* To be connected without a link is to be reachable by the others.
LEMMA JoinsPastIs ==
  ASSUME NEW L, L \subseteq Docs \X Docs, NEW p, NEW q,
         \A a, b \in Docs : <<a, b>> \in L <=> b \in Neighbours(a) /\ {a, b} # {p, q},
         \A a \in Docs : Neighbours(a) \subseteq Docs
  PROVE  \A x, y : <<x, y>> \in Reachable(Docs, L) <=> JoinsPast(p, q, x, y)
<1>1. \A s \in SUBSET Docs : s \in Closed(Docs, L) <=> \A a \in s : \A b \in Neighbours(a) : {a, b} = {p, q} \/ b \in s
  <2> SUFFICES ASSUME NEW s \in SUBSET Docs
               PROVE  (\A e \in L : e[1] \in s => e[2] \in s)
                      <=> \A a \in s : \A b \in Neighbours(a) : {a, b} = {p, q} \/ b \in s
    BY DEF Closed
  <2>1. ASSUME \A e \in L : e[1] \in s => e[2] \in s, NEW a \in s, NEW b \in Neighbours(a), {a, b} # {p, q}
        PROVE  b \in s
    <3>1. <<a, b>> \in L /\ <<a, b>>[1] = a /\ <<a, b>>[2] = b
      BY <2>1
    <3>2. QED BY <2>1, <3>1
  <2>2. ASSUME \A a \in s : \A b \in Neighbours(a) : {a, b} = {p, q} \/ b \in s, NEW e \in L, e[1] \in s
        PROVE  e[2] \in s
    <3>1. e = <<e[1], e[2]>> /\ e[1] \in Docs /\ e[2] \in Docs
      OBVIOUS
    <3>2. e[2] \in Neighbours(e[1]) /\ {e[1], e[2]} # {p, q}
      BY <3>1
    <3>3. QED BY <2>2, <3>1, <3>2
  <2>3. QED BY <2>1, <2>2
<1>2. Closed(Docs, L) \subseteq SUBSET Docs
  BY DEF Closed
<1> DEFINE C == Closed(Docs, L)
<1>3. \A x, y : <<x, y>> \in Reachable(Docs, L) <=>
        <<x, y>> \in Docs \X Docs /\ \A s \in C : <<x, y>>[1] \in s => <<x, y>>[2] \in s
  BY DEF Reachable
<1>4. \A x, y : <<x, y>>[1] = x /\ <<x, y>>[2] = y /\ (<<x, y>> \in Docs \X Docs <=> x \in Docs /\ y \in Docs)
  OBVIOUS
<1> HIDE DEF C
<1>5. \A x, y : <<x, y>> \in Reachable(Docs, L) <=> x \in Docs /\ y \in Docs /\ \A s \in C : x \in s => y \in s
  BY <1>3, <1>4
<1>6. QED BY <1>1, <1>2, <1>5 DEF JoinsPast, C

\* The search over, its cut points and bridges are the documents and the links whose loss
\* disconnects what was connected.
LEMMA FoundCritical ==
  ASSUME IsBuilt, LowRight(ab), CriticalDone
  PROVE  LET both    == Both(Links)
             touches == Reachable(Docs, both)
             Without(d) == Reachable(Docs \ {d}, {e \in both : d \notin {e[1], e[2]}}) IN
         /\ ab.aps = {d \in Docs : ~({p \in touches : d \notin {p[1], p[2]}} \subseteq Without(d))}
         /\ ab.bridges = {{e[1], e[2]} : e \in {f \in Links : f \notin Reachable(Docs, both \ Both({f}))}}
<1> DEFINE both == Both(Links)
           touches == Reachable(Docs, both)
           Left(d) == {e \in both : d \notin {e[1], e[2]}}
           Without(d) == Reachable(Docs \ {d}, Left(d))
           Rest(f) == both \ Both({f})
<1>0. Mutual /\ Len(ab.work) = 0
  BY BuiltMutual DEF CriticalDone
<1>1. \A d \in Docs : Neighbours(d) \subseteq Docs /\ \A e \in Neighbours(d) : d \in Neighbours(e)
  BY <1>0 DEF Mutual
<1>2. Links \subseteq Docs \X Docs /\ \A d, e \in Docs : e \in Neighbours(d) <=> <<d, e>> \in Links \/ <<e, d>> \in Links
  <2>1. Links \subseteq Docs \X Docs
    BY OutAndIn DEF Links
  <2>2. QED BY <2>1, NeighboursIn
<1>3. \A L : L \subseteq Docs \X Docs => /\ Both(L) \subseteq Docs \X Docs
                                         /\ \A a, b : <<a, b>> \in Both(L) <=> <<a, b>> \in L \/ <<b, a>> \in L
  <2> SUFFICES ASSUME NEW L \in SUBSET (Docs \X Docs)
               PROVE  /\ Both(L) \subseteq Docs \X Docs
                      /\ \A a, b : <<a, b>> \in Both(L) <=> <<a, b>> \in L \/ <<b, a>> \in L
    OBVIOUS
  <2>1. Both(L) \subseteq Docs \X Docs
    BY DEF Both
  <2>2. ASSUME NEW a, NEW b, <<a, b>> \in Both(L) PROVE <<a, b>> \in L \/ <<b, a>> \in L
    <3>1. CASE <<a, b>> \in L
      BY <3>1
    <3>2. CASE <<a, b>> \in {<<e[2], e[1]>> : e \in L}
      <4>1. PICK e \in L : <<a, b>> = <<e[2], e[1]>>
        BY <3>2
      <4>2. e = <<e[1], e[2]>> /\ a = e[2] /\ b = e[1]
        BY <4>1
      <4>3. QED BY <4>1, <4>2
    <3>3. QED BY <2>2, <3>1, <3>2 DEF Both
  <2>3. ASSUME NEW a, NEW b, <<b, a>> \in L PROVE <<a, b>> \in Both(L)
    <3>1. <<b, a>>[1] = b /\ <<b, a>>[2] = a
      OBVIOUS
    <3>2. <<a, b>> \in {<<e[2], e[1]>> : e \in L}
      BY <2>3, <3>1
    <3>3. QED BY <3>2 DEF Both
  <2>4. QED BY <2>1, <2>2, <2>3 DEF Both
<1>4. both \subseteq Docs \X Docs /\ \A a, b \in Docs : <<a, b>> \in both <=> b \in Neighbours(a)
  BY <1>2, <1>3
<1> HIDE DEF both
<1>5. \A x, y : <<x, y>> \in touches <=> Joins(Docs, x, y)
  <2> DEFINE S == Docs
  <2>1. both \subseteq S \X S /\ \A a, b \in S : <<a, b>> \in both <=> b \in Neighbours(a)
    BY <1>4
  <2> HIDE DEF S
  <2>2. \A x, y : <<x, y>> \in Reachable(S, both) <=> Joins(S, x, y)
    BY <2>1, JoinsIs
  <2>3. QED BY <2>2 DEF S
<1>6. ASSUME NEW d \in Docs PROVE \A x, y : <<x, y>> \in Without(d) <=> Joins(Docs \ {d}, x, y)
  <2> DEFINE S == Docs \ {d}
             L == Left(d)
  <2>1. \A e \in both : e = <<e[1], e[2]>> /\ e[1] \in Docs /\ e[2] \in Docs
    BY <1>4
  <2>2. L \subseteq S \X S
    BY <2>1
  <2>3. \A a, b \in S : <<a, b>> \in L <=> b \in Neighbours(a)
    BY <1>4
  <2> HIDE DEF S, L
  <2>4. \A x, y : <<x, y>> \in Reachable(S, L) <=> Joins(S, x, y)
    BY <2>2, <2>3, JoinsIs
  <2>5. QED BY <2>4 DEF S, L
<1>7. ASSUME NEW f \in Links PROVE f \in Reachable(Docs, Rest(f)) <=> Kept(f[1], f[2])
  <2> DEFINE L == Rest(f)
             p == f[1]
             q == f[2]
             one == {f}
  <2>1. f = <<p, q>> /\ p \in Docs /\ q \in Docs
    BY <1>2
  <2>2. one \subseteq Docs \X Docs /\ \A a, b : <<a, b>> \in one <=> a = p /\ b = q
    BY <1>2, <2>1
  <2> HIDE DEF p, q
  <2>3. \A a, b : <<a, b>> \in Both(one) <=> (a = p /\ b = q) \/ (a = q /\ b = p)
    <3> HIDE DEF one
    <3>1. \A a, b : <<a, b>> \in Both(one) <=> <<a, b>> \in one \/ <<b, a>> \in one
      BY <1>3, <2>2
    <3>2. QED BY <2>2, <3>1
  <2>4. \A a, b : {a, b} = {p, q} <=> (a = p /\ b = q) \/ (a = q /\ b = p)
    OBVIOUS
  <2>5. L \subseteq Docs \X Docs /\ \A a, b \in Docs : <<a, b>> \in L <=> b \in Neighbours(a) /\ {a, b} # {p, q}
    <3>1. \A a, b : <<a, b>> \in L <=> <<a, b>> \in both /\ <<a, b>> \notin Both(one)
      BY DEF one
    <3>2. L \subseteq both
      OBVIOUS
    <3> HIDE DEF L, one
    <3>3. QED BY <1>4, <2>3, <2>4, <3>1, <3>2
  <2> HIDE DEF L
  <2>6. \A x, y : <<x, y>> \in Reachable(Docs, L) <=> JoinsPast(p, q, x, y)
    BY <1>1, <2>5, JoinsPastIs
  <2>7. QED BY <2>1, <2>6 DEF L, p, q, Kept
<1>8. Met(ab) = Docs /\ Past(ab) = Docs
  BY <1>0 DEF CriticalDone, Met, Past
<1>9. ab.aps \subseteq Docs /\ \A d \in Docs : d \in ab.aps <=> ~Whole(d)
  BY <1>8 DEF LowRight, LowCuts
<1>10. ASSUME NEW d \in Docs PROVE Whole(d) <=> {p \in touches : d \notin {p[1], p[2]}} \subseteq Without(d)
  <2> HIDE DEF touches, Without
  <2>1. ASSUME Whole(d), NEW p \in touches, d \notin {p[1], p[2]} PROVE p \in Without(d)
    <3>1. p = <<p[1], p[2]>>
      BY DEF touches, Reachable
    <3>2. Joins(Docs, p[1], p[2])
      BY <1>5, <2>1, <3>1
    <3>3. p[1] \in Docs \ {d} /\ p[2] \in Docs \ {d}
      BY <2>1, <3>2 DEF Joins
    <3>4. Joins(Docs \ {d}, p[1], p[2])
      BY <2>1, <3>2, <3>3 DEF Whole
    <3>5. QED BY <1>6, <3>1, <3>4
  <2>2. ASSUME {p \in touches : d \notin {p[1], p[2]}} \subseteq Without(d),
               NEW x \in Docs \ {d}, NEW y \in Docs \ {d}, Joins(Docs, x, y)
        PROVE  Joins(Docs \ {d}, x, y)
    <3>1. <<x, y>> \in touches /\ <<x, y>>[1] = x /\ <<x, y>>[2] = y
      BY <1>5, <2>2
    <3>2. <<x, y>> \in Without(d)
      BY <2>2, <3>1
    <3>3. QED BY <1>6, <3>2
  <2>3. QED BY <2>1, <2>2 DEF Whole
<1>11. ab.aps = {d \in Docs : ~({p \in touches : d \notin {p[1], p[2]}} \subseteq Without(d))}
  <2> HIDE DEF touches, Without
  <2>1. QED BY <1>9, <1>10
<1>12. /\ \A b \in ab.bridges : \E a, c \in Docs : c \in Neighbours(a) /\ b = {a, c} /\ ~Kept(a, c)
       /\ \A x, w \in Docs : w \in Neighbours(x) => {x, w} \in ab.bridges \/ Kept(x, w)
  <2>1. \A x, w : ~Stacked(ab, x, w)
    BY <1>0 DEF Stacked
  <2>2. QED BY <1>8, <2>1 DEF LowRight, LowBridges
<1> DEFINE cuts == {f \in Links : f \notin Reachable(Docs, Rest(f))}
<1>13. \A f : f \in cuts <=> f \in Links /\ ~Kept(f[1], f[2])
  BY <1>7
<1> HIDE DEF cuts
<1>14. \A b \in ab.bridges : \E f \in cuts : b = {f[1], f[2]}
  <2> SUFFICES ASSUME NEW b \in ab.bridges PROVE \E f \in cuts : b = {f[1], f[2]}
    OBVIOUS
  <2>1. PICK a \in Docs, c \in Docs : c \in Neighbours(a) /\ b = {a, c} /\ ~Kept(a, c)
    BY <1>12
  <2>2. ~Kept(c, a)
    BY <1>0, <2>1, JoinsPastFacts DEF Kept
  <2>3. /\ <<a, c>>[1] = a /\ <<a, c>>[2] = c /\ <<c, a>>[1] = c /\ <<c, a>>[2] = a /\ {a, c} = {c, a}
    OBVIOUS
  <2>4. <<a, c>> \in Links \/ <<c, a>> \in Links
    BY <1>2, <2>1
  <2>5. CASE <<a, c>> \in Links
    <3>1. <<a, c>> \in cuts
      BY <1>13, <2>1, <2>3, <2>5
    <3>2. QED BY <2>1, <2>3, <3>1
  <2>6. CASE <<c, a>> \in Links
    <3>1. <<c, a>> \in cuts
      BY <1>13, <2>2, <2>3, <2>6
    <3>2. QED BY <2>1, <2>3, <3>1
  <2>7. QED BY <2>4, <2>5, <2>6
<1>15. \A f \in cuts : {f[1], f[2]} \in ab.bridges
  <2> TAKE f \in cuts
  <2>1. f \in Links /\ ~Kept(f[1], f[2])
    BY <1>13
  <2>2. f = <<f[1], f[2]>> /\ f[1] \in Docs /\ f[2] \in Docs
    BY <1>2, <2>1
  <2>3. f[2] \in Neighbours(f[1])
    BY <1>2, <2>1, <2>2
  <2>4. QED BY <1>12, <2>1, <2>2, <2>3
<1>16. ab.bridges = {{e[1], e[2]} : e \in cuts}
  BY <1>14, <1>15
<1>17. QED BY <1>11, <1>16 DEF cuts, both

\* Everything the analyses establish on the way.
IndInv ==
  /\ BaseInv /\ UfInv /\ TarjanInv /\ BfsInv /\ BowtieInv /\ AbInv /\ LowInv
  /\ ReportInv /\ RankInv /\ TrailInv

\* No two findings of one report contradict each other.
LEMMA AdviceHolds ==
  ASSUME IndInv
  PROVE  AdviceIsConsistent
<1> SUFFICES ASSUME Done PROVE AdviceIsConsistent
  BY DEF AdviceIsConsistent
<1> DEFINE gaps == DetectGaps(config.minGap).gaps
           links == PredictLinks.suggestions
           scent == ComputeScent
           all == AllFindings(gaps, links, scent)
           bridges == {<<Min(b), Max(b)>> : b \in ab.bridges}
           Of(kinds)  == {f \in report.findings : f.kind \in kinds}
           DocsOf(kinds) == {f.doc : f \in Of(kinds)}
           Pairs(kind)   == {{f.doc, f.other} : f \in Of({kind})}
           linked == {{e[1], e[2]} : e \in Links}
           Tiers  == {"orphan", "under-linked", "dead-end"}
           F(d)   == Find(uf.parent, d)
<1>1. /\ IsBuilt /\ Given /\ Unites /\ uf.todo = {} /\ ab \in Search
      /\ bfs.dist = [s \in Docs |-> Distances(graph.out, s)]
      /\ report.findings = all
  <2>1. stage = "done"
    BY DEF Done
  <2>2. BaseInv /\ IsBuilt /\ Given
    BY <2>1, BuiltGraph DEF IndInv, BaseInv
  <2>3. Unites /\ uf.todo = {}
    BY <2>1 DEF IndInv, UfInv, Early
  <2>4. ab \in Search
    BY <2>1 DEF IndInv, AbInv
  <2>5. bfs.dist = [s \in Docs |-> Distances(graph.out, s)]
    BY <2>1 DEF IndInv, BfsInv, Searched
  <2>6. report.findings = all
    BY <2>1 DEF IndInv, ReportInv
  <2>7. QED BY <2>2, <2>3, <2>4, <2>5, <2>6
<1>2. \A k : \A f \in Of({k}) : f \in all /\ f.kind = k
  BY <1>1
<1>3. ASSUME NEW d \in Docs
      PROVE  /\ d \in Isolated => Neighbours(d) = {}
             /\ \A e \in Docs : e \in Neighbours(d) <=> d \in Neighbours(e)
             /\ \A e \in Neighbours(d) : e \in Docs /\ F(d) = F(e)
  <2>1. d \in Isolated => Neighbours(d) = {}
    BY DEF Isolated, Neighbours
  <2>2. /\ Neighbours(d) \subseteq Docs
        /\ \A e \in Docs : e \in Neighbours(d) <=> <<d, e>> \in Links \/ <<e, d>> \in Links
    BY <1>1, NeighboursIn
  <2>3. \A e \in Docs : d \in Neighbours(e) <=> <<e, d>> \in Links \/ <<d, e>> \in Links
    BY <1>1, NeighboursIn
  <2>4. \A e \in Docs : <<d, e>> \in Links \/ <<e, d>> \in Links => F(d) = F(e)
    BY <1>1, SharedRoot
  <2> HIDE DEF F
  <2>5. QED BY <2>1, <2>2, <2>3, <2>4
<1>4. ASSUME NEW f \in all, f.kind = "suggested-link"
      PROVE  /\ f.doc \in Docs /\ f.other \in Docs /\ ~Linked(f.doc, f.other)
             /\ Neighbours(f.doc) # {} /\ F(f.doc) = F(f.other)
  <2>1. OfLink(f, links)
    BY <1>4, KindsApart
  <2>2. PICK x \in links : f.doc = x.a /\ f.other = x.b
    <3> HIDE DEF links
    <3>1. PICK x \in links :
            f = [kind |-> "suggested-link", severity |-> Info, doc |-> x.a, line |-> 0,
                 at |-> [target |-> <<>>, frag |-> "", text |-> ""], other |-> x.b,
                 score |-> [num |-> x.adamicAdar, den |-> 1], shared |-> x.shared]
      BY <2>1 DEF OfLink
    <3>2. f.doc = x.a /\ f.other = x.b
      BY <3>1
    <3>3. QED BY <3>2
  <2>3. x.a \in Docs /\ x.b \in Docs /\ ~Linked(x.a, x.b)
    BY <1>1, Suggested, SuggestionOf
  <2>4. PICK c \in Docs : x.a \in Neighbours(c) /\ x.b \in Neighbours(c)
    BY <1>1, Suggested, SuggestionOf
  <2>5. c \in Neighbours(x.a)
    BY <1>3, <2>3, <2>4
  <2>6. F(x.a) = F(x.b)
    BY <1>3, <2>4
  <2> HIDE DEF F
  <2>7. QED BY <2>2, <2>3, <2>5, <2>6
<1>5. ASSUME NEW f \in all, f.kind = "knowledge-gap"
      PROVE  f.doc \in Docs /\ f.other \in Docs /\ F(f.doc) # F(f.other)
  <2>1. OfPair(f, "knowledge-gap", gaps)
    BY <1>5, KindsApart
  <2>2. PICK p \in gaps : f.doc = p[1] /\ f.other = p[2]
    BY <2>1 DEF OfPair
  <2>3. p[1] \in Docs /\ p[2] \in Docs /\ F(p[1]) # F(p[2])
    BY <1>1, GapOf
  <2> HIDE DEF F
  <2>4. QED BY <2>2, <2>3
<1>6. ASSUME NEW f \in all, f.kind = "bridge"
      PROVE  {f.doc, f.other} \in linked /\ f.doc \in Docs /\ Neighbours(f.doc) # {}
  <2>1. OfPair(f, "bridge", bridges)
    BY <1>6, KindsApart
  <2>2. PICK p \in bridges : f.doc = p[1] /\ f.other = p[2]
    BY <2>1 DEF OfPair
  <2>3. PICK e \in Links : {p[1], p[2]} = {e[1], e[2]} /\ p[1] \in {e[1], e[2]}
    BY <1>1, BridgeOf
  <2>4. e[1] \in Docs /\ e[2] \in Docs /\ <<e[1], e[2]>> \in Links
    BY DEF Links
  <2>5. e[2] \in Neighbours(e[1])
    BY <1>1, <2>4, NeighboursIn
  <2>6. e[1] \in Neighbours(e[2])
    BY <1>3, <2>4, <2>5
  <2>7. QED BY <2>2, <2>3, <2>4, <2>5, <2>6
<1>7. ASSUME NEW e \in Links PROVE Linked(e[1], e[2]) /\ Linked(e[2], e[1]) /\ F(e[1]) = F(e[2])
  <2>1. e[1] \in Docs /\ e[2] \in Docs /\ e[2] \in Out(e[1]) /\ <<e[1], e[2]>> \in Links
    BY DEF Links
  <2>2. F(e[1]) = F(e[2])
    BY <1>1, <2>1, SharedRoot
  <2>3. QED BY <2>1, <2>2 DEF Linked, Out
<1> HIDE DEF F, all, gaps, links, scent, bridges
<1>8. (Pairs("suggested-link") \union Pairs("knowledge-gap")) \intersect linked = {}
  <2>1. ASSUME NEW f \in Of({"suggested-link"}), NEW e \in Links, {f.doc, f.other} = {e[1], e[2]} PROVE FALSE
    <3>1. ~Linked(f.doc, f.other)
      BY <1>2, <1>4
    <3>2. (f.doc = e[1] /\ f.other = e[2]) \/ (f.doc = e[2] /\ f.other = e[1])
      BY <2>1
    <3>3. QED BY <1>7, <3>1, <3>2
  <2>2. ASSUME NEW f \in Of({"knowledge-gap"}), NEW e \in Links, {f.doc, f.other} = {e[1], e[2]} PROVE FALSE
    <3>1. F(f.doc) # F(f.other)
      BY <1>2, <1>5
    <3>2. (f.doc = e[1] /\ f.other = e[2]) \/ (f.doc = e[2] /\ f.other = e[1])
      BY <2>2
    <3>3. QED BY <1>7, <3>1, <3>2
  <2> HIDE DEF Of
  <2>3. QED BY <2>1, <2>2
<1>9. Pairs("bridge") \subseteq linked
  <2>1. \A f \in Of({"bridge"}) : {f.doc, f.other} \in linked
    BY <1>2, <1>6
  <2> HIDE DEF Of, linked
  <2>2. QED BY <2>1
<1>10. Pairs("suggested-link") \intersect Pairs("knowledge-gap") = {}
  <2>1. ASSUME NEW f \in Of({"suggested-link"}), NEW g \in Of({"knowledge-gap"}),
               {f.doc, f.other} = {g.doc, g.other}
        PROVE  FALSE
    <3>1. F(f.doc) = F(f.other) /\ F(g.doc) # F(g.other)
      BY <1>2, <1>4, <1>5
    <3>2. (f.doc = g.doc /\ f.other = g.other) \/ (f.doc = g.other /\ f.other = g.doc)
      BY <2>1
    <3>3. QED BY <3>1, <3>2
  <2> HIDE DEF Of
  <2>2. QED BY <2>1
<1>11. ASSUME NEW f \in Of(Tiers)
       PROVE  \/ f.doc \in Isolated /\ f = Finding("orphan", Warning, f.doc, 0)
              \/ f.doc \in UnderLinked /\ f = Finding("under-linked", StructureSeverity, f.doc, 0)
              \/ f.doc \in DeadEnd /\ f = Finding("dead-end", StructureSeverity, f.doc, 0)
  <2>1. f \in all /\ f.kind \in Tiers
    BY <1>1
  <2>2. \/ OfTier(f, "orphan", Warning, Isolated)
        \/ OfTier(f, "under-linked", StructureSeverity, UnderLinked)
        \/ OfTier(f, "dead-end", StructureSeverity, DeadEnd)
    BY <2>1, KindsApart DEF all
  <2>3. QED BY <2>2 DEF OfTier
<1>12. ASSUME NEW d \in Docs PROVE Cardinality({f \in Of(Tiers) : f.doc = d}) <= 1
  <2> DEFINE S == {f \in Of(Tiers) : f.doc = d}
  <2>1. \A f, g \in S : f = g
    <3>1. Isolated \intersect DeadEnd = {} /\ UnderLinked \intersect (Isolated \union DeadEnd) = {}
      BY DEF DeadEnd, UnderLinked
    <3> HIDE DEF Of, Tiers
    <3>2. QED BY <1>11, <3>1
  <2> HIDE DEF S
  <2>2. S = {} \/ \E f : S = {f}
    BY <2>1
  <2>3. Cardinality(S) <= 1
    <3>1. Cardinality({}) = 0 /\ \A f : Cardinality({f}) = 1
      BY FS_EmptySet, FS_Singleton
    <3>2. ASSUME S = {} PROVE Cardinality(S) <= 1
      BY <3>1, <3>2
    <3>3. ASSUME NEW f, S = {f} PROVE Cardinality(S) <= 1
      <4>1. Cardinality({f}) = 1
        BY <3>1
      <4>2. Cardinality(S) = 1
        BY <3>3, <4>1
      <4>3. QED BY <4>2
    <3>4. QED BY <2>2, <3>2, <3>3
  <2>4. QED BY <2>3 DEF S
<1>13. \A f \in Of({"unreachable"}) : f.doc \in Unreachable
  BY <1>2, KindsApart DEF OfTier, all
<1>14. \A f \in Of({"far-from-root"}) : f.doc \in FarFromRoot
  BY <1>2, KindsApart DEF OfTier, all
<1>15. \A f \in Of({"orphan"}) : f.doc \in Isolated
  <2> SUFFICES ASSUME NEW f \in Of({"orphan"}) PROVE f.doc \in Isolated
    OBVIOUS
  <2>1. f \in all /\ f.kind = "orphan"
    BY <1>2
  <2>2. OfTier(f, "orphan", Warning, Isolated)
    BY <2>1, KindsApart DEF all
  <2>3. QED BY <2>2 DEF OfTier
<1>16. \A f \in Of({"articulation-point"}) : f.doc \in ab.aps
  BY <1>2, KindsApart DEF OfTier, all
<1>17. DocsOf({"unreachable"}) \intersect DocsOf({"far-from-root", "orphan"}) = {}
  <2>1. Unreachable \intersect (Reached \union Isolated) = {} /\ FarFromRoot \subseteq Reached
    BY DEF Unreachable, FarFromRoot
  <2>2. Of({"far-from-root", "orphan"}) = Of({"far-from-root"}) \union Of({"orphan"})
    OBVIOUS
  <2> HIDE DEF Of
  <2>3. QED BY <1>13, <1>14, <1>15, <2>1, <2>2
<1>18. DocsOf({"orphan"}) \intersect DocsOf({"articulation-point", "suggested-link", "bridge"}) = {}
  <2>1. \A f \in Of({"orphan"}) : f.doc \in Docs /\ Neighbours(f.doc) = {}
    BY <1>3, <1>15 DEF Isolated
  <2>2. \A f \in Of({"articulation-point"}) : Neighbours(f.doc) # {}
    BY <1>1, <1>16 DEF Search
  <2>3. \A f \in Of({"suggested-link"}) \union Of({"bridge"}) : Neighbours(f.doc) # {}
    BY <1>2, <1>4, <1>6
  <2>4. Of({"articulation-point", "suggested-link", "bridge"})
          = Of({"articulation-point"}) \union Of({"suggested-link"}) \union Of({"bridge"})
    OBVIOUS
  <2> HIDE DEF Of
  <2>5. QED BY <2>1, <2>2, <2>3, <2>4
<1>19. RootSet \subseteq Reached
  <2> SUFFICES ASSUME NEW r \in RootSet PROVE r \in Reached
    OBVIOUS
  <2>1. r \in Docs
    BY DEF RootSet
  <2>2. r \in DOMAIN Distances(graph.out, r) /\ bfs.dist[r] = Distances(graph.out, r)
    BY <1>1, <2>1, ReachesItself
  <2>3. QED BY <2>1, <2>2 DEF Reached, RootsOf
<1>20. RootSet \intersect DocsOf(Tiers \union {"unreachable", "far-from-root"}) = {}
  <2>1. RootSet \intersect (Isolated \union UnderLinked \union DeadEnd \union FarFromRoot \union Unreachable) = {}
    BY <1>19 DEF Isolated, UnderLinked, DeadEnd, FarFromRoot, Unreachable, StructureExempt
  <2>2. Of(Tiers \union {"unreachable", "far-from-root"})
          = Of(Tiers) \union Of({"unreachable"}) \union Of({"far-from-root"})
    OBVIOUS
  <2>3. ASSUME NEW f \in Of(Tiers \union {"unreachable", "far-from-root"}) PROVE f.doc \notin RootSet
    <3>1. CASE f \in Of(Tiers)
      <4>1. f.doc \in Isolated \union UnderLinked \union DeadEnd
        BY <1>11, <3>1
      <4>2. QED BY <2>1, <4>1
    <3>2. CASE f \in Of({"unreachable"})
      BY <1>13, <2>1, <3>2
    <3>3. CASE f \in Of({"far-from-root"})
      BY <1>14, <2>1, <3>3
    <3> HIDE DEF Of, Tiers
    <3>4. QED BY <2>2, <2>3, <3>1, <3>2, <3>3
  <2> HIDE DEF Of, Tiers
  <2>4. QED BY <2>3
<1>21. ASSUME ~Indeterminate, NEW d \in Docs \ Reached
       PROVE  corpus[d].optOut \/ d \in DocsOf({"unreachable", "orphan"})
  <2>1. d \in Unreachable \/ d \in IntentionalOrphans \/ d \in Isolated
    BY <1>21 DEF Unreachable
  <2>2. ASSUME NEW k \in {"unreachable", "orphan"}, NEW docs, d \in docs,
               DocumentFindings(k, Warning, docs) \subseteq all
        PROVE  d \in DocsOf({"unreachable", "orphan"})
    <3>1. Finding(k, Warning, d, 0) \in report.findings
      BY <1>1, <2>2 DEF DocumentFindings
    <3>2. Finding(k, Warning, d, 0).kind = k /\ Finding(k, Warning, d, 0).doc = d
      BY DEF Finding
    <3>3. QED BY <3>1, <3>2
  <2>3. /\ DocumentFindings("orphan", Warning, Isolated) \subseteq all
        /\ DocumentFindings("unreachable", Warning, Unreachable) \subseteq all
    BY ReportHolds DEF all
  <2>4. d \in IntentionalOrphans => corpus[d].optOut
    BY DEF IntentionalOrphans
  <2> HIDE DEF DocsOf
  <2>5. QED BY <2>1, <2>2, <2>3, <2>4
<1>22. QED
  <2> HIDE DEF Pairs, DocsOf, Of, linked, Tiers
  <2>1. /\ (Pairs("suggested-link") \union Pairs("knowledge-gap")) \intersect linked = {}
        /\ Pairs("bridge") \subseteq linked
        /\ Pairs("suggested-link") \intersect Pairs("knowledge-gap") = {}
        /\ \A d \in Docs : Cardinality({f \in Of(Tiers) : f.doc = d}) <= 1
        /\ DocsOf({"unreachable"}) \intersect DocsOf({"far-from-root", "orphan"}) = {}
        /\ DocsOf({"orphan"}) \intersect DocsOf({"articulation-point", "suggested-link", "bridge"}) = {}
        /\ RootSet \intersect DocsOf(Tiers \union {"unreachable", "far-from-root"}) = {}
        /\ ~Indeterminate =>
             \A d \in Docs \ Reached : corpus[d].optOut \/ d \in DocsOf({"unreachable", "orphan"})
    BY <1>8, <1>9, <1>10, <1>12, <1>17, <1>18, <1>20, <1>21
  <2>2. QED BY <2>1, Zenon DEF AdviceIsConsistent, Pairs, DocsOf, Of, linked, Tiers

-----------------------------------------------------------------------------
(* A report is finite.                                                     *)

\* There are finitely many links.
LEMMA LinksFinite ==
  ASSUME Given
  PROVE  IsFiniteSet(Docs \X Docs) /\ IsFiniteSet(Links)
<1>1. IsFiniteSet(Docs)
  BY CorpusFacts
<1>2. IsFiniteSet(Docs \X Docs)
  BY <1>1, FS_Product
<1>3. Links \subseteq Docs \X Docs
  BY DEF Links
<1>4. QED BY <1>2, <1>3, FS_Subset

\* There are finitely many edges.
LEMMA EdgesFinite ==
  ASSUME IsBuilt
  PROVE  IsFiniteSet(graph.edges)
<1>1. IsFiniteSet(Docs) /\ IsFiniteSet(raws) /\ Given /\ graph.edges = Trees \union References
  BY CorpusFacts DEF IsBuilt, Given
<1>2. ASSUME NEW d \in Docs PROVE IsFiniteSet(ContainsTree(d))
  <2> DEFINE S == 1..Len(Sections(d))
             fun == [i \in S |-> Edge(ContainsParent(d, i), SectionNode(d, Sections(d)[i].slug), "contains", "", "", 0)]
  <2>1. Len(Sections(d)) \in Nat /\ DOMAIN Sections(d) = S
    BY <1>1, CorpusFacts
  <2>2. IsFiniteSet(S)
    BY <2>1, FS_Interval
  <2>3. \A y \in ContainsTree(d) : \E i \in S : y = fun[i]
    BY <2>1 DEF ContainsTree
  <2> HIDE DEF fun, S
  <2>4. QED BY <2>2, <2>3, ImagesFinite
<1>3. IsFiniteSet(Trees)
  <2> DEFINE fun == [d \in Docs |-> ContainsTree(d)]
             T == {ContainsTree(d) : d \in Docs}
  <2>1. \A y \in T : \E d \in Docs : y = fun[d]
    OBVIOUS
  <2>2. \A y \in T : IsFiniteSet(y)
    BY <1>2
  <2>3. Trees = UNION T
    BY DEF Trees
  <2> HIDE DEF fun, T
  <2>4. IsFiniteSet(T)
    BY <1>1, <2>1, ImagesFinite
  <2>5. QED BY <2>2, <2>3, <2>4, FS_UNION
<1>4. ASSUME NEW raw \in raws PROVE IsFiniteSet(AddReferenceEdge(Resolve(raw)))
  <2> DEFINE r == Resolve(raw)
  <2>1. CASE r.health # "valid"
    <3>1. AddReferenceEdge(r) = {}
      BY <2>1, Zenon DEF AddReferenceEdge
    <3>2. QED BY <3>1, FS_EmptySet
  <2>2. CASE r.health = "valid" /\ r.target.kind # "directory"
    <3>1. AddReferenceEdge(r) = {ReferenceEdge(r)}
      BY <2>2, Zenon DEF AddReferenceEdge
    <3>2. QED BY <3>1, FS_Singleton
  <2>3. CASE r.health = "valid" /\ r.target.kind = "directory"
    <3>1. IsRaw(corpus, raw)
      BY <1>1 DEF Given
    <3>2. Aimed(r.target)
      BY <1>1, <2>3, <3>1, TargetsAim
    <3>3. r.target.doc \in Docs \union {0} /\ r.target.children \subseteq Docs
      BY <2>3, <3>2 DEF Aimed
    <3> DEFINE fun == [d \in Docs |-> Edge(OriginNode(r.raw), DocNode(d), "reference", r.raw.type, "", 0)]
    <3> HIDE DEF r
    <3>4. AddReferenceEdge(r) = DirectoryEdges(r)
      BY <2>3, Zenon DEF AddReferenceEdge
    <3>5. \A y \in DirectoryEdges(r) : \E d \in Docs : y = fun[d]
      <4> DEFINE to == IF config.strictDirs THEN {r.target.doc} \ {0} ELSE r.target.children
      <4>1. to \subseteq Docs
        BY <3>3
      <4>2. DirectoryEdges(r) = {Edge(OriginNode(r.raw), DocNode(d), "reference", r.raw.type, "", 0) : d \in to}
        BY DEF DirectoryEdges
      <4> HIDE DEF to
      <4>3. QED BY <4>1, <4>2
    <3> HIDE DEF fun
    <3>6. IsFiniteSet(DirectoryEdges(r))
      BY <1>1, <3>5, ImagesFinite
    <3>7. QED BY <3>4, <3>6 DEF r
  <2>4. QED BY <2>1, <2>2, <2>3
<1>5. IsFiniteSet(References)
  <2> DEFINE fun == [raw \in raws |-> AddReferenceEdge(Resolve(raw))]
             T == {AddReferenceEdge(r) : r \in ResolveAll}
  <2>1. \A y \in T : \E raw \in raws : y = fun[raw]
    BY DEF ResolveAll
  <2>2. \A y \in T : IsFiniteSet(y)
    BY <1>4 DEF ResolveAll
  <2>3. References = UNION T
    BY DEF References
  <2> HIDE DEF fun, T
  <2>4. IsFiniteSet(T)
    BY <1>1, <2>1, ImagesFinite
  <2>5. QED BY <2>2, <2>3, <2>4, FS_UNION
<1>6. QED BY <1>1, <1>3, <1>5, FS_Union

\* There are finitely many findings of documents.
LEMMA TiersFinite ==
  ASSUME Given, NEW kind, NEW severity, NEW docs \in SUBSET Docs
  PROVE  IsFiniteSet(DocumentFindings(kind, severity, docs))
<1> DEFINE fun == [d \in Docs |-> Finding(kind, severity, d, 0)]
<1>1. IsFiniteSet(Docs)
  BY CorpusFacts
<1>2. \A y \in DocumentFindings(kind, severity, docs) : \E d \in Docs : y = fun[d]
  BY DEF DocumentFindings
<1> HIDE DEF fun
<1>3. QED BY <1>1, <1>2, ImagesFinite

\* There are finitely many findings of pairs.
LEMMA PairsFinite ==
  ASSUME NEW kind, NEW pairs, IsFiniteSet(pairs)
  PROVE  IsFiniteSet(PairFindings(kind, pairs))
<1> DEFINE fun == [p \in pairs |-> [Finding(kind, Info, p[1], 0) EXCEPT !.other = p[2]]]
<1>1. \A y \in PairFindings(kind, pairs) : \E p \in pairs : y = fun[p]
  BY DEF PairFindings
<1> HIDE DEF fun
<1>2. QED BY <1>1, ImagesFinite

\* There are finitely many findings of references.
LEMMA OfReferencesFinite ==
  ASSUME Given, refs = ResolveAll
  PROVE  IsFiniteSet(refs) /\ IsFiniteSet(FindingsFromReferences) /\ IsFiniteSet(DeadLinkFindings)
<1>1. IsFiniteSet(refs)
  <2> DEFINE fun == [raw \in raws |-> Resolve(raw)]
  <2>1. IsFiniteSet(raws) /\ \A y \in refs : \E raw \in raws : y = fun[raw]
    BY DEF Given, ResolveAll
  <2> HIDE DEF fun
  <2>2. QED BY <2>1, ImagesFinite
<1>3. IsFiniteSet(FindingsFromReferences)
  <2> DEFINE a == {ReferenceFinding(r, "broken-link", Error) : r \in {q \in refs : q.health = "broken"}}
             b == {ReferenceFinding(r, "broken-anchor", Error) : r \in {q \in refs : q.health = "broken-anchor"}}
             c == {ReferenceFinding(r, "ambiguous", Warning) : r \in {q \in refs : q.health = "ambiguous"}}
  <2>1. IsFiniteSet(a) /\ IsFiniteSet(b) /\ IsFiniteSet(c)
    <3> DEFINE fun(k, v) == [r \in refs |-> ReferenceFinding(r, k, v)]
               fa == fun("broken-link", Error)
               fb == fun("broken-anchor", Error)
               fc == fun("ambiguous", Warning)
    <3>1. /\ \A y \in a : \E r \in refs : y = fa[r]
          /\ \A y \in b : \E r \in refs : y = fb[r]
          /\ \A y \in c : \E r \in refs : y = fc[r]
      OBVIOUS
    <3> HIDE DEF a, b, c, fa, fb, fc
    <3>2. QED BY <1>1, <3>1, ImagesFinite
  <2>2. FindingsFromReferences = (a \union b) \union c
    BY DEF FindingsFromReferences
  <2> HIDE DEF a, b, c
  <2>3. QED BY <2>1, <2>2, FS_Union
<1>4. IsFiniteSet(DeadLinkFindings)
  <2> DEFINE fun == [r \in refs |-> [ReferenceFinding(r, "dead-link", Warning) EXCEPT !.at.text = ""]]
  <2>1. \A y \in DeadLinkFindings : \E r \in refs : y = fun[r]
    BY DEF DeadLinkFindings
  <2> HIDE DEF fun
  <2>2. QED BY <1>1, <2>1, ImagesFinite
<1>5. QED BY <1>1, <1>3, <1>4

\* There are finitely many findings of the OKF rules.
LEMMA OfRulesFinite ==
  ASSUME Given
  PROVE  IsFiniteSet(OKFFindings)
<1>1. IsFiniteSet(Docs)
  BY CorpusFacts
<1>2. ASSUME NEW kind, NEW docs \in SUBSET Docs
      PROVE  IsFiniteSet({Finding(kind, Error, d, 1) : d \in docs})
  <2> DEFINE fun == [d \in Docs |-> Finding(kind, Error, d, 1)]
             T == {Finding(kind, Error, d, 1) : d \in docs}
  <2>1. \A y \in T : \E d \in Docs : y = fun[d]
    OBVIOUS
  <2> HIDE DEF fun, T
  <2>2. IsFiniteSet(T)
    BY <1>1, <2>1, ImagesFinite
  <2>3. QED BY <2>2 DEF T
<1>3. ASSUME NEW d \in Docs PROVE IsFiniteSet({<<d, line>> : line \in UndatedLines(d)})
  <2> DEFINE S == 1..Len(Sections(d))
             fun == [i \in S |-> <<d, Sections(d)[i].from>>]
             T == {<<d, line>> : line \in UndatedLines(d)}
  <2>1. Len(Sections(d)) \in Nat /\ DOMAIN Sections(d) = S
    BY CorpusFacts
  <2>2. IsFiniteSet(S)
    BY <2>1, FS_Interval
  <2>3. \A y \in T : \E i \in S : y = fun[i]
    BY <2>1 DEF UndatedLines
  <2> HIDE DEF fun, S, T
  <2>4. IsFiniteSet(T)
    BY <2>2, <2>3, ImagesFinite
  <2>5. QED BY <2>4 DEF T
<1>4. IsFiniteSet(ReservedStructure)
  <2> DEFINE bad == {<<d, 1>> : d \in {e \in Docs : BadIndex(e)}}
             logs == {e \in Docs : IsLogFile(e)}
             T == {{<<d, line>> : line \in UndatedLines(d)} : d \in logs}
             fun == [d \in Docs |-> <<d, 1>>]
             gun == [d \in Docs |-> {<<d, line>> : line \in UndatedLines(d)}]
  <2>1. \A y \in bad : \E d \in Docs : y = fun[d]
    OBVIOUS
  <2>2. (\A y \in T : \E d \in Docs : y = gun[d]) /\ \A y \in T : IsFiniteSet(y)
    BY <1>3
  <2>3. ReservedStructure = bad \union UNION T
    BY DEF ReservedStructure
  <2> HIDE DEF bad, T, fun, gun
  <2>4. IsFiniteSet(bad) /\ IsFiniteSet(T)
    BY <1>1, <2>1, <2>2, ImagesFinite
  <2>5. IsFiniteSet(UNION T)
    BY <2>2, <2>4, FS_UNION
  <2>6. QED BY <2>3, <2>4, <2>5, FS_Union
<1>5. IsFiniteSet({Finding("okf-reserved-file-structure", Error, v[1], v[2]) : v \in ReservedStructure})
  <2> DEFINE fun == [v \in ReservedStructure |-> Finding("okf-reserved-file-structure", Error, v[1], v[2])]
             T == {Finding("okf-reserved-file-structure", Error, v[1], v[2]) : v \in ReservedStructure}
  <2>1. \A y \in T : \E v \in ReservedStructure : y = fun[v]
    OBVIOUS
  <2> HIDE DEF fun, T
  <2>2. IsFiniteSet(T)
    BY <1>4, <2>1, ImagesFinite
  <2>3. QED BY <2>2 DEF T
<1>6. QED
  <2> DEFINE a == {Finding("okf-missing-frontmatter", Error, d, 1) : d \in MissingFrontmatter}
             b == {Finding("okf-missing-type", Error, d, 1) : d \in MissingType}
             c == {Finding("okf-reserved-file-structure", Error, v[1], v[2]) : v \in ReservedStructure}
  <2>1. MissingFrontmatter \in SUBSET Docs /\ MissingType \in SUBSET Docs
    BY DEF MissingFrontmatter, MissingType, Concepts
  <2>2. IsFiniteSet(a) /\ IsFiniteSet(b) /\ IsFiniteSet(c)
    BY <1>2, <1>5, <2>1
  <2>3. OKFFindings = (a \union b) \union c
    BY DEF OKFFindings
  <2> HIDE DEF a, b, c
  <2>4. QED BY <2>2, <2>3, FS_Union

\* A report is finite, so that counting its findings means something.
LEMMA ReportFinite ==
  ASSUME IsBuilt, Unites, ab \in Search, refs = ResolveAll, NEW k
  PROVE  IsFiniteSet(AllFindings(DetectGaps(k).gaps, PredictLinks.suggestions, ComputeScent))
<1> DEFINE g == DetectGaps(k).gaps
           l == PredictLinks.suggestions
           s == ComputeScent
           bridges == {<<Min(b), Max(b)>> : b \in ab.bridges}
           links ==
             {[Finding("suggested-link", Info, x.a, 0) EXCEPT
                !.other = x.b, !.shared = x.shared, !.score = [num |-> x.adamicAdar, den |-> 1]] : x \in l}
           scents ==
             {[Finding("low-scent-anchor", Info, x.source, x.line) EXCEPT
                !.at = [target |-> Path(x.target[1]), frag |-> x.target[2], text |-> x.text],
                !.other = x.target[1], !.score = x.score] : x \in s}
           okf == IF config.okf THEN OKFFindings ELSE {}
<1>1. Given /\ IsFiniteSet(Docs) /\ IsFiniteSet(Docs \X Docs) /\ IsFiniteSet(Links)
  BY CorpusFacts, LinksFinite DEF IsBuilt
<1>2. IsFiniteSet(g)
  <2>1. \A p \in g : p \in Docs \X Docs
    <3> SUFFICES ASSUME NEW p \in g PROVE p \in Docs \X Docs
      OBVIOUS
    <3>1. p = <<p[1], p[2]>> /\ p[1] \in Docs /\ p[2] \in Docs
      BY <1>1, GapOf
    <3>2. QED BY <3>1
  <2> HIDE DEF g
  <2>2. g \subseteq Docs \X Docs
    BY <2>1
  <2>3. QED BY <1>1, <2>2, FS_Subset
<1>3. IsFiniteSet(bridges)
  <2> DEFINE fun == [b \in ab.bridges |-> <<Min(b), Max(b)>>]
             ends == [e \in Links |-> {e[1], e[2]}]
  <2>1. \A b \in ab.bridges : \E e \in Links : b = ends[e]
    BY DEF Search
  <2>2. \A y \in bridges : \E b \in ab.bridges : y = fun[b]
    OBVIOUS
  <2> HIDE DEF fun, ends, bridges
  <2>3. IsFiniteSet(ab.bridges)
    BY <1>1, <2>1, ImagesFinite
  <2>4. QED BY <2>2, <2>3, ImagesFinite
<1>4. IsFiniteSet(links)
  <2> DEFINE fun == [p \in Docs \X Docs |->
               [Finding("suggested-link", Info, Suggestion(p[1], p[2]).a, 0) EXCEPT
                !.other = Suggestion(p[1], p[2]).b, !.shared = Suggestion(p[1], p[2]).shared,
                !.score = [num |-> Suggestion(p[1], p[2]).adamicAdar, den |-> 1]]]
  <2>1. ASSUME NEW y \in links PROVE \E p \in Docs \X Docs : y = fun[p]
    <3>1. PICK x \in l : y = [Finding("suggested-link", Info, x.a, 0) EXCEPT
                !.other = x.b, !.shared = x.shared, !.score = [num |-> x.adamicAdar, den |-> 1]]
      BY <2>1
    <3>2. PICK p \in Docs \X Docs : x = Suggestion(p[1], p[2])
      BY DEF PredictLinks, Candidates
    <3>3. y = fun[p]
      BY <3>1, <3>2
    <3>4. QED BY <3>3
  <2> HIDE DEF fun, links
  <2>2. QED BY <1>1, <2>1, ImagesFinite
<1>5. IsFiniteSet(scents)
  <2> DEFINE fun == [e \in graph.edges |->
               [source |-> e.from[1], target |-> e.to, line |-> e.line, text |-> e.text,
                suggestion |-> Scored(e).suggestion, score |-> Scored(e).score]]
             gun == [x \in s |-> [Finding("low-scent-anchor", Info, x.source, x.line) EXCEPT
                !.at = [target |-> Path(x.target[1]), frag |-> x.target[2], text |-> x.text],
                !.other = x.target[1], !.score = x.score]]
  <2>1. IsFiniteSet(graph.edges)
    BY EdgesFinite
  <2>2. \A y \in s : \E e \in graph.edges : y = fun[e]
    BY DEF ComputeScent
  <2>3. \A y \in scents : \E x \in s : y = gun[x]
    OBVIOUS
  <2> HIDE DEF fun, gun, s, scents
  <2>4. IsFiniteSet(s)
    BY <2>1, <2>2, ImagesFinite
  <2>5. QED BY <2>3, <2>4, ImagesFinite
<1>6. /\ IsFiniteSet(FindingsFromReferences) /\ IsFiniteSet(DeadLinkFindings) /\ IsFiniteSet(okf)
  BY <1>1, OfReferencesFinite, OfRulesFinite, FS_EmptySet
<1>7. /\ Isolated \in SUBSET Docs /\ Unreachable \in SUBSET Docs /\ UnderLinked \in SUBSET Docs
      /\ DeadEnd \in SUBSET Docs /\ ab.aps \in SUBSET Docs /\ FarFromRoot \in SUBSET Docs
  BY DEF Isolated, Unreachable, UnderLinked, DeadEnd, FarFromRoot, Reached, Search
<1> DEFINE a == DocumentFindings("orphan", Warning, Isolated)
           b == DocumentFindings("unreachable", Warning, Unreachable)
           c == DocumentFindings("under-linked", StructureSeverity, UnderLinked)
           d == DocumentFindings("dead-end", StructureSeverity, DeadEnd)
           e == DocumentFindings("articulation-point", Info, ab.aps)
           f == DocumentFindings("far-from-root", Info, FarFromRoot)
           h == PairFindings("knowledge-gap", g)
           i == PairFindings("bridge", bridges)
<1>8. /\ IsFiniteSet(a) /\ IsFiniteSet(b) /\ IsFiniteSet(c) /\ IsFiniteSet(d) /\ IsFiniteSet(e)
      /\ IsFiniteSet(f)
  BY <1>1, <1>7, TiersFinite
<1>9. IsFiniteSet(h) /\ IsFiniteSet(i)
  <2> HIDE DEF g, bridges
  <2>1. QED BY <1>2, <1>3, PairsFinite
<1>10. FindingsFromMetrics(g, l, s) = a \union b \union c \union d \union e \union f \union h \union i
                                        \union links \union scents
  BY Zenon DEF FindingsFromMetrics
<1>11. AllFindings(g, l, s) = FindingsFromReferences \union FindingsFromMetrics(g, l, s)
                                \union DeadLinkFindings \union okf
  BY Zenon DEF AllFindings
<1> HIDE DEF a, b, c, d, e, f, g, h, i, l, s, links, scents, okf, bridges
<1>12. IsFiniteSet(((a \union b) \union (c \union d)) \union ((e \union f) \union (h \union i)))
  <2>1. IsFiniteSet(a \union b) /\ IsFiniteSet(c \union d) /\ IsFiniteSet(e \union f) /\ IsFiniteSet(h \union i)
    BY <1>8, <1>9, FS_Union
  <2>2. IsFiniteSet((a \union b) \union (c \union d)) /\ IsFiniteSet((e \union f) \union (h \union i))
    BY <2>1, FS_Union
  <2>3. QED BY <2>2, FS_Union
<1>13. IsFiniteSet(links \union scents)
  BY <1>4, <1>5, FS_Union
<1>14. IsFiniteSet(FindingsFromMetrics(g, l, s))
  <2>1. FindingsFromMetrics(g, l, s)
          = (((a \union b) \union (c \union d)) \union ((e \union f) \union (h \union i))) \union (links \union scents)
    BY <1>10
  <2>2. IsFiniteSet((((a \union b) \union (c \union d)) \union ((e \union f) \union (h \union i)))
                      \union (links \union scents))
    BY <1>12, <1>13, FS_Union
  <2>3. QED BY <2>1, <2>2
<1>15. IsFiniteSet(FindingsFromReferences \union FindingsFromMetrics(g, l, s)) /\ IsFiniteSet(DeadLinkFindings \union okf)
  BY <1>6, <1>14, FS_Union
<1>16. AllFindings(g, l, s) = (FindingsFromReferences \union FindingsFromMetrics(g, l, s)) \union (DeadLinkFindings \union okf)
  BY <1>11
<1>17. IsFiniteSet(AllFindings(g, l, s))
  BY <1>15, <1>16, FS_Union
<1>18. QED BY <1>17 DEF g, l, s

\* Equal tuples have equal parts.
LEMMA FiveParts ==
  ASSUME NEW a, NEW b, NEW c, NEW d, NEW e, NEW p, NEW q, NEW r, NEW s, NEW t,
         <<a, b, c, d, e>> = <<p, q, r, s, t>>
  PROVE  a = p /\ b = q /\ c = r /\ d = s /\ e = t
OBVIOUS

\* What makes a finding one that can be ranked.
LEMMA Ranked ==
  ASSUME NEW f, NEW doc \in Int, NEW line \in Int, NEW other \in Int, NEW text \in DOMAIN Collation,
         NEW frag \in DOMAIN Collation, NEW score, IsFraction(score), NEW shared \in Nat,
         f.doc = doc, f.line = line, f.other = other, f.at.text = text, f.at.frag = frag,
         f.score = score, f.shared = shared
  PROVE  IsRanked(f) /\ Place(f) = <<doc, line, other, Collation[text], Collation[frag]>>
<1>1. {f.at.text, f.at.frag} \subseteq DOMAIN Collation
  OBVIOUS
<1>2. f.doc \in Int /\ f.line \in Int /\ f.other \in Int /\ f.shared \in Nat /\ IsFraction(f.score)
  OBVIOUS
<1>3. IsRanked(f)
  BY <1>1, <1>2, Zenon DEF IsRanked
<1>4. QED BY <1>3 DEF Place

\* The score of a suggested link is a sum of weights.
LEMMA SuggestionTyped ==
  ASSUME IsBuilt, NEW x \in Candidates
  PROVE  x.adamicAdar \in Nat /\ x.shared \in Nat
<1> DEFINE S == Shared(x.a, x.b)
           fun == [c \in S |-> Weight[Cardinality(Neighbours(c))]]
<1>1. Docs \subseteq Nat /\ IsFiniteSet(Docs)
  BY CorpusFacts DEF IsBuilt
<1>2. x.a \in Docs /\ x.b \in Docs /\ x.a < x.b /\ x = Suggestion(x.a, x.b)
  BY SuggestionOf
<1>9. x.a # x.b
  <2> HIDE DEF S, fun
  <2>1. x.a \in Nat /\ x.b \in Nat /\ x.a < x.b
    BY <1>1, <1>2
  <2>2. QED BY <2>1
<1>3. S \subseteq Docs
  BY DEF Shared
<1>4. IsFiniteSet(S) /\ Cardinality(S) \in Nat
  <2> HIDE DEF S
  <2>1. QED BY <1>1, <1>3, FS_Subset, FS_CardinalityType
<1>5. ASSUME NEW c \in S PROVE Weight[Cardinality(Neighbours(c))] \in Nat
  <2>1. c \in Docs /\ c \notin Hubs /\ x.a \in Neighbours(c) /\ x.b \in Neighbours(c)
    BY DEF Shared
  <2>2. Neighbours(c) \subseteq Docs
    BY <2>1, NeighboursIn
  <2>3. IsFiniteSet(Neighbours(c)) /\ Cardinality(Neighbours(c)) \in Nat
    BY <1>1, <2>2, FS_Subset, FS_CardinalityType
  <2>4. Cardinality(Neighbours(c)) <= MaxFanout
    <3>1. ~(Cardinality(Neighbours(c)) > MaxFanout)
      BY <2>1 DEF Hubs
    <3>2. QED BY <2>3, <3>1, CapsAssumption
  <2>5. 2 <= Cardinality(Neighbours(c))
    <3> DEFINE N == Neighbours(c)
               M == N \ {x.b}
    <3>1. IsFiniteSet(M) /\ x.a \in M /\ Cardinality(M) = Cardinality(N) - 1
      <4>1. x.a # x.b
        BY <1>9
      <4>2. QED BY <2>1, <2>3, <4>1, FS_RemoveElement
    <3>2. Cardinality(M) \in Nat /\ Cardinality(M) # 0
      <4> HIDE DEF M
      <4>1. QED BY <3>1, FS_CardinalityType, FS_EmptySet
    <3>3. QED BY <2>3, <3>1, <3>2
  <2>6. Cardinality(Neighbours(c)) \in 2..MaxFanout
    BY <2>3, <2>4, <2>5, CapsAssumption
  <2>7. QED BY <2>6, WeightAssumption
<1>6. fun \in [S -> Nat]
  <2> HIDE DEF S
  <2>1. QED BY <1>5
<1>7. x.adamicAdar = SumFunction(fun) /\ x.shared = Cardinality(S)
  <2>1. /\ Suggestion(x.a, x.b).adamicAdar = SumFunction(fun)
        /\ Suggestion(x.a, x.b).shared = Cardinality(S)
    BY DEF Suggestion
  <2>2. QED BY <1>2, <2>1
<1> HIDE DEF S, fun
<1>8. QED BY <1>4, <1>6, <1>7, SumIsNat

\* The findings of a report that a prompt caps can be put in order: no two of a kind tie
\* in everything.
LEMMA ReportIsOrdered ==
  ASSUME IsBuilt, Unites, ab \in Search, refs = ResolveAll, NEW k
  PROVE  IsReport(AllFindings(DetectGaps(k).gaps, PredictLinks.suggestions, ComputeScent))
<1> DEFINE g == DetectGaps(k).gaps
           l == PredictLinks.suggestions
           s == ComputeScent
           all == AllFindings(g, l, s)
           L == {f \in all : f.kind = "suggested-link"}
           S == {f \in all : f.kind = "low-scent-anchor"}
<1>1. Docs \subseteq Int /\ "" \in DOMAIN Collation
  <2>1. Docs \subseteq Nat
    BY CorpusFacts DEF IsBuilt
  <2>2. Docs \subseteq Int
    BY <2>1
  <2>3. "" \in DOMAIN Collation
    BY InputsAssumption
  <2>4. QED BY <2>2, <2>3
<1>2. IsFiniteSet(all)
  BY ReportFinite
<1> HIDE DEF g, all, l, s
<1>3. ASSUME NEW f \in L
      PROVE  /\ f.severity = Info
             /\ \E x \in l :
                  f = [kind |-> "suggested-link", severity |-> Info, doc |-> x.a, line |-> 0,
                       at |-> [target |-> <<>>, frag |-> "", text |-> ""], other |-> x.b,
                       score |-> [num |-> x.adamicAdar, den |-> 1], shared |-> x.shared]
  <2>1. OfLink(f, l)
    BY KindsApart DEF all
  <2>2. QED BY <2>1 DEF OfLink
<1>4. ASSUME NEW f \in S
      PROVE  /\ f.severity = Info
             /\ \E x \in s :
                  f = [kind |-> "low-scent-anchor", severity |-> Info, doc |-> x.source, line |-> x.line,
                       at |-> [target |-> Path(x.target[1]), frag |-> x.target[2], text |-> x.text],
                       other |-> x.target[1], score |-> x.score, shared |-> 0]
  <2>1. OfScent(f, s)
    BY KindsApart DEF all
  <2>2. QED BY <2>1 DEF OfScent
<1>5. IsOrdered(L)
  <2>1. ASSUME NEW f \in L, NEW x \in l,
               f = [kind |-> "suggested-link", severity |-> Info, doc |-> x.a, line |-> 0,
                    at |-> [target |-> <<>>, frag |-> "", text |-> ""], other |-> x.b,
                    score |-> [num |-> x.adamicAdar, den |-> 1], shared |-> x.shared]
        PROVE  /\ IsRanked(f) /\ x = Suggestion(x.a, x.b)
               /\ Place(f) = <<x.a, 0, x.b, Collation[""], Collation[""]>>
    <3>1. /\ f.doc = x.a /\ f.line = 0 /\ f.other = x.b /\ f.at.text = "" /\ f.at.frag = ""
          /\ f.score.num = x.adamicAdar /\ f.score.den = 1 /\ f.shared = x.shared
      BY <2>1
    <3>2. x.adamicAdar \in Nat /\ x.shared \in Nat /\ x.a \in Docs /\ x.b \in Docs /\ x = Suggestion(x.a, x.b)
      BY Suggested, SuggestionTyped, SuggestionOf DEF l
    <3>3. x.a \in Int /\ x.b \in Int
      BY <1>1, <3>2, Zenon
    <3>4. f.score = [num |-> x.adamicAdar, den |-> 1]
      BY <2>1
    <3>5. IsFraction([num |-> x.adamicAdar, den |-> 1])
      <4> DEFINE n == x.adamicAdar
      <4>1. n \in Nat
        BY <3>2
      <4> HIDE DEF n
      <4>2. IsFraction([num |-> n, den |-> 1])
        BY <4>1 DEF IsFraction
      <4>3. QED BY <4>2 DEF n
    <3> DEFINE score == [num |-> x.adamicAdar, den |-> 1]
    <3>6. f.score = score /\ IsFraction(score) /\ 0 \in Int
      BY <3>4, <3>5
    <3> HIDE DEF score, L
    <3>7. IsRanked(f) /\ Place(f) = <<x.a, 0, x.b, Collation[""], Collation[""]>>
      <4>1. x.shared \in Nat
        BY <3>2
      <4>2. f.doc = x.a /\ f.line = 0 /\ f.other = x.b /\ f.at.text = "" /\ f.at.frag = ""
            /\ f.shared = x.shared
        BY <3>1
      <4>3. f.doc \in Int /\ f.other \in Int /\ f.at.text \in DOMAIN Collation /\ f.at.frag \in DOMAIN Collation
        BY <1>1, <3>3, <4>2, Zenon
      <4>4. f.line \in Int /\ f.shared \in Nat /\ IsFraction(f.score)
        BY <3>6, <4>1, <4>2
      <4>5. IsRanked(f)
        <5>1. {f.at.text, f.at.frag} \subseteq DOMAIN Collation
          BY <4>3, Zenon
        <5>2. QED BY <4>3, <4>4, <5>1, Zenon DEF IsRanked
      <4>6. QED BY <4>2, <4>5 DEF Place
    <3>8. QED BY <3>2, <3>7
  <2>2. \A f \in L : IsRanked(f)
    BY <1>3, <2>1
  <2>3. ASSUME NEW f \in L, NEW h \in L, Place(f) = Place(h) PROVE f = h
    <3>1. PICK x \in l :
                  f = [kind |-> "suggested-link", severity |-> Info, doc |-> x.a, line |-> 0,
                       at |-> [target |-> <<>>, frag |-> "", text |-> ""], other |-> x.b,
                       score |-> [num |-> x.adamicAdar, den |-> 1], shared |-> x.shared]
      BY <1>3
    <3>2. PICK y \in l :
                  h = [kind |-> "suggested-link", severity |-> Info, doc |-> y.a, line |-> 0,
                       at |-> [target |-> <<>>, frag |-> "", text |-> ""], other |-> y.b,
                       score |-> [num |-> y.adamicAdar, den |-> 1], shared |-> y.shared]
      BY <1>3
    <3>3. /\ x = Suggestion(x.a, x.b) /\ Place(f) = <<x.a, 0, x.b, Collation[""], Collation[""]>>
      BY <2>1, <3>1
    <3>4. /\ y = Suggestion(y.a, y.b) /\ Place(h) = <<y.a, 0, y.b, Collation[""], Collation[""]>>
      BY <2>1, <3>2
    <3>5. x.a = y.a /\ x.b = y.b
      <4>1. <<x.a, 0, x.b, Collation[""], Collation[""]>> = <<y.a, 0, y.b, Collation[""], Collation[""]>>
        BY <2>3, <3>3, <3>4
      <4>2. QED BY <4>1, FiveParts
    <3>6. x = y
      BY <3>3, <3>4, <3>5
    <3>7. QED BY <3>1, <3>2, <3>6
  <2>4. QED BY <2>2, <2>3 DEF IsOrdered
<1>6. IsOrdered(S)
  <2>1. ASSUME NEW f \in S, NEW x \in s,
               f = [kind |-> "low-scent-anchor", severity |-> Info, doc |-> x.source, line |-> x.line,
                       at |-> [target |-> Path(x.target[1]), frag |-> x.target[2], text |-> x.text],
                       other |-> x.target[1], score |-> x.score, shared |-> 0]
        PROVE  /\ IsRanked(f)
               /\ Place(f) = <<x.source, x.line, x.target[1], Collation[x.text], Collation[x.target[2]]>>
    <3>1. /\ f.doc = x.source /\ f.line = x.line /\ f.other = x.target[1] /\ f.at.text = x.text
          /\ f.at.frag = x.target[2] /\ f.score = x.score /\ f.shared = 0
      BY <2>1
    <3>2. /\ x.source \in Docs /\ x.line \in Int /\ x.text \in DOMAIN Collation
          /\ x.target[1] \in Docs /\ x.target[2] \in DOMAIN Collation /\ IsFraction(x.score)
      BY ScentOf, ScentScoreTyped DEF s
    <3>3. x.source \in Int /\ x.target[1] \in Int
      BY <1>1, <3>2, Zenon
    <3>4. IsRanked(f) /\ Place(f) = <<x.source, x.line, x.target[1], Collation[x.text], Collation[x.target[2]]>>
      <4> DEFINE doc == x.source
                 line == x.line
                 text == x.text
                 score == x.score
                 other == x.target[1]
                 frag == x.target[2]
                 none == 0
      <4>1. /\ f.doc = doc /\ f.line = line /\ f.other = other /\ f.at.text = text
            /\ f.at.frag = frag /\ f.score = score /\ f.shared = none
        BY <3>1
      <4>2. /\ doc \in Int /\ line \in Int /\ other \in Int /\ text \in DOMAIN Collation
            /\ frag \in DOMAIN Collation /\ IsFraction(score) /\ none \in Nat
        BY <3>2, <3>3
      <4> HIDE DEF S, doc, line, text, score, other, frag, none
      <4>3. IsRanked(f) /\ Place(f) = <<doc, line, other, Collation[text], Collation[frag]>>
        BY <4>1, <4>2, Ranked
      <4>4. QED BY <4>3 DEF doc, line, text, other, frag
    <3>5. QED BY <3>4
  <2>2. \A f \in S : IsRanked(f)
    BY <1>4, <2>1
  <2>3. ASSUME NEW f \in S, NEW h \in S, Place(f) = Place(h) PROVE f = h
    <3>1. PICK x \in s :
               f = [kind |-> "low-scent-anchor", severity |-> Info, doc |-> x.source, line |-> x.line,
                       at |-> [target |-> Path(x.target[1]), frag |-> x.target[2], text |-> x.text],
                       other |-> x.target[1], score |-> x.score, shared |-> 0]
      BY <1>4
    <3>2. PICK y \in s :
               h = [kind |-> "low-scent-anchor", severity |-> Info, doc |-> y.source, line |-> y.line,
                       at |-> [target |-> Path(y.target[1]), frag |-> y.target[2], text |-> y.text],
                       other |-> y.target[1], score |-> y.score, shared |-> 0]
      BY <1>4
    <3>3. Place(f) = <<x.source, x.line, x.target[1], Collation[x.text], Collation[x.target[2]]>>
      BY <2>1, <3>1
    <3>4. Place(h) = <<y.source, y.line, y.target[1], Collation[y.text], Collation[y.target[2]]>>
      BY <2>1, <3>2
    <3>5. /\ x.source = y.source /\ x.line = y.line /\ x.target[1] = y.target[1]
          /\ Collation[x.text] = Collation[y.text] /\ Collation[x.target[2]] = Collation[y.target[2]]
      <4>1. <<x.source, x.line, x.target[1], Collation[x.text], Collation[x.target[2]]>>
              = <<y.source, y.line, y.target[1], Collation[y.text], Collation[y.target[2]]>>
        BY <2>3, <3>3, <3>4
      <4>2. QED BY <4>1, FiveParts
    <3>6. /\ x.text \in DOMAIN Collation /\ y.text \in DOMAIN Collation
          /\ x.target[2] \in DOMAIN Collation /\ y.target[2] \in DOMAIN Collation
      BY ScentOf DEF s
    <3>7. x.text = y.text /\ x.target[2] = y.target[2]
      BY <3>5, <3>6, TextsAssumption
    <3>8. /\ x.score = ScentScore(EffectiveAnchor(x.text, x.target[1]), ScentCandidates(x.target[1], x.target[2])).score
          /\ y.score = ScentScore(EffectiveAnchor(y.text, y.target[1]), ScentCandidates(y.target[1], y.target[2])).score
      BY ScentOf DEF s
    <3>9. x.score = y.score
      BY <3>5, <3>7, <3>8
    <3>10. QED BY <3>1, <3>2, <3>5, <3>7, <3>9
  <2>4. QED BY <2>2, <2>3 DEF IsOrdered
<1>7. IsReport(all)
  BY <1>2, <1>3, <1>4, <1>5, <1>6 DEF IsReport
<1>8. QED BY <1>7 DEF all, g, l, s

\* A count is positive if there is something to count.
LEMMA CountsAre ==
  ASSUME NEW all, IsFiniteSet(all), NEW k
  PROVE  /\ CountByKind(all, k) \in Nat
         /\ CountByKind(all, k) > 0 <=> \E f \in all : f.kind = k
<1> DEFINE of == {f \in all : f.kind = k}
<1>1. of \subseteq all /\ CountByKind(all, k) = Cardinality(of) /\ (of # {} <=> \E f \in all : f.kind = k)
  BY DEF CountByKind
<1> HIDE DEF of
<1>2. IsFiniteSet(of) /\ Cardinality(of) \in Nat /\ (Cardinality(of) = 0 <=> of = {})
  BY <1>1, FS_Subset, FS_CardinalityType, FS_EmptySet
<1>3. QED BY <1>1, <1>2

\* What the exit code says of the findings.
LEMMA ExitMeans ==
  ASSUME NEW all, IsFiniteSet(all), NEW strict \in BOOLEAN
  PROVE  CheckExitCode(all, strict) = 1 <=>
           \/ config.okf /\ ~Conformant
           \/ \E f \in all : f.kind \in {"broken-link", "broken-anchor"}
           \/ strict /\ \E f \in all : f.kind \in {"ambiguous", "orphan", "unreachable"}
           \/ strict /\ config.structureWarns /\ \E f \in all : f.kind \in {"under-linked", "dead-end"}
<1> DEFINE Some(kinds) == \E k \in kinds : CountByKind(all, k) > 0
<1>1. \A kinds : Some(kinds) <=> \E f \in all : f.kind \in kinds
  BY CountsAre
<1>2. CheckExitCode(all, strict) = 1 <=>
           \/ config.okf /\ ~Conformant
           \/ Some({"broken-link", "broken-anchor"})
           \/ strict /\ Some({"ambiguous", "orphan", "unreachable"})
           \/ strict /\ config.structureWarns /\ Some({"under-linked", "dead-end"})
  BY DEF CheckExitCode
<1> HIDE DEF Some
<1>3. QED BY <1>1, <1>2

\* The kinds that gate are the severities that gate.
LEMMA GateIsSeverity ==
  ASSUME NEW g, NEW l, NEW s, config.structureWarns \in BOOLEAN
  PROVE  LET all == AllFindings(g, l, s) IN
         /\ (\E f \in all : f.severity = Error)
              <=> \/ config.okf /\ ~Conformant
                  \/ \E f \in all : f.kind \in {"broken-link", "broken-anchor"}
         /\ (\E f \in all : f.severity = Warning /\ f.kind # "dead-link")
              <=> \/ \E f \in all : f.kind \in {"ambiguous", "orphan", "unreachable"}
                  \/ config.structureWarns /\ \E f \in all : f.kind \in {"under-linked", "dead-end"}
<1> DEFINE all == AllFindings(g, l, s)
<1>1. ASSUME NEW f \in all
      PROVE  /\ f.severity = Error => \/ config.okf /\ ~Conformant
                                      \/ f.kind \in {"broken-link", "broken-anchor"}
             /\ f.kind \in {"broken-link", "broken-anchor"} => f.severity = Error
             /\ f.severity = Warning /\ f.kind # "dead-link"
                  <=> \/ f.kind \in {"ambiguous", "orphan", "unreachable"}
                      \/ config.structureWarns /\ f.kind \in {"under-linked", "dead-end"}
  <2>1. \/ OfReference(f) \/ OfDocument(f)
        \/ OfPair(f, "knowledge-gap", g) \/ OfPair(f, "bridge", {<<Min(b), Max(b)>> : b \in ab.bridges})
        \/ OfLink(f, l) \/ OfScent(f, s) \/ OfOKF(f)
    BY ReportKinds
  <2>2. StructureSeverity = IF config.structureWarns THEN Warning ELSE Info
    BY DEF StructureSeverity
  <2>3. CASE OfReference(f)
    BY <2>3 DEF OfReference, Error, Warning
  <2>4. CASE OfDocument(f)
    <3>1. \/ f.kind \in {"orphan", "unreachable"} /\ f.severity = Warning
          \/ f.kind \in {"under-linked", "dead-end"} /\ f.severity = StructureSeverity
          \/ f.kind \in {"articulation-point", "far-from-root"} /\ f.severity = Info
      BY <2>4, Zenon DEF OfDocument, OfTier
    <3>2. QED BY <2>2, <3>1 DEF Error, Warning, Info
  <2>5. CASE OfPair(f, "knowledge-gap", g) \/ OfPair(f, "bridge", {<<Min(b), Max(b)>> : b \in ab.bridges})
    <3>1. f.kind \in {"knowledge-gap", "bridge"} /\ f.severity = Info
      BY <2>5, Zenon DEF OfPair
    <3>2. QED BY <3>1 DEF Error, Warning, Info
  <2>6. CASE OfLink(f, l) \/ OfScent(f, s)
    <3>1. f.kind \in {"suggested-link", "low-scent-anchor"} /\ f.severity = Info
      BY <2>6, Zenon DEF OfLink, OfScent
    <3>2. QED BY <3>1 DEF Error, Warning, Info
  <2>7. CASE OfOKF(f)
    BY <2>7 DEF OfOKF, Error, Warning
  <2>8. QED BY <2>1, <2>3, <2>4, <2>5, <2>6, <2>7
<1>2. ASSUME config.okf, ~Conformant PROVE \E f \in all : f.severity = Error
  <2>1. OKFFindings \subseteq all
    BY <1>2, ReportHolds
  <2>2. \A k, d, n : Finding(k, Error, d, n).severity = Error
    BY DEF Finding
  <2>3. (\E d : d \in MissingFrontmatter) \/ (\E d : d \in MissingType) \/ (\E v : v \in ReservedStructure)
    BY <1>2 DEF Conformant
  <2>4. \E f \in OKFFindings : f.severity = Error
    <3>1. ASSUME NEW d \in MissingFrontmatter PROVE Finding("okf-missing-frontmatter", Error, d, 1) \in OKFFindings
      BY DEF OKFFindings
    <3>2. ASSUME NEW d \in MissingType PROVE Finding("okf-missing-type", Error, d, 1) \in OKFFindings
      BY DEF OKFFindings
    <3>3. ASSUME NEW v \in ReservedStructure
          PROVE  Finding("okf-reserved-file-structure", Error, v[1], v[2]) \in OKFFindings
      BY DEF OKFFindings
    <3>4. QED BY <2>2, <2>3, <3>1, <3>2, <3>3
  <2>5. QED BY <2>1, <2>4
<1> HIDE DEF all
<1>3. (\E f \in all : f.severity = Error)
              <=> \/ config.okf /\ ~Conformant
                  \/ \E f \in all : f.kind \in {"broken-link", "broken-anchor"}
  BY <1>1, <1>2
<1>4. (\E f \in all : f.severity = Warning /\ f.kind # "dead-link")
              <=> \/ \E f \in all : f.kind \in {"ambiguous", "orphan", "unreachable"}
                  \/ config.structureWarns /\ \E f \in all : f.kind \in {"under-linked", "dead-end"}
  BY <1>1
<1>5. QED BY <1>3, <1>4 DEF all

\* A prompt for kinds shows all of them but what is excluded.
LEMMA KindsPrompt ==
  ASSUME NEW all, IsFiniteSet(all), NEW k
  PROVE  LET asked == SelectFindings(all, [mode |-> "kinds", kinds |-> {k}]) IN
         CountByKind(all, k) = Cardinality(asked.kept) + asked.excluded
<1> DEFINE opts == [mode |-> "kinds", kinds |-> {k}]
           chosen == {f \in all : f.kind \in opts.kinds}
           surfaced == {f \in chosen : ~ExcludedAdvisory(f)}
           asked == SelectFindings(all, opts)
           of == {f \in all : f.kind = k}
<1>1. opts.mode = "kinds" /\ opts.kinds = {k}
  OBVIOUS
<1>2. chosen = of
  OBVIOUS
<1> HIDE DEF opts
<1>3. asked = [kept |-> surfaced, excluded |-> Cardinality(chosen) - Cardinality(surfaced), omitted |-> 0]
  BY <1>1, SMT DEF SelectFindings
<1>4. asked.kept = surfaced /\ asked.excluded = Cardinality(chosen) - Cardinality(surfaced)
  <2> HIDE DEF asked, surfaced, chosen
  <2>1. QED BY <1>3
<1>5. surfaced \subseteq chosen /\ chosen \subseteq all /\ CountByKind(all, k) = Cardinality(of)
  BY DEF CountByKind
<1> HIDE DEF chosen, surfaced, asked, of
<1>6. Cardinality(chosen) \in Nat /\ Cardinality(surfaced) \in Nat
  BY <1>5, FS_Subset, FS_CardinalityType
<1>7. CountByKind(all, k) = Cardinality(asked.kept) + asked.excluded
  BY <1>2, <1>4, <1>5, <1>6
<1>8. QED BY <1>7 DEF asked, opts

\* What the exit code counts by kind a prompt keeps by severity.
LEMMA PromptHolds ==
  ASSUME IndInv
  PROVE  PromptKeepsTheGate
<1> SUFFICES ASSUME Done PROVE PromptKeepsTheGate
  BY DEF PromptKeepsTheGate
<1> DEFINE g == DetectGaps(config.minGap).gaps
           l == PredictLinks.suggestions
           all == report.findings
           shown == Prompt("default")
           advisory == {f \in all : f.severity = Info}
           capped   == {f \in all : f.kind \in {"suggested-link", "low-scent-anchor"}}
<1>1. /\ IsBuilt /\ Given /\ Unites /\ ab \in Search /\ refs = ResolveAll
      /\ all = AllFindings(g, l, ComputeScent)
  <2>1. stage = "done"
    BY DEF Done
  <2>2. BaseInv /\ IsBuilt /\ Given /\ refs = ResolveAll
    BY <2>1, BuiltGraph DEF IndInv, BaseInv
  <2>3. Unites /\ ab \in Search
    BY <2>1 DEF IndInv, UfInv, Early, AbInv
  <2>4. all = AllFindings(g, l, ComputeScent)
    BY <2>1 DEF IndInv, ReportInv
  <2>5. QED BY <2>2, <2>3, <2>4
<1>2. IsReport(all) /\ IsFiniteSet(all)
  BY <1>1, ReportIsOrdered DEF IsReport
<1>3. config.structureWarns \in BOOLEAN
  BY <1>1 DEF Given, IsConfig
<1>4. /\ (\E f \in all : f.severity = Error)
              <=> \/ config.okf /\ ~Conformant
                  \/ \E f \in all : f.kind \in {"broken-link", "broken-anchor"}
      /\ (\E f \in all : f.severity = Warning /\ f.kind # "dead-link")
              <=> \/ \E f \in all : f.kind \in {"ambiguous", "orphan", "unreachable"}
                  \/ config.structureWarns /\ \E f \in all : f.kind \in {"under-linked", "dead-end"}
  <2> HIDE DEF g, l
  <2>1. QED BY <1>1, <1>3, GateIsSeverity
<1> HIDE DEF g, l
<1>5. /\ shown.kept \subseteq all
      /\ all \ advisory \subseteq shown.kept
      /\ Cardinality(all) = Cardinality(shown.kept) + shown.excluded + shown.omitted
      /\ \A f, h \in all :
           /\ f.kind \in {"suggested-link", "low-scent-anchor"} /\ h.kind = f.kind
           /\ f \notin shown.kept /\ h \in shown.kept /\ ~ExcludedAdvisory(f)
           => ~Outranks(f, h)
  BY <1>2, DefaultPrompt DEF Prompt
<1>6. Prompt("errors").kept = {f \in all : f.severity = Error}
  <2> DEFINE opts == [mode |-> "errors", kinds |-> {}]
  <2>1. opts.mode = "errors"
    OBVIOUS
  <2> HIDE DEF opts
  <2>2. SelectFindings(all, opts) = [kept |-> {f \in all : f.severity = Error}, excluded |-> 0, omitted |-> 0]
    BY <2>1, SMT DEF SelectFindings
  <2>3. SelectFindings(all, opts).kept = {f \in all : f.severity = Error}
    BY <2>2
  <2>4. QED BY <2>3 DEF Prompt, opts
<1> HIDE DEF shown
<1>7. \A f \in all : f.severity # Info => f \in shown.kept
  BY <1>5
<1>8. ASSUME NEW strict \in BOOLEAN
      PROVE  CheckExitCode(all, strict) = 1 <=>
               \E f \in shown.kept : \/ f.severity = Error
                                     \/ strict /\ f.severity = Warning /\ f.kind # "dead-link"
  <2>1. CheckExitCode(all, strict) = 1 <=>
           \/ \E f \in all : f.severity = Error
           \/ strict /\ \E f \in all : f.severity = Warning /\ f.kind # "dead-link"
    BY <1>2, <1>3, <1>4, ExitMeans
  <2>2. \A f \in all : f.severity \in {Error, Warning} => f \in shown.kept
    BY <1>7 DEF Error, Warning, Info
  <2>3. shown.kept \subseteq all
    BY <1>5
  <2> HIDE DEF all
  <2>4. QED BY <2>1, <2>2, <2>3
<1>9. CheckExitCode(all, FALSE) = 1 <=> Prompt("errors").kept # {}
  <2>1. CheckExitCode(all, FALSE) = 1 <=> \E f \in all : f.severity = Error
    BY <1>2, <1>4, ExitMeans
  <2> HIDE DEF all
  <2>2. QED BY <1>6, <2>1
<1>10. \A k : LET asked == SelectFindings(all, [mode |-> "kinds", kinds |-> {k}]) IN
              CountByKind(all, k) = Cardinality(asked.kept) + asked.excluded
  BY <1>2, KindsPrompt
<1>11. \A f \in capped \ shown.kept : ~ExcludedAdvisory(f) =>
         ~\E h \in capped \intersect shown.kept : h.kind = f.kind /\ Outranks(f, h)
  BY <1>5
<1>12. QED BY <1>5, <1>6, <1>8, <1>9, <1>10, <1>11 DEF PromptKeepsTheGate, shown

-----------------------------------------------------------------------------
(* Lists that are cut.                                                     *)

\* Of a finite ordered set the first k are k at most, and all if there are no more.
LEMMA FewAreFirst ==
  ASSUME NEW S, IsFiniteSet(S), NEW R, Irreflexive(R), Transitive(S, R), Total(S, R), NEW k \in Nat
  PROVE  LET few == {x \in S : Cardinality(Under(S, R, x)) < k} IN
         /\ Cardinality(few) <= k
         /\ Cardinality(S) <= k => few = S
<1> DEFINE few == {x \in S : Cardinality(Under(S, R, x)) < k}
<1>1. Cardinality(S) \in Nat
  BY FS_CardinalityType
<1>2. CASE Cardinality(S) <= k
  <2>1. ASSUME NEW x \in S PROVE Cardinality(Under(S, R, x)) < k
    <3>1. Under(S, R, x) \in SUBSET S /\ x \notin Under(S, R, x)
      BY DEF Under, Irreflexive
    <3>2. /\ Cardinality(Under(S, R, x)) \in Nat /\ Cardinality(Under(S, R, x)) <= Cardinality(S)
          /\ Cardinality(Under(S, R, x)) = Cardinality(S) => Under(S, R, x) = S
      BY <3>1, FS_Subset, FS_CardinalityType
    <3>3. Cardinality(Under(S, R, x)) # Cardinality(S)
      BY <3>1, <3>2
    <3>4. QED BY <1>1, <1>2, <3>2, <3>3
  <2>2. few = S
    BY <2>1
  <2>3. QED BY <1>2, <2>2
<1>3. CASE ~(Cardinality(S) <= k)
  <2>1. k <= Cardinality(S)
    BY <1>1, <1>3
  <2>2. Cardinality(few) = k
    BY <2>1, FirstFew
  <2> HIDE DEF few
  <2>3. QED BY <1>3, <2>2 DEF few
<1>4. QED BY <1>2, <1>3

\* Suggestions are in a strict total order.
LEMMA AboveOrders ==
  ASSUME IsBuilt
  PROVE  LET R == {p \in Candidates \X Candidates : Above(p[1], p[2])} IN
         Irreflexive(R) /\ Transitive(Candidates, R) /\ Total(Candidates, R)
<1> DEFINE R == {p \in Candidates \X Candidates : Above(p[1], p[2])}
<1>1. ASSUME NEW x \in Candidates
      PROVE  /\ x.adamicAdar \in Nat /\ x.shared \in Nat /\ x.a \in Nat /\ x.b \in Nat
             /\ x = Suggestion(x.a, x.b)
  <2>1. Docs \subseteq Nat
    BY CorpusFacts DEF IsBuilt
  <2>2. x.a \in Docs /\ x.b \in Docs /\ x = Suggestion(x.a, x.b) /\ x.adamicAdar \in Nat /\ x.shared \in Nat
    BY SuggestionOf, SuggestionTyped
  <2>3. QED BY <2>1, <2>2
<1>2. \A x \in Candidates : ~Above(x, x)
  BY <1>1 DEF Above
<1>3. ASSUME NEW x \in Candidates, NEW y \in Candidates, NEW z \in Candidates, Above(x, y), Above(y, z)
      PROVE  Above(x, z)
  BY <1>1, <1>3 DEF Above
<1>4. ASSUME NEW x \in Candidates, NEW y \in Candidates, ~Above(x, y), ~Above(y, x)
      PROVE  x = y
  <2>1. x.a = y.a /\ x.b = y.b
    BY <1>1, <1>4 DEF Above
  <2>2. QED BY <1>1, <2>1
<1>5. \A x, y : <<x, y>> \in R <=> x \in Candidates /\ y \in Candidates /\ Above(x, y)
  OBVIOUS
<1> HIDE DEF R
<1>6. Irreflexive(R)
  BY <1>2, <1>5 DEF Irreflexive
<1>7. Transitive(Candidates, R)
  BY <1>3, <1>5 DEF Transitive
<1>8. Total(Candidates, R)
  BY <1>4, <1>5 DEF Total
<1>9. QED BY <1>6, <1>7, <1>8 DEF R

\* There are finitely many suggestions.
LEMMA CandidatesFinite ==
  ASSUME Given
  PROVE  IsFiniteSet(Candidates)
<1> DEFINE fun == [p \in Docs \X Docs |-> Suggestion(p[1], p[2])]
<1>1. ASSUME NEW y \in Candidates PROVE \E p \in Docs \X Docs : y = fun[p]
  <2>1. PICK p \in Docs \X Docs : y = Suggestion(p[1], p[2])
    BY DEF Candidates
  <2>2. QED BY <2>1
<1>2. IsFiniteSet(Docs \X Docs)
  BY LinksFinite
<1> HIDE DEF fun
<1>3. QED BY <1>1, <1>2, ImagesFinite

\* The suggestions kept are no more than the cap, and it is reported if they are not all.
LEMMA SuggestionsAreCut ==
  ASSUME IsBuilt
  PROVE  /\ Cardinality(PredictLinks.suggestions) <= MaxSuggestedLinks
         /\ PredictLinks.truncated \/ (Hubs = {} /\ PredictLinks.suggestions = Candidates)
<1> DEFINE R == {p \in Candidates \X Candidates : Above(p[1], p[2])}
           few == {s \in Candidates : Cardinality(Under(Candidates, R, s)) < MaxSuggestedLinks}
<1>1. IsFiniteSet(Candidates) /\ MaxSuggestedLinks \in Nat
  BY CandidatesFinite, CapsAssumption DEF IsBuilt
<1>2. Irreflexive(R) /\ Transitive(Candidates, R) /\ Total(Candidates, R)
  BY AboveOrders
<1>3. \A s \in Candidates : {t \in Candidates : Above(t, s)} = Under(Candidates, R, s)
  BY DEF Under
<1>4. {s \in Candidates : Cardinality({t \in Candidates : Above(t, s)}) < MaxSuggestedLinks} = few
  BY <1>3
<1>5. /\ PredictLinks.suggestions =
           {s \in Candidates : Cardinality({t \in Candidates : Above(t, s)}) < MaxSuggestedLinks}
      /\ PredictLinks.truncated = (Hubs # {} \/ Cardinality(Candidates) > MaxSuggestedLinks)
  BY DEF PredictLinks
<1> HIDE DEF R
<1>6. /\ Cardinality(few) <= MaxSuggestedLinks
      /\ Cardinality(Candidates) <= MaxSuggestedLinks => few = Candidates
  BY <1>1, <1>2, FewAreFirst
<1>7. Cardinality(Candidates) \in Nat
  BY <1>1, FS_CardinalityType
<1> HIDE DEF few
<1>8. PredictLinks.suggestions = few
  BY <1>4, <1>5
<1>9. PredictLinks.truncated \/ (Hubs = {} /\ Cardinality(Candidates) <= MaxSuggestedLinks)
  <2>1. PredictLinks.truncated \/ (Hubs = {} /\ ~(Cardinality(Candidates) > MaxSuggestedLinks))
    BY <1>5, Zenon
  <2>2. QED BY <1>1, <1>7, <2>1
<1>10. QED BY <1>6, <1>8, <1>9

\* So are the gaps.
LEMMA GapsAreCut ==
  ASSUME Given, Unites, NEW k
  PROVE  LET kept  == {c \in WCC : Cardinality(c) >= IF k < 2 THEN 2 ELSE k}
             gaps  == {p \in {<<Min(a), Min(b)>> : a, b \in kept} : p[1] < p[2]} IN
         /\ Cardinality(DetectGaps(k).gaps) <= MaxGaps
         /\ DetectGaps(k).truncated \/ DetectGaps(k).gaps = gaps
<1> DEFINE kept  == {c \in WCC : Cardinality(c) >= IF k < 2 THEN 2 ELSE k}
           gaps  == {p \in {<<Min(a), Min(b)>> : a, b \in kept} : p[1] < p[2]}
           Lesser(q, p) == q[1] < p[1] \/ (q[1] = p[1] /\ q[2] < p[2])
           R == {r \in gaps \X gaps : Lesser(r[1], r[2])}
           few == {p \in gaps : Cardinality(Under(gaps, R, p)) < MaxGaps}
<1>1. /\ DetectGaps(k).gaps = {p \in gaps : Cardinality({q \in gaps : Lesser(q, p)}) < MaxGaps}
      /\ DetectGaps(k).truncated = (Cardinality(gaps) > MaxGaps)
  BY DEF DetectGaps
<1>2. ASSUME NEW p \in gaps PROVE p = <<p[1], p[2]>> /\ p[1] \in Docs /\ p[2] \in Docs
  <2>1. PICK a \in kept : \E b \in kept : p = <<Min(a), Min(b)>>
    OBVIOUS
  <2>2. PICK b \in kept : p = <<Min(a), Min(b)>>
    BY <2>1
  <2>3. \A c \in WCC : Min(c) \in Docs
    BY WeakLeast
  <2>4. Min(a) \in Docs /\ Min(b) \in Docs
    BY <2>1, <2>2, <2>3
  <2> DEFINE u == Min(a)
             v == Min(b)
  <2>5. p = <<u, v>> /\ u \in Docs /\ v \in Docs
    BY <2>2, <2>4
  <2> HIDE DEF u, v, gaps, kept
  <2>6. QED BY <2>5
<1> HIDE DEF gaps
<1>3. IsFiniteSet(gaps) /\ MaxGaps \in Nat /\ Docs \subseteq Nat
  <2>1. gaps \subseteq Docs \X Docs
    BY <1>2
  <2>2. IsFiniteSet(Docs \X Docs)
    BY LinksFinite
  <2>3. QED BY <2>1, <2>2, FS_Subset, CapsAssumption, CorpusFacts
<1>4. \A x, y : <<x, y>> \in R <=> x \in gaps /\ y \in gaps /\ Lesser(x, y)
  OBVIOUS
<1>5. \A x \in gaps : x[1] \in Nat /\ x[2] \in Nat
  BY <1>2, <1>3
<1>6. \A x, y \in gaps : x[1] = y[1] /\ x[2] = y[2] => x = y
  BY <1>2
<1> HIDE DEF R
<1>7. Irreflexive(R)
  BY <1>4, <1>5 DEF Irreflexive
<1>8. Transitive(gaps, R)
  <2>1. ASSUME NEW x \in gaps, NEW y \in gaps, NEW z \in gaps, Lesser(x, y), Lesser(y, z)
        PROVE  Lesser(x, z)
    BY <1>5, <2>1
  <2> HIDE DEF Lesser
  <2>2. QED BY <1>4, <2>1 DEF Transitive
<1>9. Total(gaps, R)
  <2>1. ASSUME NEW x \in gaps, NEW y \in gaps PROVE x = y \/ Lesser(x, y) \/ Lesser(y, x)
    BY <1>5, <1>6
  <2> HIDE DEF Lesser
  <2>2. QED BY <1>4, <2>1 DEF Total
<1>10. /\ Cardinality(few) <= MaxGaps
       /\ Cardinality(gaps) <= MaxGaps => few = gaps
  BY <1>3, <1>7, <1>8, <1>9, FewAreFirst
<1>11. \A p \in gaps : {q \in gaps : Lesser(q, p)} = Under(gaps, R, p)
  BY <1>4 DEF Under
<1>12. {p \in gaps : Cardinality({q \in gaps : Lesser(q, p)}) < MaxGaps} = few
  BY <1>11
<1>13. Cardinality(gaps) \in Nat
  BY <1>3, FS_CardinalityType
<1> HIDE DEF few, Lesser
<1>14. DetectGaps(k).gaps = few
  BY <1>1, <1>12
<1>15. DetectGaps(k).truncated \/ Cardinality(gaps) <= MaxGaps
  <2>1. DetectGaps(k).truncated \/ ~(Cardinality(gaps) > MaxGaps)
    BY <1>1, Zenon
  <2>2. QED BY <1>3, <1>13, <2>1
<1>16. QED BY <1>10, <1>14, <1>15 DEF gaps

\* What a report leaves out it owns up to.
LEMMA CapsHold ==
  ASSUME IndInv
  PROVE  CapsAreReported
<1> SUFFICES ASSUME Measured PROVE CapsAreReported
  BY DEF CapsAreReported
<1> DEFINE links == report.links
           Common(p) == {c \in Docs : {p[1], p[2]} \subseteq Neighbours(c)}
           kept  == {c \in WCC : Cardinality(c) >= IF config.minGap < 2 THEN 2 ELSE config.minGap}
           gaps  == {p \in {<<Min(a), Min(b)>> : a, b \in kept} : p[1] < p[2]}
<1>1. /\ IsBuilt /\ Given /\ Unites
      /\ links = PredictLinks /\ report.gaps = DetectGaps(config.minGap)
  <2>1. stage = "rank"
    BY DEF Measured
  <2>2. BaseInv /\ IsBuilt /\ Given
    BY <2>1, BuiltGraph DEF IndInv, BaseInv
  <2>3. Unites
    BY <2>1 DEF IndInv, UfInv, Early
  <2>4. links = PredictLinks /\ report.gaps = DetectGaps(config.minGap)
    BY <2>1 DEF IndInv, ReportInv
  <2>5. QED BY <2>2, <2>3, <2>4
<1>2. ASSUME NEW p \in Docs \X Docs, p[1] < p[2], ~Linked(p[1], p[2]),
             Cardinality(Common(p)) >= config.minShared, ~links.truncated
      PROVE  Suggestion(p[1], p[2]) \in links.suggestions
  <2>1. Hubs = {} /\ links.suggestions = Candidates
    BY <1>1, <1>2, SuggestionsAreCut
  <2>2. Shared(p[1], p[2]) = Common(p)
    BY <2>1 DEF Shared
  <2>3. Suggestion(p[1], p[2]) \in Candidates
    <3> HIDE DEF Common
    <3>1. QED BY <1>2, <2>2 DEF Candidates
  <2>4. QED BY <2>1, <2>3
<1>3. Cardinality(links.suggestions) <= MaxSuggestedLinks
  BY <1>1, SuggestionsAreCut
<1>4. Cardinality(report.gaps.gaps) <= MaxGaps /\ (report.gaps.truncated \/ report.gaps.gaps = gaps)
  BY <1>1, GapsAreCut
<1>5. ASSUME NEW a \in WCC, NEW b \in WCC, Min(a) < Min(b),
             Cardinality(a) >= config.minGap, Cardinality(b) >= config.minGap,
             Cardinality(a) > 1, Cardinality(b) > 1
      PROVE  <<Min(a), Min(b)>> \in gaps
  <2>1. ASSUME NEW c \in WCC, Cardinality(c) >= config.minGap, Cardinality(c) > 1 PROVE c \in kept
    <3>1. Cardinality(c) \in Nat
      <4>1. c \in SUBSET Docs /\ IsFiniteSet(Docs)
        BY <1>1, CorpusFacts DEF WCC
      <4>2. QED BY <4>1, FS_Subset, FS_CardinalityType
    <3>2. QED BY <2>1, <3>1
  <2>2. a \in kept /\ b \in kept
    BY <1>5, <2>1
  <2> DEFINE u == Min(a)
             v == Min(b)
  <2>3. u < v /\ <<u, v>>[1] = u /\ <<u, v>>[2] = v
    BY <1>5
  <2>4. <<u, v>> \in {<<Min(x), Min(y)>> : x, y \in kept}
    BY <2>2
  <2> HIDE DEF kept, u, v
  <2>5. QED BY <2>3, <2>4 DEF u, v
<1> HIDE DEF gaps, links
<1>6. QED BY <1>2, <1>3, <1>4, <1>5 DEF CapsAreReported, links

\* Every run starts within the invariant.
LEMMA IndInit ==
  ASSUME Init
  PROVE  IndInv
<1>1. BaseInv
  BY BaseInit
<1>2. UfInv /\ TarjanInv /\ BfsInv /\ BowtieInv /\ AbInv /\ LowInv /\ ReportInv
  BY DEF Init, UfInv, Early, TarjanInv, BfsInv, Searched, BowtieInv, AbInv, LowInv, ReportInv
<1>3. RankInv
  <2>1. PICK family \in Inputs : corpus \in family.corpora /\ stage = "resolve"
    BY DEF Init
  <2>2. QED BY <2>1, RanksAssumption DEF RankInv, Docs
<1>4. TrailInv
  <2>1. trail = NewTrail /\ stage = "resolve"
    BY DEF Init
  <2>2. QED BY <2>1 DEF TrailInv, IsTrail, NewTrail
<1>5. QED BY <1>1, <1>2, <1>3, <1>4 DEF IndInv

\* What the analyses establish on the way holds in every run.
THEOREM Invariance == Spec => []IndInv
<1>1. Init => IndInv
  BY IndInit
<1>2. IndInv /\ [Next]_vars => IndInv'
  <2> SUFFICES ASSUME IndInv, [Next]_vars PROVE IndInv'
    OBVIOUS
  <2>1. BaseInv /\ UfInv /\ TarjanInv /\ BfsInv /\ BowtieInv /\ AbInv /\ LowInv
       /\ ReportInv /\ RankInv /\ TrailInv
    BY DEF IndInv
  <2>2. BaseInv'
    BY <2>1, BaseStep
  <2>3. UfInv'
    BY <2>1, UfStep
  <2>4. TarjanInv'
    BY <2>1, TarjanInvStep
  <2>5. BfsInv'
    BY <2>1, BfsStep
  <2>6. BowtieInv'
    BY <2>1, BowtieStep
  <2>7. AbInv'
    BY <2>1, AbInvStep
  <2>8. LowInv'
    BY <2>1, LowInvStep
  <2>9. ReportInv'
    BY <2>1, ReportStep
  <2>10. RankInv'
    BY <2>1, RankStep
  <2>11. TrailInv'
    BY <2>1, TrailInvStep
  <2>12. QED BY <2>2, <2>3, <2>4, <2>5, <2>6, <2>7, <2>8, <2>9, <2>10, <2>11 DEF IndInv
<1>3. QED BY <1>1, <1>2, PTL DEF Spec

\* Cut points and bridges are exact once the search is over.
LEMMA CriticalHolds ==
  ASSUME IndInv
  PROVE  CriticalIsExact
<1> SUFFICES ASSUME Measured PROVE CriticalIsExact
  BY DEF CriticalIsExact
<1>1. stage = "rank"
  BY DEF Measured
<1>2. LowRight(ab) /\ CriticalDone
  BY <1>1 DEF IndInv, LowInv
<1>3. IsBuilt
  BY <1>1, BuiltGraph DEF IndInv
<1>4. QED BY <1>2, <1>3, FoundCritical DEF CriticalIsExact

\* StructureIsExact holds in every run: weak and strong components, condensation and bow-
\* tie are those of the graph, and the cut points and bridges are exactly the documents
\* and the links whose loss disconnects it (components.go, bowtie.go, articulation.go).
THEOREM StructureExact == Spec => []StructureIsExact
<1>1. IndInv => ComponentsAreExact
  BY ComponentsHold DEF IndInv
<1>2. IndInv => StructureIsExact
  BY <1>1, CriticalHolds DEF StructureIsExact
<1>3. QED BY <1>2, Invariance, PTL

\* TrailsAreTopological holds in every run: a trail visits its component once, against no
\* link, and from its best page (trails.go).
THEOREM Topological == Spec => []TrailsAreTopological
<1>1. IndInv => TrailsAreTopological
  BY TrailsHold DEF IndInv
<1>2. QED BY <1>1, Invariance, PTL

\* AdviceIsSound holds in every run: the report does not contradict itself, what it asks
\* for can be done, and its caps are reported (graphfindings.go, linkprediction.go,
\* scent.go, gaps.go).
THEOREM AdviceSound == Spec => []AdviceIsSound
<1>1. IndInv => AdviceIsSound
  BY AdviceHolds, ScentHolds, CapsHold DEF AdviceIsSound, IndInv
<1>2. QED BY <1>1, Invariance, PTL

\* PromptKeepsTheGate holds in every run: what `check` fails for is in the default prompt
\* (findings.go, fixprompt.go).
THEOREM PromptGate == Spec => []PromptKeepsTheGate
<1>1. IndInv => PromptKeepsTheGate
  BY PromptHolds
<1>2. QED BY <1>1, Invariance, PTL
=============================================================================
