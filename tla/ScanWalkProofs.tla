---------------------------- MODULE ScanWalkProofs ----------------------------
(***************************************************************************)
(* What a scan returns, for every tree, every set of ignore rules and      *)
(* every history of entries that disappear while it walks.                 *)
(***************************************************************************)
EXTENDS ScanWalk, FiniteSetTheorems, WellFoundedInduction, TLAPS

\* The elements of a sequence are finitely many, no more than its length.
LEMMA ElementsOfSeq ==
  ASSUME NEW A, NEW s \in Seq(A)
  PROVE  /\ IsFiniteSet(ToSet(s)) /\ Cardinality(ToSet(s)) <= Len(s)
         /\ ToSet(s) \subseteq A
<1>1. /\ DOMAIN s = 1..Len(s) /\ Len(s) \in Nat
      /\ \A k \in 1..Len(s) : s[k] \in A
  OBVIOUS
<1>2. s \in Surjection(1..Len(s), ToSet(s))
  <2>1. s \in [1..Len(s) -> ToSet(s)]
    BY <1>1 DEF ToSet
  <2>2. \A x \in ToSet(s) : \E k \in 1..Len(s) : s[k] = x
    BY <1>1 DEF ToSet
  <2>3. QED BY <2>1, <2>2 DEF Surjection
<1>3. IsFiniteSet(1..Len(s)) /\ Cardinality(1..Len(s)) = Len(s)
  <2>1. ASSUME NEW n \in Nat
        PROVE  IsFiniteSet(1..n) /\ Cardinality(1..n) = n
    BY FS_Interval
  <2>2. QED BY <1>1, <2>1
<1>4. ToSet(s) \subseteq A
  BY <1>1 DEF ToSet
<1>5. QED BY <1>2, <1>3, <1>4, FS_Surjection

\* A sequence that repeats nothing has as many elements as it is long.
LEMMA DistinctSeq ==
  ASSUME NEW A, NEW s \in Seq(A),
         \A j, k \in 1..Len(s) : s[j] = s[k] => j = k
  PROVE  Cardinality(ToSet(s)) = Len(s)
<1>1. DOMAIN s = 1..Len(s) /\ Len(s) \in Nat
  OBVIOUS
<1>2. s \in [1..Len(s) -> ToSet(s)]
  BY <1>1 DEF ToSet
<1>3. s \in Bijection(1..Len(s), ToSet(s))
  <2>1. \A x \in ToSet(s) : \E k \in 1..Len(s) : s[k] = x
    BY <1>1 DEF ToSet
  <2>2. QED BY <1>1, <1>2, <2>1 DEF Bijection, Injection, IsInjective, Surjection
<1>4. IsFiniteSet(1..Len(s)) /\ Cardinality(1..Len(s)) = Len(s)
  <2>1. ASSUME NEW n \in Nat
        PROVE  IsFiniteSet(1..n) /\ Cardinality(1..n) = n
    BY FS_Interval
  <2>2. QED BY <1>1, <2>1
<1> DEFINE I == 1..Len(s)
           T == ToSet(s)
<1>5. s \in Bijection(I, T) /\ IsFiniteSet(I) /\ Cardinality(I) = Len(s)
  BY <1>3, <1>4
<1> HIDE DEF I, T
<1>6. Cardinality(T) = Len(s)
  BY <1>5, FS_Bijection DEF ExistsBijection
<1>7. QED BY <1>6 DEF T

\* A set of numbers has a least one, because their order is well-founded.
LEMMA LeastOf ==
  ASSUME NEW S \in SUBSET Nat, S # {}
  PROVE  \E x \in S : \A y \in S : x <= y
<1> DEFINE R == {ss \in Nat \X Nat : ss[1] < ss[2]}
<1>1. IsWellFoundedOn(R, Nat)
  BY NatLessThanWellFounded DEF OpToRel
<1>2. \A x, y \in Nat : <<y, x>> \in R <=> y < x
  OBVIOUS
<1> HIDE DEF R
<1>3. PICK x \in S : \A y \in S : ~(<<y, x>> \in R)
  BY <1>1, WFMin
<1>4. ASSUME NEW y \in S PROVE x <= y
  <2>1. x \in Nat /\ y \in Nat
    OBVIOUS
  <2>2. ~(y < x)
    BY <1>2, <1>3, <2>1
  <2>3. QED BY <2>1, <2>2
<1>5. QED BY <1>4

\* And a greatest one if it has a bound, the least of its bounds.
LEMMA GreatestOf ==
  ASSUME NEW S \in SUBSET Nat, S # {}, NEW b \in Nat, \A y \in S : y <= b
  PROVE  \E x \in S : \A y \in S : y <= x
<1> DEFINE U == {u \in Nat : \A y \in S : y <= u}
<1>1. U \in SUBSET Nat /\ U # {}
  OBVIOUS
<1>2. PICK u \in U : \A v \in U : u <= v
  BY <1>1, LeastOf
<1>3. u \in Nat /\ \A y \in S : y <= u
  BY <1>2
<1>4. u \in S
  <2> SUFFICES ASSUME u \notin S PROVE FALSE
    OBVIOUS
  <2>1. PICK y \in S : TRUE
    OBVIOUS
  <2>2. \A z \in S : z <= u - 1
    BY <1>3
  <2>3. u - 1 \in U
    BY <1>3, <2>1, <2>2
  <2>4. QED BY <1>2, <1>3, <2>3
<1>5. QED BY <1>3, <1>4

\* sort.Strings: every element once, in the order of the keys.  Counting the
\* elements up to each one is an injection into 1..n, and so onto it.
LEMMA SortedByIsSorted ==
  ASSUME NEW S, IsFiniteSet(S), NEW key,
         \A u \in S : key[u] \in Int,
         \A u, v \in S : key[u] = key[v] => u = v
  PROVE  /\ Cardinality(S) \in Nat
         /\ SortedBy(S, key) \in [1..Cardinality(S) -> S]
         /\ \A u \in S : \E k \in 1..Cardinality(S) : SortedBy(S, key)[k] = u
         /\ \A j, k \in 1..Cardinality(S) :
              j < k => key[SortedBy(S, key)[j]] < key[SortedBy(S, key)[k]]
<1> DEFINE n == Cardinality(S)
           Upto(u) == {v \in S : key[v] <= key[u]}
           place == [u \in S |-> Place(S, key, u)]
           q == SortedBy(S, key)
<1>0. n \in Nat
  BY FS_CardinalityType
<1>1. ASSUME NEW u \in S
      PROVE  IsFiniteSet(Upto(u)) /\ place[u] = Cardinality(Upto(u)) /\ place[u] \in 1..n
  <2>1. Upto(u) \in SUBSET S /\ u \in Upto(u)
    OBVIOUS
  <2>2. place[u] = Cardinality(Upto(u))
    BY DEF Place
  <2> HIDE DEF Upto, place
  <2>3. IsFiniteSet(Upto(u)) /\ place[u] <= n
    BY <2>1, <2>2, FS_Subset
  <2>4. place[u] \in Nat /\ place[u] # 0
    BY <2>1, <2>2, <2>3, FS_CardinalityType, FS_EmptySet
  <2>5. QED BY <2>2, <2>3, <2>4, <1>0
<1>2. ASSUME NEW u \in S, NEW v \in S, key[u] < key[v]
      PROVE  place[u] < place[v]
  <2>1. Upto(u) \in SUBSET Upto(v) /\ v \in Upto(v) /\ v \notin Upto(u)
    BY <1>2
  <2>2. /\ IsFiniteSet(Upto(v)) /\ place[u] \in Nat /\ place[v] \in Nat
        /\ place[u] = Cardinality(Upto(u)) /\ place[v] = Cardinality(Upto(v))
    BY <1>1
  <2> HIDE DEF Upto, place
  <2>3. place[u] <= place[v] /\ place[u] # place[v]
    BY <2>1, <2>2, FS_Subset
  <2>4. QED BY <2>2, <2>3
<1>3. place \in Injection(S, 1..n)
  <2>1. place \in [S -> 1..n]
    BY <1>1
  <2>2. ASSUME NEW u \in S, NEW v \in S, place[u] = place[v]
        PROVE  u = v
    <3>1. place[u] \in 1..n /\ place[v] \in 1..n
      BY <1>1
    <3> HIDE DEF place
    <3>2. ~(key[u] < key[v]) /\ ~(key[v] < key[u])
      BY <1>0, <1>2, <2>2, <3>1
    <3>3. key[u] = key[v]
      BY <3>2
    <3>4. QED BY <3>3
  <2> HIDE DEF place
  <2>3. QED BY <2>1, <2>2 DEF Injection, IsInjective
<1>4. place \in Surjection(S, 1..n)
  <2> HIDE DEF place
  <2>1. IsFiniteSet(1..n) /\ Cardinality(1..n) = n
    BY <1>0, FS_Interval
  <2>2. QED BY <1>3, <2>1, FS_Injection
<1>5. ASSUME NEW k \in 1..n
      PROVE  q[k] \in S /\ place[q[k]] = k
  <2>1. PICK u \in S : place[u] = k
    BY <1>4 DEF Surjection
  <2>2. q[k] = CHOOSE w \in S : Place(S, key, w) = k
    BY DEF SortedBy
  <2>3. QED BY <2>1, <2>2
<1>6. ASSUME NEW u \in S
      PROVE  \E k \in 1..n : q[k] = u
  <2>1. place[u] \in 1..n
    BY <1>1
  <2>2. q[place[u]] \in S /\ place[q[place[u]]] = place[u]
    BY <2>1, <1>5
  <2> HIDE DEF place, q
  <2>3. q[place[u]] = u
    BY <2>2, <1>3 DEF Injection, IsInjective
  <2>4. QED BY <2>1, <2>3
<1>7. ASSUME NEW j \in 1..n, NEW k \in 1..n, j < k
      PROVE  key[q[j]] < key[q[k]]
  <2>1. q[j] \in S /\ q[k] \in S /\ place[q[j]] = j /\ place[q[k]] = k
    BY <1>5
  <2> HIDE DEF place, q
  <2>2. ~(key[q[k]] < key[q[j]])
    BY <1>0, <1>2, <1>7, <2>1
  <2>3. key[q[k]] # key[q[j]]
    BY <1>0, <1>7, <2>1
  <2>4. QED BY <2>1, <2>2, <2>3
<1>8. q \in [1..n -> S]
  <2>1. q = [k \in 1..n |-> q[k]]
    BY DEF SortedBy
  <2> HIDE DEF q
  <2>2. QED BY <2>1, <1>5
<1> HIDE DEF n, q
<1>9. QED BY <1>0, <1>6, <1>7, <1>8 DEF n, q

-----------------------------------------------------------------------------

Fit       == Kept(Ignored)
Barred(d) == Shut(d, Ignored)

\* What each stage of the scan has and has not done.
StageInv ==
  /\ pc = "collect" => pending = {} /\ files = <<>> /\ notices = {}
  /\ pc = "done" <=> ret # Pending
  /\ pc = "stat" =>
       /\ cur \in pending /\ cur \in Docs /\ ~Matches(cur)
       /\ \A m \in pending : cur <= m
  /\ Truncated => pc = "done"

\* Whatever is inside an entry that has disappeared has disappeared.
GoneInv == \A d \in gone, n \in Entry : Inside(n, d) => n \in gone

\* The walk has come to an entry through directories that are not barred.
WayInv ==
  /\ \A n \in pending, d \in Dirs : Inside(n, d) => ~Barred(d)
  /\ \A k \in 1..Len(files), d \in Dirs : Inside(files[k], d) => ~Barred(d)

\* The files are those the rules leave in, in the order of the walk.
FilesInv ==
  /\ \A k \in 1..Len(files) : files[k] \notin Ignored \union large
  /\ \A j, k \in 1..Len(files) : j < k => files[j] < files[k]
  /\ \A k \in 1..Len(files), m \in pending : files[k] < m

Blamed(n) ==
  \/ <<"walk-error", 0>> \in notices
  \/ \E d \in Dirs : Inside(n, d) /\ <<"walk-error", d>> \in notices

\* A document is found, blamed on a directory, or still ahead of the walk.
Ahead(n) == \E p \in pending : p = 0 \/ p = n \/ Inside(n, p)

CoverInv ==
  pc \in {"walk", "stat"} =>
    \A n \in Fit \ gone : n \in ToSet(files) \/ Blamed(n) \/ Ahead(n)

IInv ==
  /\ TypeOK /\ StageInv /\ GoneInv /\ WayInv /\ FilesInv /\ CoverInv
  /\ OnlyKept /\ NothingIsLost

-----------------------------------------------------------------------------
(* The tree.                                                                *)

LEMMA EntryFacts ==
  /\ Entry \subseteq Nat /\ 0 \notin Entry
  /\ Dirs \subseteq Entry /\ Docs \subseteq Entry /\ Dirs \intersect Docs = {}
  /\ \A n \in Entry :
       /\ Parent[n] \in Dirs \union {0} /\ Parent[n] < n /\ Parent[n] \in Nat
       /\ \A m \in Entry : Parent[n] < m /\ m < n => Parent[m] >= Parent[n]
  /\ \A n \in Entry : n \in Nat /\ n > 0
<1>1. Entry \subseteq Nat /\ 0 \notin Entry
  BY ScanWalkAssumption
<1>2. Dirs \subseteq Entry /\ Docs \subseteq Entry /\ Dirs \intersect Docs = {}
  BY DEF Dirs, Docs
<1>3. \A n \in Entry :
       /\ Parent[n] \in Dirs \union {0} /\ Parent[n] < n
       /\ \A m \in Entry : Parent[n] < m /\ m < n => Parent[m] >= Parent[n]
  BY ScanWalkAssumption
<1>4. ASSUME NEW n \in Entry PROVE Parent[n] \in Nat
  <2> HIDE DEF Entry, Dirs, Docs
  <2>1. Parent[n] \in Dirs \union {0}
    BY <1>3
  <2>2. CASE Parent[n] \in Dirs
    BY <1>1, <1>2, <2>2
  <2>3. CASE Parent[n] = 0
    BY <2>3
  <2>4. QED BY <2>1, <2>2, <2>3
<1>5. \A n \in Entry : n \in Nat /\ n > 0
  BY <1>1
<1> HIDE DEF Entry, Dirs, Docs
<1>6. QED BY <1>1, <1>2, <1>3, <1>4, <1>5

\* What is inside a directory, but not directly, is inside its own directory.
LEMMA InsideParent ==
  ASSUME NEW n \in Entry, NEW d \in Entry, Inside(n, d)
  PROVE  Parent[n] = d \/ (Parent[n] \in Dirs /\ Inside(Parent[n], d))
<1>1. d < n /\ Parent[n] >= d /\ \A m \in Entry : d < m /\ m <= n => Parent[m] >= d
  BY EntryFacts DEF Inside
<1>2. Parent[n] \in Nat /\ Parent[n] < n /\ d \in Nat /\ d > 0 /\ n \in Nat
  BY EntryFacts
<1>3. CASE Parent[n] # d
  <2>1. d < Parent[n] /\ Parent[n] \in Dirs
    BY <1>1, <1>2, <1>3, EntryFacts
  <2>2. \A m \in Entry : d < m /\ m <= Parent[n] => Parent[m] >= d
    BY <1>1, <1>2, EntryFacts
  <2>3. QED BY <2>1, <2>2 DEF Inside
<1>4. QED BY <1>3

LEMMA InsideTrans ==
  ASSUME NEW n \in Entry, NEW c \in Entry, NEW d \in Entry, Inside(n, c), Inside(c, d)
  PROVE  Inside(n, d)
<1>1. /\ c < n /\ \A m \in Entry : c < m /\ m <= n => Parent[m] >= c
      /\ d < c /\ \A m \in Entry : d < m /\ m <= c => Parent[m] >= d
  BY DEF Inside
<1>2. n \in Nat /\ c \in Nat /\ d \in Nat
  BY EntryFacts
<1>3. ASSUME NEW m \in Entry, d < m, m <= n PROVE Parent[m] >= d
  <2>1. m \in Nat /\ Parent[m] \in Nat
    BY EntryFacts
  <2>2. CASE m <= c
    BY <1>1, <1>3, <2>2
  <2>3. CASE c < m
    BY <1>1, <1>2, <1>3, <2>1, <2>3
  <2>4. QED BY <1>2, <2>1, <2>2, <2>3
<1>4. QED BY <1>1, <1>2, <1>3 DEF Inside

\* Whatever is inside a directory is one of its entries, or inside one of them:
\* the last of its entries that does not come after it.  For the root, everything is.
LEMMA Towards ==
  ASSUME NEW n \in Entry, NEW d \in Entry \union {0}, d = 0 \/ Inside(n, d)
  PROVE  \E c \in Entry : Parent[c] = d /\ (c = n \/ Inside(n, c))
<1>1. d \in Nat /\ n \in Nat /\ d < n /\ \A m \in Entry : d < m /\ m <= n => Parent[m] >= d
  BY EntryFacts DEF Inside
<1> DEFINE X == {m \in Entry : d < m /\ m <= n}
           C == {m \in X : Parent[m] = d}
<1>2. C # {}
  <2>1. X \in SUBSET Nat
    BY EntryFacts
  <2>0. n \in X
    BY <1>1
  <2>2. PICK x \in X : \A y \in X : x <= y
    BY <2>0, <2>1, LeastOf
  <2>3. /\ x \in Entry /\ x \in Nat /\ d < x /\ x <= n
        /\ Parent[x] \in Nat /\ Parent[x] < x /\ Parent[x] \in Entry \union {0}
    BY EntryFacts
  <2>4. Parent[x] >= d
    BY <1>1, <2>3
  <2>5. ~(d < Parent[x])
    <3> SUFFICES ASSUME d < Parent[x] PROVE FALSE
      OBVIOUS
    <3>1. Parent[x] \in X
      BY <1>1, <2>3
    <3>2. QED BY <2>2, <2>3, <3>1
  <2>6. Parent[x] = d
    BY <1>1, <2>3, <2>4, <2>5
  <2>7. QED BY <2>6
<1>3. PICK c \in C : \A m \in C : m <= c
  <2>1. C \in SUBSET Nat /\ \A m \in C : m <= n
    BY EntryFacts
  <2>2. QED BY <1>1, <1>2, <2>1, GreatestOf
<1>4. c \in Entry /\ c \in Nat /\ Parent[c] = d /\ d < c /\ c <= n
  BY EntryFacts
<1>5. CASE c # n
  <2>1. ASSUME NEW m \in Entry, c < m, m <= n PROVE Parent[m] >= c
    <3>1. m \in Nat /\ Parent[m] \in Nat /\ Parent[m] < m /\ d < m /\ Parent[m] >= d
      BY <1>1, <1>4, <2>1, EntryFacts
    <3>2. Parent[m] # d
      <4> SUFFICES ASSUME Parent[m] = d PROVE FALSE
        OBVIOUS
      <4>1. m \in C
        BY <2>1, <3>1
      <4>2. QED BY <1>3, <1>4, <2>1, <3>1, <4>1
    <3>3. ~(Parent[m] < c)
      <4> SUFFICES ASSUME Parent[m] < c PROVE FALSE
        OBVIOUS
      <4>1. Parent[c] >= Parent[m]
        BY <1>4, <2>1, EntryFacts
      <4>2. QED BY <1>1, <1>4, <3>1, <3>2, <4>1
    <3>4. QED BY <1>4, <3>1, <3>3
  <2>2. QED BY <1>1, <1>4, <1>5, <2>1 DEF Inside
<1>6. QED BY <1>4, <1>5

\* Only directories have something inside.
LEMMA InsideDirs ==
  ASSUME NEW n \in Entry, NEW d \in Entry, Inside(n, d)
  PROVE  d \in Dirs
<1>1. PICK c \in Entry : Parent[c] = d
  BY Towards
<1>2. QED BY <1>1, EntryFacts

-----------------------------------------------------------------------------
(* The rules stay what they were, once git has been asked.                  *)

LEMMA SameRules ==
  ASSUME UNCHANGED <<given, git>>
  PROVE  /\ Ignored' = Ignored /\ Fit' = Fit
         /\ \A n \in Entry : Matches(n)' <=> Matches(n)
         /\ \A d \in Dirs : Barred(d)' <=> Barred(d)
<1>1. /\ UNCHANGED git /\ UNCHANGED rules /\ UNCHANGED nested
      /\ UNCHANGED large /\ UNCHANGED out
  BY DEF given
<1>2. \A n \in Entry : Matches(n)' <=> Matches(n)
  BY <1>1 DEF Matches, GitLine
<1>3. Ignored' = Ignored
  BY <1>2 DEF Ignored
<1>4. \A d \in Dirs : Barred(d)' <=> Barred(d)
  BY <1>1, <1>3 DEF Barred, Shut, OutputExcludes
<1>5. Fit' = Fit
  BY <1>1, <1>3 DEF Fit, Kept, Shut, OutputExcludes
<1>6. QED BY <1>2, <1>3, <1>4, <1>5

\* The scan is not over: nothing is promised yet.
LEMMA Unfinished ==
  ASSUME ret = Pending
  PROVE  OnlyKept /\ NothingIsLost
<1>1. ~Succeeded /\ ret # Error
  BY DEF Succeeded, Pending, Error
<1>2. QED BY <1>1 DEF OnlyKept, NothingIsLost

LEMMA InitInv == Init => IInv
<1> SUFFICES ASSUME Init PROVE IInv
  OBVIOUS
<1>1. TypeOK
  <2>1. files \in Seq(Docs) /\ Len(files) <= MaxFiles
    BY ScanWalkAssumption DEF Init
  <2>2. /\ local \in LocalSets /\ rules \in FileRules /\ nested \in NestedSets
        /\ large \in LargeSets /\ out \in Outs /\ respect \in BOOLEAN
    BY DEF Init
  <2>3. /\ gone = {} /\ ctxDone = FALSE /\ pc = "collect" /\ git = {}
        /\ pending = {} /\ cur = 0 /\ notices = {} /\ ret = Pending
    BY DEF Init
  <2>4. QED BY <2>1, <2>2, <2>3 DEF TypeOK
<1>2. StageInv /\ GoneInv /\ WayInv /\ FilesInv /\ CoverInv
  BY DEF Init, StageInv, Truncated, GoneInv, WayInv, FilesInv, CoverInv
<1>3. OnlyKept /\ NothingIsLost
  BY Unfinished DEF Init
<1>4. QED BY <1>1, <1>2, <1>3 DEF IInv

-----------------------------------------------------------------------------
(* The steps.                                                               *)

\* Nothing but the context changes.
LEMMA StillInv ==
  ASSUME IInv, UNCHANGED <<given, gone, pc, git, pending, cur, files, notices, ret>>,
         ctxDone' \in BOOLEAN, ctxDone => ctxDone'
  PROVE  IInv'
<1>1. /\ UNCHANGED gone /\ UNCHANGED pc /\ UNCHANGED git /\ UNCHANGED pending
      /\ UNCHANGED cur /\ UNCHANGED files /\ UNCHANGED notices /\ UNCHANGED ret
      /\ UNCHANGED <<local, rules, nested, large, out, respect>>
  BY DEF given
<1>2. /\ Ignored' = Ignored /\ Fit' = Fit
      /\ \A n \in Entry : Matches(n)' <=> Matches(n)
      /\ \A d \in Dirs : Barred(d)' <=> Barred(d)
  BY SameRules
<1>3. TypeOK'
  BY <1>1 DEF IInv, TypeOK
<1>4. StageInv'
  BY <1>1, <1>2, EntryFacts DEF IInv, StageInv, Truncated
<1>5. GoneInv'
  BY <1>1 DEF IInv, GoneInv
<1>6. WayInv'
  BY <1>1, <1>2 DEF IInv, WayInv
<1>7. FilesInv'
  BY <1>1, <1>2 DEF IInv, FilesInv
<1>8. CoverInv'
  BY <1>1, <1>2 DEF IInv, CoverInv, Blamed, Ahead
<1>9. OnlyKept'
  BY <1>1, <1>2 DEF IInv, OnlyKept, Succeeded, Truncated, Fit
<1>10. NothingIsLost'
  BY <1>1, <1>2 DEF IInv, NothingIsLost, Succeeded, Truncated, Fit
<1>11. QED BY <1>3, <1>4, <1>5, <1>6, <1>7, <1>8, <1>9, <1>10 DEF IInv

\* The scan ends without a result: the root cannot be opened, or the walk is stopped.
LEMMA FailInv ==
  ASSUME IInv, ret' \in {BadRoot, Error}, pc' = "done", ret' = Error => ctxDone,
         UNCHANGED <<given, gone, ctxDone, git, pending, cur, files, notices>>
  PROVE  IInv'
<1>1. /\ UNCHANGED gone /\ UNCHANGED git /\ UNCHANGED pending /\ UNCHANGED ctxDone
      /\ UNCHANGED cur /\ UNCHANGED files /\ UNCHANGED notices
      /\ UNCHANGED <<local, rules, nested, large, out, respect>>
  BY DEF given
<1>2. /\ Ignored' = Ignored
      /\ \A d \in Dirs : Barred(d)' <=> Barred(d)
  BY SameRules
<1>3. TypeOK'
  BY <1>1 DEF IInv, TypeOK
<1>4. StageInv'
  <2>1. ret' # Pending
    BY DEF Pending, BadRoot, Error
  <2>2. QED BY <1>1, <2>1 DEF IInv, StageInv, Truncated
<1>5. GoneInv'
  BY <1>1 DEF IInv, GoneInv
<1>6. WayInv'
  BY <1>1, <1>2 DEF IInv, WayInv
<1>7. FilesInv'
  BY <1>1, <1>2 DEF IInv, FilesInv
<1>8. CoverInv'
  BY DEF CoverInv
<1>9. OnlyKept' /\ NothingIsLost'
  <2>1. ~Succeeded'
    BY DEF Succeeded, BadRoot, Error
  <2>2. QED BY <1>1, <2>1 DEF OnlyKept, NothingIsLost
<1>10. QED BY <1>3, <1>4, <1>5, <1>6, <1>7, <1>8, <1>9 DEF IInv

\* Another process removes an entry: what is blamed or ahead stays so.
LEMMA VanishInv ==
  ASSUME IInv, NEW n \in Entry, Vanish(n)
  PROVE  IInv'
<1>1. /\ ret = Pending /\ gone' = gone \union {n} \union {m \in Entry : Inside(m, n)}
      /\ UNCHANGED pc /\ UNCHANGED git /\ UNCHANGED pending /\ UNCHANGED ctxDone
      /\ UNCHANGED cur /\ UNCHANGED files /\ UNCHANGED notices /\ UNCHANGED ret
      /\ UNCHANGED <<local, rules, nested, large, out, respect>>
  BY DEF Vanish, given
<1>2. /\ Ignored' = Ignored /\ Fit' = Fit
      /\ \A m \in Entry : Matches(m)' <=> Matches(m)
      /\ \A d \in Dirs : Barred(d)' <=> Barred(d)
  BY <1>1, SameRules DEF given
<1>3. TypeOK'
  BY <1>1 DEF IInv, TypeOK
<1>4. StageInv'
  BY <1>1, <1>2, EntryFacts DEF IInv, StageInv, Truncated
<1>5. GoneInv'
  <2> SUFFICES ASSUME NEW d \in gone', NEW m \in Entry, Inside(m, d)
               PROVE  m \in gone'
    BY DEF GoneInv
  <2>1. CASE d \in gone
    BY <1>1, <2>1 DEF IInv, GoneInv
  <2>2. CASE d = n
    BY <1>1, <2>2
  <2>3. CASE d \in Entry /\ Inside(d, n)
    BY <1>1, <2>3, InsideTrans
  <2>4. QED BY <1>1, <2>1, <2>2, <2>3
<1>6. WayInv'
  BY <1>1, <1>2 DEF IInv, WayInv
<1>7. FilesInv'
  BY <1>1, <1>2 DEF IInv, FilesInv
<1>8. CoverInv'
  <2>1. gone \subseteq gone'
    BY <1>1
  <2>2. QED BY <1>1, <1>2, <2>1 DEF IInv, CoverInv, Blamed, Ahead
<1>9. OnlyKept' /\ NothingIsLost'
  <2>1. ~Succeeded' /\ ret' # Error
    BY <1>1 DEF Succeeded, Pending, Error
  <2>2. QED BY <2>1 DEF OnlyKept, NothingIsLost
<1>10. QED BY <1>3, <1>4, <1>5, <1>6, <1>7, <1>8, <1>9 DEF IInv

LEMMA CollectInv ==
  ASSUME IInv, Collect
  PROVE  IInv'
<1>1. /\ pc = "collect" /\ pc' = "walk" /\ pending' = {0}
      /\ git' \subseteq local
      /\ notices' \subseteq notices \union {<<"gitignore", 0>>}
      /\ UNCHANGED gone /\ UNCHANGED ctxDone /\ UNCHANGED cur
      /\ UNCHANGED files /\ UNCHANGED ret
      /\ UNCHANGED <<local, rules, nested, large, out, respect>>
  BY DEF Collect, given, IInv, TypeOK
<1>2. files = <<>> /\ notices = {} /\ ret = Pending
  BY <1>1 DEF IInv, StageInv
<1>3. TypeOK'
  <2>1. notices' \subseteq NoticeKinds \X (Entry \union {0})
    BY <1>1, <1>2 DEF NoticeKinds
  <2>2. QED BY <1>1, <2>1 DEF IInv, TypeOK
<1>4. StageInv'
  <2>1. ~Truncated'
    BY <1>1, <1>2 DEF Truncated
  <2>2. QED BY <1>1, <1>2, <2>1 DEF StageInv
<1>5. GoneInv'
  BY <1>1 DEF IInv, GoneInv
<1>6. WayInv'
  <2>1. \A d \in Dirs : ~Inside(0, d)
    BY EntryFacts DEF Inside
  <2>2. QED BY <1>1, <1>2, <2>1 DEF WayInv
<1>7. FilesInv'
  BY <1>1, <1>2 DEF FilesInv
<1>8. CoverInv'
  BY <1>1 DEF CoverInv, Ahead
<1>9. OnlyKept' /\ NothingIsLost'
  <2>1. ~Succeeded' /\ ret' # Error
    BY <1>1, <1>2 DEF Succeeded, Pending, Error
  <2>2. QED BY <2>1 DEF OnlyKept, NothingIsLost
<1>10. QED BY <1>3, <1>4, <1>5, <1>6, <1>7, <1>8, <1>9 DEF IInv

\* The walk leaves an entry behind.  That is right as long as every document of the
\* rules that is lost with it is blamed on a directory.
LEMMA LeaveInv ==
  ASSUME IInv, pc \in {"walk", "stat"}, pc' = "walk",
         NEW p \in pending, pending' = pending \ {p},
         NEW what \in SUBSET ((NoticeKinds \ {"truncated"}) \X (Entry \union {0})),
         notices' = notices \union what,
         cur' \in Docs \union {0},
         UNCHANGED <<given, gone, ctxDone, git, files, ret>>,
         \A n \in Fit \ gone :
           p = 0 \/ p = n \/ Inside(n, p) =>
             \/ <<"walk-error", 0>> \in what
             \/ \E d \in Dirs : Inside(n, d) /\ <<"walk-error", d>> \in what
  PROVE  IInv'
<1>1. /\ UNCHANGED gone /\ UNCHANGED git /\ UNCHANGED ctxDone
      /\ UNCHANGED files /\ UNCHANGED ret
      /\ UNCHANGED <<local, rules, nested, large, out, respect>>
  BY DEF given
<1>2. Ignored' = Ignored /\ Fit' = Fit /\ \A d \in Dirs : Barred(d)' <=> Barred(d)
  BY SameRules
<1>3. pending' \subseteq pending
  OBVIOUS
<1>4. ret = Pending
  BY DEF IInv, StageInv
<1>5. TypeOK'
  BY <1>1, <1>3 DEF IInv, TypeOK
<1>6. StageInv'
  <2>1. <<"truncated", 0>> \notin what
    OBVIOUS
  <2>2. ~Truncated'
    BY <2>1 DEF IInv, StageInv, Truncated
  <2>3. QED BY <1>1, <1>4, <2>2 DEF StageInv
<1>7. GoneInv'
  BY <1>1 DEF IInv, GoneInv
<1>8. WayInv'
  BY <1>1, <1>2, <1>3 DEF IInv, WayInv
<1>9. FilesInv'
  BY <1>1, <1>2, <1>3 DEF IInv, FilesInv
<1>10. CoverInv'
  <2> SUFFICES ASSUME NEW n \in Fit \ gone
               PROVE  (n \in ToSet(files) \/ Blamed(n) \/ Ahead(n))'
    BY <1>1, <1>2 DEF CoverInv
  <2>1. Blamed(n) => Blamed(n)'
    BY DEF Blamed
  <2>2. CASE \E q \in pending : q # p /\ (q = 0 \/ q = n \/ Inside(n, q))
    BY <2>2 DEF Ahead
  <2>3. CASE p = 0 \/ p = n \/ Inside(n, p)
    BY <2>3 DEF Blamed
  <2>4. n \in ToSet(files) \/ Blamed(n) \/ Ahead(n)
    BY DEF IInv, CoverInv
  <2>5. QED BY <1>1, <2>1, <2>2, <2>3, <2>4 DEF Ahead
<1>11. OnlyKept' /\ NothingIsLost'
  <2>1. ~Succeeded' /\ ret' # Error
    BY <1>1, <1>4 DEF Succeeded, Pending, Error
  <2>2. QED BY <2>1 DEF OnlyKept, NothingIsLost
<1>12. QED BY <1>5, <1>6, <1>7, <1>8, <1>9, <1>10, <1>11 DEF IInv

\* A document of the rules is a document, outside every barred directory.
LEMMA FitFacts ==
  ASSUME NEW n \in Fit
  PROVE  /\ n \in Docs /\ n \in Entry /\ n \notin Dirs /\ n # 0
         /\ ~Matches(n) /\ n \notin large
         /\ \A d \in Entry : Inside(n, d) => d \in Dirs /\ ~Barred(d)
<1>1. n \in Docs /\ n \notin Ignored /\ n \notin large
  BY DEF Fit, Kept
<1>2. n \in Entry /\ n \notin Dirs /\ n # 0
  BY <1>1, EntryFacts
<1>3. ~Matches(n)
  BY <1>1, <1>2 DEF Ignored
<1>4. ASSUME NEW d \in Entry, Inside(n, d) PROVE d \in Dirs /\ ~Barred(d)
  <2>1. d \in Dirs
    BY <1>2, <1>4, InsideDirs
  <2>2. QED BY <1>4, <2>1 DEF Fit, Kept, Barred
<1>5. QED BY <1>1, <1>2, <1>3, <1>4

LEMMA PruneDirInv ==
  ASSUME IInv, NEW p \in Entry \union {0}, PruneDir(p)
  PROVE  IInv'
<1>1. /\ pc = "walk" /\ p \in pending /\ p \in Dirs
      /\ SkipDir(p) \/ p \in nested
  BY DEF PruneDir, Visiting
<1>2. PICK what \in {{}, {<<"nested-repo", p>>}} : Skip(p, what)
  BY DEF PruneDir
<1>3. Barred(p)
  BY <1>1, EntryFacts DEF SkipDir, Barred, Shut, Ignored
<1>4. \A n \in Fit : ~(p = 0 \/ p = n \/ Inside(n, p))
  BY <1>1, <1>3, FitFacts, EntryFacts
<1>5. what \in SUBSET ((NoticeKinds \ {"truncated"}) \X (Entry \union {0}))
  BY DEF NoticeKinds
<1>6. cur' \in Docs \union {0} /\ pc' = "walk"
  BY <1>1, <1>2 DEF Skip, IInv, TypeOK
<1>7. QED BY <1>1, <1>2, <1>4, <1>5, <1>6, LeaveInv DEF Skip

LEMMA PassFileInv ==
  ASSUME IInv, NEW p \in Entry \union {0}, PassFile(p)
  PROVE  IInv'
<1>1. /\ pc = "walk" /\ p \in pending /\ p \in Entry /\ p \notin Dirs
      /\ Matches(p) \/ Kind[p] # "md" \/ p \in gone
  BY DEF PassFile, Visiting
<1>2. PICK what \in {{}, {<<"skipped-symlink", p>>}, {<<"escapes-root", p>>}} : Skip(p, what)
  BY DEF PassFile
<1>3. \A n \in Fit \ gone : ~(p = 0 \/ p = n \/ Inside(n, p))
  <2> SUFFICES ASSUME NEW n \in Fit \ gone PROVE p # 0 /\ p # n /\ ~Inside(n, p)
    OBVIOUS
  <2>1. p # 0
    BY <1>1, EntryFacts
  <2>2. p # n
    BY <1>1, FitFacts DEF Docs
  <2>3. ~Inside(n, p)
    BY <1>1, FitFacts
  <2>4. QED BY <2>1, <2>2, <2>3
<1>4. what \in SUBSET ((NoticeKinds \ {"truncated"}) \X (Entry \union {0}))
  BY DEF NoticeKinds
<1>5. cur' \in Docs \union {0} /\ pc' = "walk"
  BY <1>1, <1>2 DEF Skip, IInv, TypeOK
<1>6. QED BY <1>1, <1>2, <1>3, <1>4, <1>5, LeaveInv DEF Skip

LEMMA RejectInv ==
  ASSUME IInv, Reject
  PROVE  IInv'
<1>1. pc = "stat" /\ cur \in gone \union large /\ cur \in pending /\ cur \in Docs
  BY DEF Reject, IInv, StageInv
<1>2. PICK kind \in {"io-error", "oversized"} : Drop(kind)
  BY DEF Reject
<1>3. \A n \in Fit \ gone : ~(cur = 0 \/ cur = n \/ Inside(n, cur))
  <2> SUFFICES ASSUME NEW n \in Fit \ gone PROVE cur # 0 /\ cur # n /\ ~Inside(n, cur)
    OBVIOUS
  <2>1. cur \in Entry /\ cur \notin Dirs /\ cur # 0
    BY <1>1, EntryFacts
  <2>2. cur # n
    BY <1>1, FitFacts
  <2>3. ~Inside(n, cur)
    BY <2>1, FitFacts
  <2>4. QED BY <2>1, <2>2, <2>3
<1>4. {<<kind, cur>>} \in SUBSET ((NoticeKinds \ {"truncated"}) \X (Entry \union {0}))
  BY <1>1, EntryFacts DEF NoticeKinds
<1>5. QED BY <1>1, <1>2, <1>3, <1>4, LeaveInv DEF Drop

\* A directory is read: each document the walk was to find through it is one of its
\* entries or inside one of them, and that one is still there.
LEMMA OpenDirInv ==
  ASSUME IInv, NEW p \in Entry \union {0}, Visiting(p), Readable(p), p \notin gone,
         pending' = (pending \ {p}) \union Below(p),
         UNCHANGED <<given, gone, ctxDone, pc, git, cur, files, notices, ret>>
  PROVE  IInv'
<1>1. /\ UNCHANGED gone /\ UNCHANGED git /\ UNCHANGED ctxDone /\ UNCHANGED pc
      /\ UNCHANGED files /\ UNCHANGED ret /\ UNCHANGED notices /\ UNCHANGED cur
      /\ UNCHANGED <<local, rules, nested, large, out, respect>>
  BY DEF given
<1>2. Ignored' = Ignored /\ Fit' = Fit /\ \A d \in Dirs : Barred(d)' <=> Barred(d)
  BY SameRules
<1>3. /\ pc = "walk" /\ p \in pending /\ \A m \in pending : p <= m
      /\ ret = Pending /\ p \in Nat
  BY EntryFacts DEF Visiting, IInv, StageInv
<1>4. \A c \in Below(p) : c \in Entry /\ Parent[c] = p /\ p < c /\ c \in Nat
  BY EntryFacts DEF Below
<1>5. TypeOK'
  <2>1. pending' \subseteq Entry \union {0}
    BY <1>4 DEF IInv, TypeOK
  <2>2. QED BY <1>1, <2>1 DEF IInv, TypeOK
<1>6. StageInv'
  BY <1>1, <1>3 DEF IInv, StageInv, Truncated
<1>7. GoneInv'
  BY <1>1 DEF IInv, GoneInv
<1>8. p = 0 \/ (p \in Dirs /\ ~Barred(p))
  BY EntryFacts DEF Readable, SkipDir, Barred, Shut, Ignored
<1>9. WayInv'
  <2>1. ASSUME NEW c \in Below(p), NEW d \in Dirs, Inside(c, d) PROVE ~Barred(d)
    <3>1. d \in Entry /\ d # 0 /\ c \in Entry /\ Parent[c] = p
      BY <1>4, EntryFacts
    <3>2. p = d \/ Inside(p, d)
      BY <2>1, <3>1, InsideParent
    <3>3. CASE p = d
      BY <1>8, <3>1, <3>3
    <3>4. CASE Inside(p, d)
      BY <1>3, <3>4 DEF IInv, WayInv
    <3>5. QED BY <3>2, <3>3, <3>4
  <2>2. \A n \in pending', d \in Dirs : Inside(n, d) => ~Barred(d)
    BY <2>1 DEF IInv, WayInv
  <2>3. \A k \in 1..Len(files), d \in Dirs : Inside(files[k], d) => ~Barred(d)
    BY DEF IInv, WayInv
  <2>4. QED BY <1>1, <1>2, <2>2, <2>3 DEF WayInv
<1>10. FilesInv'
  <2>1. ASSUME NEW k \in 1..Len(files), NEW c \in Below(p) PROVE files[k] < c
    <3>1. files[k] < p
      BY <1>3 DEF IInv, FilesInv
    <3>2. files[k] \in Nat
      <4>1. files \in Seq(Docs)
        BY DEF IInv, TypeOK
      <4>2. files[k] \in Docs
        BY <4>1
      <4>3. QED BY <4>2, EntryFacts
    <3>3. QED BY <1>3, <1>4, <3>1, <3>2
  <2>2. QED BY <1>1, <1>2, <2>1 DEF IInv, FilesInv
<1>11. CoverInv'
  <2> SUFFICES ASSUME NEW n \in Fit \ gone
               PROVE  (n \in ToSet(files) \/ Blamed(n) \/ Ahead(n))'
    BY <1>1, <1>2 DEF CoverInv
  <2>1. Blamed(n) => Blamed(n)'
    BY <1>1 DEF Blamed
  <2>2. CASE \E q \in pending : q # p /\ (q = 0 \/ q = n \/ Inside(n, q))
    BY <2>2 DEF Ahead
  <2>3. CASE p = 0 \/ p = n \/ Inside(n, p)
    <3>1. n \in Entry /\ (p = 0 \/ Inside(n, p))
      BY <1>8, <2>3, FitFacts
    <3>2. PICK c \in Entry : Parent[c] = p /\ (c = n \/ Inside(n, c))
      BY <3>1, Towards
    <3>3. c \notin gone
      BY <3>1, <3>2 DEF IInv, GoneInv
    <3>4. c \in pending'
      BY <3>2, <3>3 DEF Below
    <3>5. QED BY <3>2, <3>4 DEF Ahead
  <2>4. n \in ToSet(files) \/ Blamed(n) \/ Ahead(n)
    BY <1>3 DEF IInv, CoverInv
  <2>5. QED BY <1>1, <2>1, <2>2, <2>3, <2>4 DEF Ahead
<1>12. OnlyKept' /\ NothingIsLost'
  <2>1. ~Succeeded' /\ ret' # Error
    BY <1>1, <1>3 DEF Succeeded, Pending, Error
  <2>2. QED BY <2>1 DEF OnlyKept, NothingIsLost
<1>13. QED BY <1>5, <1>6, <1>7, <1>9, <1>10, <1>11, <1>12 DEF IInv

LEMMA ReadDirInv ==
  ASSUME IInv, NEW p \in Entry \union {0}, ReadDir(p)
  PROVE  IInv'
<1>1. pc = "walk" /\ p \in pending /\ Visiting(p) /\ Readable(p) /\ (p = 0 \/ p \in Dirs)
  BY DEF ReadDir, Visiting, Readable
<1>2. CASE Skip(p, {<<"walk-error", p>>})
  <2>1. {<<"walk-error", p>>} \in SUBSET ((NoticeKinds \ {"truncated"}) \X (Entry \union {0}))
    BY DEF NoticeKinds
  <2>2. ASSUME NEW n \in Fit \ gone, p = 0 \/ p = n \/ Inside(n, p)
        PROVE  \/ <<"walk-error", 0>> \in {<<"walk-error", p>>}
               \/ \E d \in Dirs : Inside(n, d) /\ <<"walk-error", d>> \in {<<"walk-error", p>>}
    BY <1>1, <2>2, FitFacts
  <2>3. cur' \in Docs \union {0} /\ pc' = "walk"
    BY <1>1, <1>2 DEF Skip, IInv, TypeOK
  <2>4. QED BY <1>1, <1>2, <2>1, <2>2, <2>3, LeaveInv DEF Skip
<1>3. CASE ~Skip(p, {<<"walk-error", p>>})
  BY <1>1, <1>3, OpenDirInv DEF ReadDir
<1>4. QED BY <1>2, <1>3

LEMMA CanonicalizeInv ==
  ASSUME IInv, NEW p \in Entry \union {0}, Canonicalize(p)
  PROVE  IInv'
<1>1. /\ pc = "walk" /\ pc' = "stat" /\ cur' = p /\ p \in Docs /\ ~Matches(p)
      /\ p \in pending /\ \A m \in pending : p <= m
      /\ UNCHANGED gone /\ UNCHANGED git /\ UNCHANGED ctxDone /\ UNCHANGED pending
      /\ UNCHANGED files /\ UNCHANGED ret /\ UNCHANGED notices
      /\ UNCHANGED <<given, git>>
      /\ UNCHANGED <<local, rules, nested, large, out, respect>>
  BY DEF Canonicalize, Visiting, given
<1>2. /\ Ignored' = Ignored /\ Fit' = Fit
      /\ \A n \in Entry : Matches(n)' <=> Matches(n)
      /\ \A d \in Dirs : Barred(d)' <=> Barred(d)
  BY <1>1, SameRules
<1>3. ret = Pending
  BY <1>1 DEF IInv, StageInv
<1>4. TypeOK'
  BY <1>1 DEF IInv, TypeOK
<1>5. StageInv'
  <2>1. ~Matches(p)'
    BY <1>1, <1>2, EntryFacts
  <2>2. ~Matches(cur)'
    BY <1>1, <2>1 DEF Matches, GitLine
  <2>3. ~Truncated'
    BY <1>1 DEF IInv, StageInv, Truncated
  <2>4. QED BY <1>1, <1>3, <2>2, <2>3 DEF StageInv
<1>6. GoneInv'
  BY <1>1 DEF IInv, GoneInv
<1>7. WayInv'
  BY <1>1, <1>2 DEF IInv, WayInv
<1>8. FilesInv'
  BY <1>1, <1>2 DEF IInv, FilesInv
<1>9. CoverInv'
  BY <1>1, <1>2 DEF IInv, CoverInv, Blamed, Ahead
<1>10. OnlyKept' /\ NothingIsLost'
  <2>1. ~Succeeded' /\ ret' # Error
    BY <1>1, <1>3 DEF Succeeded, Pending, Error
  <2>2. QED BY <2>1 DEF OnlyKept, NothingIsLost
<1>11. QED BY <1>4, <1>5, <1>6, <1>7, <1>8, <1>9, <1>10 DEF IInv

LEMMA AcceptInv ==
  ASSUME IInv, Accept
  PROVE  IInv'
<1>1. /\ pc = "stat" /\ pc' = "walk" /\ cur' = 0 /\ cur \notin gone \union large
      /\ Len(files) < MaxFiles /\ files' = Append(files, cur)
      /\ pending' = pending \ {cur}
      /\ UNCHANGED gone /\ UNCHANGED git /\ UNCHANGED ctxDone
      /\ UNCHANGED ret /\ UNCHANGED notices
      /\ UNCHANGED <<given, git>>
      /\ UNCHANGED <<local, rules, nested, large, out, respect>>
  BY DEF Accept, given
<1>2. Ignored' = Ignored /\ Fit' = Fit /\ \A d \in Dirs : Barred(d)' <=> Barred(d)
  BY <1>1, SameRules
<1>3. /\ cur \in pending /\ cur \in Docs /\ cur \in Entry /\ cur \in Nat
      /\ ~Matches(cur) /\ \A m \in pending : cur <= m
      /\ ret = Pending /\ ~Truncated
  BY <1>1, EntryFacts DEF IInv, StageInv
<1>4. files \in Seq(Docs) /\ Len(files) \in Nat
  BY DEF IInv, TypeOK
<1>5. /\ files' \in Seq(Docs) /\ Len(files') = Len(files) + 1
      /\ \A k \in 1..Len(files) : files'[k] = files[k]
      /\ files'[Len(files) + 1] = cur
  BY <1>1, <1>3, <1>4
<1>6. \A k \in 1..Len(files') : k \in 1..Len(files) \/ k = Len(files) + 1
  BY <1>4, <1>5
<1>7. TypeOK'
  <2>1. Len(files') <= MaxFiles
    BY <1>1, <1>4, <1>5, ScanWalkAssumption
  <2>2. QED BY <1>1, <1>5, <2>1 DEF IInv, TypeOK
<1>8. StageInv'
  BY <1>1, <1>3 DEF StageInv, Truncated
<1>9. GoneInv'
  BY <1>1 DEF IInv, GoneInv
<1>10. WayInv'
  <2>1. \A n \in pending', d \in Dirs : Inside(n, d) => ~Barred(d)
    BY <1>1 DEF IInv, WayInv
  <2>2. ASSUME NEW k \in 1..Len(files'), NEW d \in Dirs, Inside(files'[k], d)
        PROVE  ~Barred(d)
    <3>1. CASE k \in 1..Len(files)
      BY <1>5, <2>2, <3>1 DEF IInv, WayInv
    <3>2. CASE k = Len(files) + 1
      BY <1>3, <1>5, <2>2, <3>2 DEF IInv, WayInv
    <3>3. QED BY <1>6, <3>1, <3>2
  <2>3. QED BY <1>2, <2>1, <2>2 DEF WayInv
<1>11. FilesInv'
  <2>1. ASSUME NEW k \in 1..Len(files') PROVE files'[k] \notin Ignored \union large
    <3>1. CASE k \in 1..Len(files)
      BY <1>5, <3>1 DEF IInv, FilesInv
    <3>2. CASE k = Len(files) + 1
      BY <1>1, <1>3, <1>5, <3>2 DEF Ignored
    <3>3. QED BY <1>6, <3>1, <3>2
  <2>2. ASSUME NEW j \in 1..Len(files'), NEW k \in 1..Len(files'), j < k
        PROVE  files'[j] < files'[k]
    <3>1. CASE k \in 1..Len(files)
      <4>1. j \in 1..Len(files)
        BY <1>4, <2>2, <3>1
      <4>2. QED BY <1>5, <2>2, <3>1, <4>1 DEF IInv, FilesInv
    <3>2. CASE k = Len(files) + 1
      <4>1. j \in 1..Len(files)
        BY <1>4, <1>5, <2>2, <3>2
      <4>2. QED BY <1>3, <1>5, <3>2, <4>1 DEF IInv, FilesInv
    <3>3. QED BY <1>6, <3>1, <3>2
  <2>3. ASSUME NEW k \in 1..Len(files'), NEW m \in pending' PROVE files'[k] < m
    <3>1. CASE k \in 1..Len(files)
      BY <1>1, <1>5, <3>1 DEF IInv, FilesInv
    <3>2. CASE k = Len(files) + 1
      <4>1. m \in Nat /\ cur <= m /\ cur # m
        BY <1>1, <1>3, EntryFacts DEF IInv, TypeOK
      <4>2. QED BY <1>3, <1>5, <3>2, <4>1
    <3>3. QED BY <1>6, <3>1, <3>2
  <2>4. QED BY <1>1, <1>2, <2>1, <2>2, <2>3 DEF FilesInv
<1>12. CoverInv'
  <2> SUFFICES ASSUME NEW n \in Fit \ gone
               PROVE  (n \in ToSet(files) \/ Blamed(n) \/ Ahead(n))'
    BY <1>1, <1>2 DEF CoverInv
  <2>1. Blamed(n) => Blamed(n)'
    BY <1>1 DEF Blamed
  <2>2. ToSet(files) \subseteq ToSet(files') /\ cur \in ToSet(files')
    BY <1>4, <1>5 DEF ToSet
  <2>3. CASE \E q \in pending : q # cur /\ (q = 0 \/ q = n \/ Inside(n, q))
    BY <1>1, <2>3 DEF Ahead
  <2>4. CASE cur = 0 \/ cur = n \/ Inside(n, cur)
    <3>1. cur # 0 /\ cur \notin Dirs
      BY <1>3, EntryFacts
    <3>2. cur = n
      BY <1>3, <2>4, <3>1, FitFacts
    <3>3. QED BY <2>2, <3>2
  <2>5. n \in ToSet(files) \/ Blamed(n) \/ Ahead(n)
    BY <1>1 DEF IInv, CoverInv
  <2>6. QED BY <2>1, <2>2, <2>3, <2>4, <2>5 DEF Ahead
<1>13. OnlyKept' /\ NothingIsLost'
  <2>1. ~Succeeded' /\ ret' # Error
    BY <1>1, <1>3 DEF Succeeded, Pending, Error
  <2>2. QED BY <2>1 DEF OnlyKept, NothingIsLost
<1>14. QED BY <1>7, <1>8, <1>9, <1>10, <1>11, <1>12, <1>13 DEF IInv

\* The sort at the end loses nothing, adds nothing and orders by identity.
LEMMA SortedFiles ==
  ASSUME IInv
  PROVE  /\ Sorted(files) \in Seq(Docs) /\ ToSet(Sorted(files)) = ToSet(files)
         /\ Len(Sorted(files)) = Len(files)
         /\ \A j, k \in 1..Len(Sorted(files)) :
              j < k => Rank[Sorted(files)[j]] < Rank[Sorted(files)[k]]
<1> DEFINE S == ToSet(files)
           t == Sorted(files)
<1>1. files \in Seq(Docs)
  BY DEF IInv, TypeOK
<1>2. IsFiniteSet(S) /\ S \subseteq Docs
  BY <1>1, ElementsOfSeq
<1>3. Cardinality(S) = Len(files)
  <2> SUFFICES \A j, k \in 1..Len(files) : files[j] = files[k] => j = k
    BY <1>1, DistinctSeq
  <2> SUFFICES ASSUME NEW j \in 1..Len(files), NEW k \in 1..Len(files),
                      files[j] = files[k], j # k
               PROVE  FALSE
    OBVIOUS
  <2>1. files[j] \in Docs /\ files[k] \in Docs
    BY <1>1
  <2>2. files[j] \in Nat /\ files[k] \in Nat
    BY <2>1, EntryFacts
  <2>3. j < k \/ k < j
    OBVIOUS
  <2>4. QED BY <2>2, <2>3 DEF IInv, FilesInv
<1>4. (\A u \in S : Rank[u] \in Int) /\ \A u, v \in S : Rank[u] = Rank[v] => u = v
  <2> HIDE DEF S
  <2>1. Rank \in [Docs -> Nat] /\ \A m, n \in Docs : Rank[m] = Rank[n] => m = n
    BY ScanWalkAssumption
  <2> HIDE DEF Docs
  <2>2. QED BY <1>2, <2>1
<1>5. /\ Cardinality(S) \in Nat /\ t \in [1..Cardinality(S) -> S]
      /\ \A u \in S : \E k \in 1..Cardinality(S) : t[k] = u
      /\ \A j, k \in 1..Cardinality(S) : j < k => Rank[t[j]] < Rank[t[k]]
  BY <1>2, <1>4, SortedByIsSorted DEF Sorted
<1> HIDE DEF S, t
<1>6. t \in Seq(S) /\ Len(t) = Cardinality(S) /\ DOMAIN t = 1..Cardinality(S)
  BY <1>5
<1>7. t \in Seq(Docs)
  BY <1>2, <1>6
<1>8. ToSet(t) = S
  BY <1>5, <1>6 DEF ToSet
<1>9. QED BY <1>3, <1>5, <1>6, <1>7, <1>8 DEF S, t

\* What was collected are documents that the rules leave in.
LEMMA FilesKept ==
  ASSUME IInv
  PROVE  ToSet(files) \subseteq Fit
<1>1. files \in Seq(Docs)
  BY DEF IInv, TypeOK
<1> SUFFICES ASSUME NEW k \in 1..Len(files) PROVE files[k] \in Fit
  BY <1>1 DEF ToSet
<1>2. files[k] \in Docs
  BY <1>1
<1>3. files[k] \notin Ignored \union large
  BY DEF IInv, FilesInv
<1>4. \A d \in Dirs : Inside(files[k], d) => ~Shut(d, Ignored)
  BY DEF IInv, WayInv, Barred
<1>5. QED BY <1>2, <1>3, <1>4 DEF Fit, Kept

\* The scan returns what it has collected: it came to the end of the walk, or the cap
\* ended it.
LEMMA ReturnInv ==
  ASSUME IInv, Finish \/ Truncate
  PROVE  IInv'
<1>1. /\ pc' = "done" /\ ret' = [kind |-> "ok", files |-> Sorted(files)]
      /\ UNCHANGED gone /\ UNCHANGED git /\ UNCHANGED ctxDone /\ UNCHANGED pending
      /\ UNCHANGED cur /\ UNCHANGED files
      /\ UNCHANGED <<given, git>>
      /\ UNCHANGED <<local, rules, nested, large, out, respect>>
  BY DEF Finish, Truncate, Return, given
<1>2. Ignored' = Ignored /\ Fit' = Fit /\ \A d \in Dirs : Barred(d)' <=> Barred(d)
  BY <1>1, SameRules
<1>3. \/ notices' = notices /\ pc = "walk" /\ pending = {}
      \/ notices' = notices \union {<<"truncated", 0>>} /\ Len(files) >= MaxFiles /\ pc = "stat"
  BY DEF Finish, Truncate
<1>4. /\ Sorted(files) \in Seq(Docs) /\ ToSet(Sorted(files)) = ToSet(files)
      /\ Len(Sorted(files)) = Len(files)
      /\ \A j, k \in 1..Len(Sorted(files)) :
           j < k => Rank[Sorted(files)[j]] < Rank[Sorted(files)[k]]
  BY SortedFiles
<1> HIDE DEF Sorted
<1>5. ret'.kind = "ok" /\ ret'.files = Sorted(files) /\ ret' # Pending /\ ret' # Error
  BY <1>1 DEF Pending, Error
<1>6. TypeOK'
  <2>1. notices' \subseteq NoticeKinds \X (Entry \union {0})
    BY <1>3 DEF IInv, TypeOK, NoticeKinds
  <2>2. ret' \in [kind : {"ok"}, files : Seq(Docs)]
    BY <1>1, <1>4
  <2>3. QED BY <1>1, <2>1, <2>2 DEF IInv, TypeOK
<1>7. StageInv'
  BY <1>1, <1>5 DEF StageInv
<1>8. GoneInv'
  BY <1>1 DEF IInv, GoneInv
<1>9. WayInv'
  BY <1>1, <1>2 DEF IInv, WayInv
<1>10. FilesInv'
  BY <1>1, <1>2 DEF IInv, FilesInv
<1>11. CoverInv'
  BY <1>1 DEF CoverInv
<1>12. OnlyKept'
  <2>1. ToSet(ret'.files) \subseteq Fit'
    BY <1>2, <1>4, <1>5, FilesKept
  <2>2. Truncated' => Len(ret'.files) = MaxFiles
    <3> SUFFICES ASSUME Truncated' PROVE Len(files) = MaxFiles
      BY <1>4, <1>5
    <3>1. pc \in {"walk", "stat"}
      BY <1>3
    <3>2. ~Truncated
      BY <3>1 DEF IInv, StageInv
    <3>3. Len(files) >= MaxFiles
      BY <1>3, <3>2 DEF Truncated
    <3>4. Len(files) <= MaxFiles /\ Len(files) \in Nat
      BY DEF IInv, TypeOK
    <3>5. QED BY <3>3, <3>4, ScanWalkAssumption
  <2>3. QED BY <1>4, <1>5, <2>1, <2>2 DEF OnlyKept, Fit
<1>13. NothingIsLost'
  <2>1. ASSUME NEW n \in Fit' \ gone'
        PROVE  \/ n \in ToSet(ret'.files) \/ Truncated'
               \/ <<"walk-error", 0>> \in notices'
               \/ \E d \in Dirs : Inside(n, d) /\ <<"walk-error", d>> \in notices'
    <3>1. CASE pc = "walk" /\ pending = {} /\ notices' = notices
      <4>1. n \in ToSet(files) \/ Blamed(n)
        BY <1>1, <1>2, <2>1, <3>1 DEF IInv, CoverInv, Ahead
      <4>2. QED BY <1>4, <1>5, <3>1, <4>1 DEF Blamed
    <3>2. CASE notices' = notices \union {<<"truncated", 0>>}
      BY <3>2 DEF Truncated
    <3>3. QED BY <1>3, <3>1, <3>2
  <2>2. QED BY <1>5, <2>1 DEF NothingIsLost, Fit
<1>14. QED BY <1>6, <1>7, <1>8, <1>9, <1>10, <1>11, <1>12, <1>13 DEF IInv

LEMMA NextInv == IInv /\ [Next]_vars => IInv'
<1> SUFFICES ASSUME IInv, [Next]_vars PROVE IInv'
  OBVIOUS
<1>1. CASE OpenRoot
  BY <1>1, FailInv DEF OpenRoot, Return, BadRoot, Error
<1>2. CASE Collect
  BY <1>2, CollectInv
<1>3. CASE Reject
  BY <1>3, RejectInv
<1>4. CASE Accept
  BY <1>4, AcceptInv
<1>5. CASE Truncate \/ Finish
  BY <1>5, ReturnInv
<1>6. ASSUME NEW n \in Entry \union {0}, Visit(n) PROVE IInv'
  <2>1. CASE Stop(n)
    BY <2>1, FailInv DEF Stop, Return
  <2>2. CASE PruneDir(n)
    BY <2>2, PruneDirInv
  <2>3. CASE ReadDir(n)
    BY <2>3, ReadDirInv
  <2>4. CASE PassFile(n)
    BY <2>4, PassFileInv
  <2>5. CASE Canonicalize(n)
    BY <2>5, CanonicalizeInv
  <2>6. QED BY <1>6, <2>1, <2>2, <2>3, <2>4, <2>5 DEF Visit
<1>7. CASE Cancel
  BY <1>7, StillInv DEF Cancel
<1>8. ASSUME NEW n \in Entry, Vanish(n) PROVE IInv'
  BY <1>8, VanishInv
<1>9. CASE UNCHANGED vars
  <2>1. /\ UNCHANGED <<given, gone, pc, git, pending, cur, files, notices, ret>>
        /\ UNCHANGED ctxDone
    BY <1>9 DEF vars
  <2>2. ctxDone \in BOOLEAN
    BY DEF IInv, TypeOK
  <2>3. QED BY <2>1, <2>2, StillInv
<1>10. QED
  BY <1>1, <1>2, <1>3, <1>4, <1>5, <1>6, <1>7, <1>8, <1>9 DEF Next, Walk, Terminating

LEMMA Invariance == Spec => []IInv
<1>1. QED BY InitInv, NextInv, PTL DEF Spec

-----------------------------------------------------------------------------
(* The theorems.                                                            *)

\* The output directory bars itself and all that is under it, so nothing kept is in it.
LEMMA CleanOf == IInv => ScanIsClean
<1> SUFFICES ASSUME IInv PROVE ScanIsClean
  OBVIOUS
<1>1. OutputStaysOut
  <2> SUFFICES ASSUME Succeeded, out[1] = "inside", NEW n \in ToSet(ret.files)
               PROVE  ~Inside(n, out[2])
    BY DEF OutputStaysOut
  <2>1. n \in Kept(Ignored)
    BY DEF IInv, OnlyKept
  <2>2. out[2] \in Dirs
    <3>1. out \in OutPlaces
      BY ScanWalkAssumption DEF IInv, TypeOK
    <3>2. QED BY <3>1 DEF OutPlaces
  <2>3. OutputExcludes(out[2])
    BY DEF OutputExcludes
  <2>4. QED BY <2>1, <2>2, <2>3 DEF Kept, Shut
<1>2. QED BY <1>1 DEF IInv, ScanIsClean

\* Scan returns only documents that no rule keeps out and nothing that lies under the
\* output directory, each once and in the order of the identities, and as many as the
\* cap allows when it says so; whatever disappears while it walks.
THEOREM CleanScan == Spec => []ScanIsClean
<1>1. QED BY Invariance, CleanOf, PTL

\* No document that the rules leave in and that is still there is lost in silence: the
\* result has it, or the scan was truncated, or a directory it is in has a notice; and
\* only the end of the context stops the walk.
THEOREM NothingLost == Spec => []NothingIsLost
<1>1. IInv => NothingIsLost
  BY DEF IInv
<1>2. QED BY <1>1, Invariance, PTL
=============================================================================
