-------------------------- MODULE StructureProofs ---------------------------
(***************************************************************************)
(* What the references, the graph and its structure are, for every corpus, *)
(* every set of references and every settings an input may hold            *)
(* (InputsAssumption): resolution, the reference graph, union-find, the    *)
(* strong components and the bow-tie.                                      *)
(*                                                                         *)
(* The recursive functions of the model are reasoned about without         *)
(* induction over data: what a loop computes step by step exists as a      *)
(* function of the step (IterationExists), what holds at the start and is  *)
(* kept by every step holds at the end (Upward), and a counterexample      *)
(* would have a least step (LeastOf).                                      *)
(***************************************************************************)
EXTENDS Analysis, FiniteSetTheorems, WellFoundedInduction, TLAPS

\* A set of numbers has a least one, because their order is well-founded.
LEMMA LeastOf ==
  ASSUME NEW S \in SUBSET Nat, S # {}
  PROVE  \E x \in S : \A y \in S : x <= y
<1> DEFINE R == {ss \in Nat \X Nat : ss[1] < ss[2]}
<1>1. IsWellFoundedOn(R, Nat)
  BY NatLessThanWellFounded DEF OpToRel
<1>2. \A x, y \in Nat : <<y, x>> \in R <=> y < x
  OBVIOUS
<1> HIDE DEF R
<1>3. PICK x \in S : \A y \in S : ~(<<y, x>> \in R)
  BY <1>1, WFMin
<1>4. ASSUME NEW y \in S PROVE x <= y
  <2>1. x \in Nat /\ y \in Nat
    OBVIOUS
  <2>2. ~(y < x)
    BY <1>2, <1>3, <2>1
  <2>3. QED BY <2>1, <2>2
<1>5. QED BY <1>4

\* Min and Max of a nonempty finite set of numbers.
LEMMA MinOf ==
  ASSUME NEW S \in SUBSET Nat, S # {}
  PROVE  Min(S) \in S /\ \A y \in S : Min(S) <= y
BY LeastOf DEF Min

\* A finite set of numbers has a greatest one.
LEMMA MaxOf ==
  ASSUME NEW S \in SUBSET Nat, S # {}, IsFiniteSet(S)
  PROVE  Max(S) \in S /\ \A y \in S : y <= Max(S)
<1> SUFFICES \E x \in S : \A y \in S : y <= x
  BY DEF Max
<1> DEFINE Beyond(x) == {y \in S : x < y}
           N == {Cardinality(Beyond(x)) : x \in S}
<1>1. ASSUME NEW x \in S
      PROVE  IsFiniteSet(Beyond(x)) /\ Cardinality(Beyond(x)) \in Nat
  BY FS_Subset, FS_CardinalityType
<1>2. N \in SUBSET Nat /\ N # {}
  BY <1>1
<1>3. PICK n \in N : \A m \in N : n <= m
  BY <1>2, LeastOf
<1>4. PICK x \in S : n = Cardinality(Beyond(x))
  OBVIOUS
<1>5. ASSUME NEW y \in S, x < y PROVE FALSE
  <2>1. Beyond(y) \in SUBSET Beyond(x) /\ y \in Beyond(x) /\ y \notin Beyond(y)
    <3>1. S \subseteq Nat /\ x \in Nat /\ y \in Nat
      OBVIOUS
    <3>2. \A z \in S : z \in Beyond(y) => z \in Beyond(x)
      BY <1>5, <3>1
    <3>3. y \in Beyond(x) /\ y \notin Beyond(y)
      BY <1>5, <3>1
    <3>4. QED BY <3>2, <3>3
  <2>2. Cardinality(Beyond(x)) <= Cardinality(Beyond(y))
    BY <1>3, <1>4
  <2>3. Cardinality(Beyond(y)) <= Cardinality(Beyond(x)) /\ Beyond(y) # Beyond(x)
    BY <1>1, <2>1, FS_Subset
  <2>4. Cardinality(Beyond(y)) # Cardinality(Beyond(x))
    BY <1>1, <2>1, <2>3, FS_Subset
  <2>5. QED BY <1>1, <2>2, <2>3, <2>4
<1>6. QED BY <1>5

\* A sequence of values, each computed from the one before, exists: the least
\* length it does not exist for would extend the one before.
IsStep(n, S, step) == step \in [1..n -> [S -> S]]

Iterates(f, n, S, base, step) ==
  f \in [0..n -> S] /\ f[0] = base /\ \A i \in 1..n : f[i] = step[i][f[i - 1]]

\* What a loop computes, step by step, exists as a function of the step: it takes the
\* place of recursion.
LEMMA IterationExists ==
  ASSUME NEW n \in Nat, NEW S, NEW base \in S, NEW step, IsStep(n, S, step)
  PROVE  \E f : Iterates(f, n, S, base, step)
<1> USE DEF IsStep
<1> DEFINE Is(k, f) == /\ f \in [0..k -> S] /\ f[0] = base
                       /\ \A i \in 1..k : f[i] = step[i][f[i - 1]]
           Bad == {k \in 0..n : ~\E f : Is(k, f)}
<1>1. Bad = {}
  <2> SUFFICES ASSUME Bad # {} PROVE FALSE
    OBVIOUS
  <2>1. PICK k \in Bad : \A j \in Bad : k <= j
    <3>1. Bad \in SUBSET Nat
      OBVIOUS
    <3> HIDE DEF Bad
    <3>2. QED BY <3>1, LeastOf
  <2>2. k # 0
    <3>1. Is(0, [i \in 0..0 |-> base])
      OBVIOUS
    <3>2. QED BY <3>1
  <2>3. k \in 1..n /\ k - 1 \in 0..n /\ ~(k <= k - 1)
    BY <2>2
  <2>4. PICK f : Is(k - 1, f)
    BY <2>1, <2>3
  <2> DEFINE g == [i \in 0..k |-> IF i < k THEN f[i] ELSE step[k][f[k - 1]]]
  <2>5. f[k - 1] \in S /\ step[k][f[k - 1]] \in S
    BY <2>3, <2>4
  <2>6. g \in [0..k -> S]
    BY <2>3, <2>4, <2>5
  <2>7. g[0] = base /\ \A i \in 1..k : g[i] = step[i][g[i - 1]]
    BY <2>3, <2>4
  <2>8. Is(k, g)
    BY <2>6, <2>7
  <2>9. QED BY <2>1, <2>8
<1>2. PICK f : Is(n, f)
  <2>1. n \in 0..n
    OBVIOUS
  <2> HIDE DEF Is
  <2>2. QED BY <1>1, <2>1
<1>3. QED BY <1>2 DEF Iterates

\* What holds at the start and is handed on holds everywhere.
LEMMA Upward ==
  ASSUME NEW n \in Nat, NEW P \in SUBSET Nat, 0 \in P,
         \A i \in 1..n : i - 1 \in P => i \in P
  PROVE  0..n \subseteq P
<1> DEFINE Bad == (0..n) \ P
<1> SUFFICES ASSUME Bad # {} PROVE FALSE
  OBVIOUS
<1>1. PICK k \in Bad : \A j \in Bad : k <= j
  <2>1. Bad \in SUBSET Nat
    OBVIOUS
  <2> HIDE DEF Bad
  <2>2. QED BY <2>1, LeastOf
<1>2. k # 0 /\ k \in 1..n /\ k - 1 \in 0..n /\ ~(k <= k - 1)
  OBVIOUS
<1>3. k - 1 \in P
  BY <1>1, <1>2
<1>4. QED BY <1>2, <1>3

-----------------------------------------------------------------------------
(* Finite sets with an order, as a set of pairs.                           *)

Irreflexive(R) == \A x : <<x, x>> \notin R
Transitive(S, R) == \A x, y, z \in S : <<x, y>> \in R /\ <<y, z>> \in R => <<x, z>> \in R
Total(S, R) == \A x, y \in S : x = y \/ <<x, y>> \in R \/ <<y, x>> \in R

Under(S, R, x) == {y \in S : <<y, x>> \in R}

\* In a strict order, what is below an element is fewer than what is below one above it.
LEMMA UnderGrows ==
  ASSUME NEW S, IsFiniteSet(S), NEW R, Irreflexive(R), Transitive(S, R),
         NEW x \in S, NEW y \in S, <<y, x>> \in R
  PROVE  /\ Cardinality(Under(S, R, y)) \in Nat /\ Cardinality(Under(S, R, x)) \in Nat
         /\ Cardinality(Under(S, R, y)) < Cardinality(Under(S, R, x))
<1>1. /\ Under(S, R, y) \in SUBSET Under(S, R, x)
      /\ y \in Under(S, R, x) /\ y \notin Under(S, R, y)
  BY DEF Under, Irreflexive, Transitive
<1>2. IsFiniteSet(Under(S, R, x)) /\ IsFiniteSet(Under(S, R, y))
  BY FS_Subset DEF Under
<1>3. QED BY <1>1, <1>2, FS_Subset, FS_CardinalityType

\* A finite set has an element that none precedes.
LEMMA FirstOne ==
  ASSUME NEW S, IsFiniteSet(S), S # {}, NEW R, Irreflexive(R), Transitive(S, R)
  PROVE  \E x \in S : \A y \in S : <<y, x>> \notin R
<1> DEFINE N == {Cardinality(Under(S, R, x)) : x \in S}
<1>1. \A x \in S : Cardinality(Under(S, R, x)) \in Nat
  BY FS_Subset, FS_CardinalityType DEF Under
<1>2. N \in SUBSET Nat /\ N # {}
  BY <1>1
<1>3. PICK n \in N : \A m \in N : n <= m
  BY <1>2, LeastOf
<1>4. PICK x \in S : n = Cardinality(Under(S, R, x))
  OBVIOUS
<1>5. ASSUME NEW y \in S, <<y, x>> \in R PROVE FALSE
  <2>1. n <= Cardinality(Under(S, R, y))
    BY <1>3
  <2>2. QED BY <1>4, <1>5, <2>1, UnderGrows
<1>6. QED BY <1>5

\* The elements before each one number a finite set through, if the order is
\* total.
LEMMA Numbered ==
  ASSUME NEW S, IsFiniteSet(S), NEW R, Irreflexive(R), Transitive(S, R), Total(S, R)
  PROVE  /\ Cardinality(S) \in Nat
         /\ [x \in S |-> Cardinality(Under(S, R, x))] \in Bijection(S, 0..(Cardinality(S) - 1))
<1> DEFINE n == Cardinality(S)
           at == [x \in S |-> Cardinality(Under(S, R, x))]
<1>1. n \in Nat
  BY FS_CardinalityType
<1>2. ASSUME NEW x \in S
      PROVE  at[x] \in 0..(n - 1)
  <2>1. Under(S, R, x) \in SUBSET S /\ x \notin Under(S, R, x)
    BY DEF Under, Irreflexive
  <2>2. at[x] \in Nat /\ at[x] <= n /\ at[x] # n
    BY <2>1, FS_Subset, FS_CardinalityType
  <2>3. QED BY <1>1, <2>2
<1>3. ASSUME NEW x \in S, NEW y \in S, at[x] = at[y]
      PROVE  x = y
  <2> SUFFICES ASSUME x # y PROVE FALSE
    OBVIOUS
  <2>1. <<x, y>> \in R \/ <<y, x>> \in R
    BY DEF Total
  <2>2. Cardinality(Under(S, R, x)) = Cardinality(Under(S, R, y))
    BY <1>3
  <2>3. CASE <<x, y>> \in R
    BY <2>2, <2>3, UnderGrows
  <2>4. CASE <<y, x>> \in R
    BY <2>2, <2>4, UnderGrows
  <2>5. QED BY <2>1, <2>3, <2>4
<1>4. at \in Injection(S, 0..(n - 1))
  BY <1>2, <1>3 DEF Injection, IsInjective
<1>5. IsFiniteSet(0..(n - 1)) /\ Cardinality(0..(n - 1)) = n
  BY <1>1, FS_Interval, SMTT(30)
<1>6. at \in Surjection(S, 0..(n - 1))
  BY <1>4, <1>5, FS_Injection
<1>7. QED BY <1>1, <1>4, <1>6 DEF Bijection

\* Of the elements with few before them there are as many as asked for.
LEMMA FirstFew ==
  ASSUME NEW S, IsFiniteSet(S), NEW R, Irreflexive(R), Transitive(S, R), Total(S, R),
         NEW k \in Nat, k <= Cardinality(S)
  PROVE  Cardinality({x \in S : Cardinality(Under(S, R, x)) < k}) = k
<1> DEFINE n == Cardinality(S)
           at == [x \in S |-> Cardinality(Under(S, R, x))]
           few == {x \in S : Cardinality(Under(S, R, x)) < k}
           num == [x \in few |-> at[x]]
<1>1. n \in Nat /\ at \in Bijection(S, 0..(n - 1))
  BY Numbered
<1>2. \A x \in few : at[x] = Cardinality(Under(S, R, x)) /\ at[x] < k /\ x \in S
  OBVIOUS
<1>3. \A x \in S : at[x] < k => x \in few
  OBVIOUS
<1> HIDE DEF at, n, few
<1>4. num \in Bijection(few, 0..(k - 1))
  <2>1. \A x \in few : num[x] \in 0..(k - 1)
    BY <1>1, <1>2 DEF Bijection, Injection
  <2>2. \A x, y \in few : num[x] = num[y] => x = y
    BY <1>1, <1>2 DEF Bijection, Injection, IsInjective
  <2>3. ASSUME NEW i \in 0..(k - 1)
        PROVE  \E x \in few : num[x] = i
    <3>1. i \in 0..(n - 1)
      BY <1>1 DEF n
    <3>2. PICK x \in S : at[x] = i
      BY <1>1, <3>1 DEF Bijection, Surjection
    <3>3. x \in few
      BY <1>3, <3>2
    <3>4. QED BY <3>2, <3>3
  <2>4. num \in [few -> 0..(k - 1)]
    BY <2>1
  <2> HIDE DEF num
  <2>5. QED BY <2>2, <2>3, <2>4 DEF Bijection, Injection, IsInjective, Surjection
<1>5. IsFiniteSet(few)
  BY FS_Subset DEF few
<1>6. IsFiniteSet(0..(k - 1)) /\ Cardinality(0..(k - 1)) = k
  BY FS_Interval
<1> HIDE DEF num
<1>7. Cardinality(few) = Cardinality(0..(k - 1))
  BY <1>4, <1>5, <1>6, FS_Bijection DEF ExistsBijection
<1>8. QED BY <1>6, <1>7 DEF few

\* The sorted documents of a set are its documents.
LEMMA SortedOf ==
  ASSUME NEW S \in SUBSET Nat, IsFiniteSet(S)
  PROVE  /\ Cardinality(S) \in Nat
         /\ \A i \in 1..Cardinality(S) : Sorted(S)[i] \in S
         /\ \A x \in S : \E i \in 1..Cardinality(S) : Sorted(S)[i] = x
         /\ \A i, k \in 1..Cardinality(S) : Sorted(S)[i] = Sorted(S)[k] => i = k
<1> DEFINE R == {p \in S \X S : p[1] < p[2]}
           n == Cardinality(S)
           at == [x \in S |-> Cardinality(Under(S, R, x))]
<1>1. Irreflexive(R) /\ Transitive(S, R) /\ Total(S, R)
  <2>1. S \subseteq Nat /\ \A x, y \in S : <<x, y>> \in R <=> x < y
    OBVIOUS
  <2>2. ASSUME NEW x, <<x, x>> \in R PROVE FALSE
    <3>1. x \in S /\ x < x
      BY <2>2
    <3>2. QED BY <2>1, <3>1
  <2> HIDE DEF R
  <2>3. Transitive(S, R) /\ Total(S, R)
    BY <2>1 DEF Transitive, Total
  <2>4. QED BY <2>2, <2>3 DEF Irreflexive
<1>2. n \in Nat /\ at \in Bijection(S, 0..(n - 1))
  BY <1>1, Numbered
<1>3. \A x \in S : {y \in S : y < x} = Under(S, R, x)
  BY DEF Under
<1>4. \A x \in S : Cardinality({y \in S : y < x}) = at[x]
  BY <1>3
<1> HIDE DEF R, at
<1>5. ASSUME NEW i \in 1..n
      PROVE  Sorted(S)[i] \in S /\ at[Sorted(S)[i]] = i - 1
  <2>1. i - 1 \in 0..(n - 1)
    BY <1>2
  <2>2. PICK x \in S : at[x] = i - 1
    BY <1>2, <2>1 DEF Bijection, Surjection
  <2>3. Sorted(S)[i] = CHOOSE u \in S : Cardinality({y \in S : y < u}) = i - 1
    BY DEF Sorted
  <2>4. QED BY <1>4, <2>2, <2>3
<1>6. ASSUME NEW x \in S
      PROVE  \E i \in 1..n : Sorted(S)[i] = x
  <2>1. at[x] \in 0..(n - 1)
    BY <1>2 DEF Bijection, Injection
  <2>2. at[x] + 1 \in 1..n
    BY <1>2, <2>1
  <2>3. Sorted(S)[at[x] + 1] \in S /\ at[Sorted(S)[at[x] + 1]] = at[x]
    BY <1>5, <2>1, <2>2
  <2>4. Sorted(S)[at[x] + 1] = x
    BY <1>2, <2>3 DEF Bijection, Injection, IsInjective
  <2>5. QED BY <2>2, <2>4
<1>7. \A i, k \in 1..n : Sorted(S)[i] = Sorted(S)[k] => i = k
  BY <1>2, <1>5
<1>8. QED BY <1>2, <1>5, <1>6, <1>7

\* What is computed one by one from finitely many values is finite.
LEMMA ImagesFinite ==
  ASSUME NEW S, IsFiniteSet(S), NEW fun, NEW T, \A y \in T : \E x \in S : y = fun[x]
  PROVE  IsFiniteSet(T)
<1> DEFINE U == {fun[x] : x \in S}
           g == [x \in S |-> fun[x]]
<1>1. g \in [S -> U] /\ \A y \in U : \E x \in S : g[x] = y
  OBVIOUS
<1> HIDE DEF g
<1>2. g \in Surjection(S, U)
  BY <1>1 DEF Surjection
<1>3. IsFiniteSet(U)
  BY <1>2, FS_Surjection
<1>4. T \subseteq U
  OBVIOUS
<1> HIDE DEF U
<1>5. QED BY <1>3, <1>4, FS_Subset

Stages == {"resolve", "build", "start", "weak", "strong", "distances", "paths", "measure",
           "critical", "rank", "trails", "done"}

\* The inputs are legal, and the references and the graph stay what was computed.
Given ==
  /\ IsCorpus(corpus) /\ IsConfig(config)
  /\ IsFiniteSet(raws) /\ \A raw \in raws : IsRaw(corpus, raw)

BaseInv ==
  /\ Given
  /\ stage \in Stages
  /\ stage # "resolve" => refs = ResolveAll
  /\ stage \notin {"resolve", "build"} => graph = BuildReferenceGraph(ResolveAll)

\* Resolution reads the inputs and nothing else.
LEMMA SameRefs ==
  ASSUME given' = given
  PROVE  ResolveAll' = ResolveAll
BY SMT DEF given, ResolveAll, Resolve, ResolveAnchorOnly, ResolveWikilink, ResolveRelative,
  MatchCandidates, TargetForms, ExactMatches, BasenameMatches, LongestSuffixMatches,
  ResolveFragment, AnchorKind, Headings, Sections, LookupAlias, IndexOf, ChildrenOf, Docs, Path,
  ResolveDirectory, WithAnchor, ResolveInRoot, ContentRootOf

\* So does the graph of given references.
LEMMA SameGraph ==
  ASSUME NEW rs, given' = given
  PROVE  BuildReferenceGraph(rs)' = BuildReferenceGraph(rs)
BY SMT DEF given, BuildReferenceGraph, GraphNodes, ContainsTree, ContainsParent, DirectoryEdges,
  AddReferenceEdge, ReferenceEdge, OriginNode, ContainingSection, Projection, Headings, Sections,
  Docs

\* Legal inputs stay legal as long as they stay.
LEMMA SameGiven ==
  ASSUME given' = given, Given
  PROVE  Given'
BY SMT DEF given, Given, IsCorpus, IsConfig, IsRaw, IsSection

\* The analyses leave what they read alone.
LEMMA BaseStep ==
  ASSUME BaseInv, [Next]_vars
  PROVE  BaseInv'
<1>1. given' = given /\ Given'
  <2>1. given' = given
    BY DEF Next, vars, ResolveReferences, BuildGraph, StartComponents, WeakStep, WeakDone,
      StrongStep, StrongDone, SearchDistances, SearchPaths, Measure, CriticalSteps, CriticalEnds,
      PageRank, TrailStep, TrailsEnd, Terminating
  <2>2. QED BY <2>1, SameGiven DEF BaseInv
<1>2. ResolveAll' = ResolveAll
  BY <1>1, SameRefs
<1>3. \A rs : BuildReferenceGraph(rs)' = BuildReferenceGraph(rs)
  BY <1>1, SameGraph
<1>4. CASE ResolveReferences
  BY <1>1, <1>2, <1>4 DEF ResolveReferences, BaseInv, Stages
<1>5. CASE BuildGraph
  <2>1. /\ refs = ResolveAll /\ refs' = refs /\ stage' = "start"
        /\ graph' = BuildReferenceGraph(refs)
    BY <1>5 DEF BuildGraph, BaseInv
  <2>2. graph' = BuildReferenceGraph(ResolveAll)'
    BY <2>1, <1>2, <1>3
  <2>3. QED BY <1>1, <1>2, <2>1, <2>2 DEF BaseInv, Stages
<1>6. ASSUME ~ResolveReferences, ~BuildGraph
      PROVE  /\ refs' = refs /\ graph' = graph /\ stage' \in Stages
             /\ stage' \in {"resolve", "build"} => stage' = stage
             /\ stage \in {"resolve", "build"} => stage' = stage
  <2>1. CASE UNCHANGED vars
    BY <2>1 DEF vars, BaseInv
  <2>2. CASE Next
    BY <1>6, <2>2 DEF Next, vars, StartComponents, WeakStep, WeakDone,
      StrongStep, StrongDone, SearchDistances, SearchPaths, Measure, CriticalSteps, CriticalEnds,
      PageRank, TrailStep, TrailsEnd, Terminating, Stages
  <2>3. QED BY <2>1, <2>2
<1>7. CASE ~ResolveReferences /\ ~BuildGraph
  <2>1. stage' # "resolve" => refs' = ResolveAll'
    BY <1>2, <1>6, <1>7 DEF BaseInv
  <2>2. stage' \notin {"resolve", "build"} => graph' = BuildReferenceGraph(ResolveAll)'
    <3>1. BuildReferenceGraph(ResolveAll)' = BuildReferenceGraph(ResolveAll)
      BY <1>2, <1>3
    <3>2. QED BY <1>6, <1>7, <3>1 DEF BaseInv
  <2>3. QED BY <1>1, <1>6, <1>7, <2>1, <2>2 DEF BaseInv
<1>8. QED BY <1>4, <1>5, <1>7

\* Every run starts from legal inputs.
LEMMA BaseInit ==
  ASSUME Init
  PROVE  BaseInv
<1>1. PICK family \in Inputs :
        corpus \in family.corpora /\ raws \in family.raws /\ config \in family.configs
  BY DEF Init
<1>2. Given
  BY <1>1, InputsAssumption DEF Given
<1>3. QED BY <1>2 DEF Init, BaseInv, Stages

-----------------------------------------------------------------------------
(* The resolver.                                                           *)

\* One step of path.Clean.
CleanStep(q, c) ==
  IF c = Up /\ q # <<>> /\ q[Len(q)] # Up THEN SubSeq(q, 1, Len(q) - 1) ELSE Append(q, c)

Cleans(f, A, p) ==
  /\ f \in [0..Len(p) -> Seq(A)] /\ f[0] = <<>> /\ Clean(p) = f[Len(p)]
  /\ \A i \in 1..Len(p) : f[i] = CleanStep(f[i - 1], p[i])

\* The fold of Clean over the components of a path, step by step.
LEMMA CleanSteps ==
  ASSUME NEW A, NEW p \in Seq(A)
  PROVE  \E f : Cleans(f, A, p)
<1> DEFINE step == [i \in 1..Len(p) |-> [q \in Seq(A) |-> CleanStep(q, p[i])]]
           upTo[i \in 0..Len(p)] ==
             IF i = 0 THEN <<>>
             ELSE LET q == upTo[i - 1] IN
                  IF p[i] = Up /\ q # <<>> /\ q[Len(q)] # Up
                  THEN SubSeq(q, 1, Len(q) - 1) ELSE Append(q, p[i])
<1>1. Len(p) \in Nat /\ <<>> \in Seq(A)
  OBVIOUS
<1>2. ASSUME NEW i \in 1..Len(p), NEW q \in Seq(A)
      PROVE  CleanStep(q, p[i]) \in Seq(A)
  <2>1. p[i] \in A
    OBVIOUS
  <2>2. Append(q, p[i]) \in Seq(A)
    BY <2>1
  <2>3. CASE q # <<>>
    <3>1. Len(q) \in Nat /\ Len(q) # 0
      BY <2>3
    <3>2. SubSeq(q, 1, Len(q) - 1) \in Seq(A)
      BY <3>1
    <3>3. QED BY <2>2, <3>2 DEF CleanStep
  <2>4. QED BY <2>2, <2>3 DEF CleanStep
<1>3. step \in [1..Len(p) -> [Seq(A) -> Seq(A)]]
  BY <1>2
<1>4. PICK f \in [0..Len(p) -> Seq(A)] :
        f[0] = <<>> /\ \A i \in 1..Len(p) : f[i] = step[i][f[i - 1]]
  <2> DEFINE S == Seq(A)
             n == Len(p)
             base == <<>>
  <2>1. n \in Nat /\ base \in S /\ IsStep(n, S, step)
    BY <1>1, <1>3 DEF IsStep
  <2> HIDE DEF step, S, n, base
  <2>2. PICK f : Iterates(f, n, S, base, step)
    BY <2>1, IterationExists
  <2>3. QED BY <2>2 DEF S, n, base, Iterates
<1>5. f[0] = <<>> /\ \A i \in 1..Len(p) : f[i] = CleanStep(f[i - 1], p[i])
  <2> SUFFICES ASSUME NEW i \in 1..Len(p)
               PROVE  f[i] = CleanStep(f[i - 1], p[i])
    BY <1>4
  <2>1. i \in 0..Len(p) /\ i - 1 \in 0..Len(p)
    OBVIOUS
  <2>2. f[i - 1] \in Seq(A)
    BY <2>1
  <2>3. f[i] = step[i][f[i - 1]]
    BY <1>4
  <2>4. QED BY <2>2, <2>3
<1> DEFINE After(g, i) ==
             IF i = 0 THEN <<>>
             ELSE LET q == g[i - 1] IN
                  IF p[i] = Up /\ q # <<>> /\ q[Len(q)] # Up
                  THEN SubSeq(q, 1, Len(q) - 1) ELSE Append(q, p[i])
<1>6. f = [i \in 0..Len(p) |-> After(f, i)]
  <2>1. ASSUME NEW i \in 0..Len(p) PROVE f[i] = After(f, i)
    <3>1. CASE i = 0
      BY <1>5, <3>1
    <3>2. CASE i # 0
      <4>1. i \in 1..Len(p)
        BY <3>2
      <4>2. After(f, i) = CleanStep(f[i - 1], p[i])
        BY <3>2, SMT DEF CleanStep
      <4>3. QED BY <1>5, <4>1, <4>2
    <3>3. QED BY <3>1, <3>2
  <2> HIDE DEF After
  <2>2. QED BY <2>1
<1>7. upTo = [i \in 0..Len(p) |-> After(upTo, i)]
  BY <1>6
<1>8. Clean(p) = upTo[Len(p)]
  BY DEF Clean
<1> HIDE DEF upTo
<1>9. upTo[0] = <<>> /\ \A i \in 1..Len(p) : upTo[i] = CleanStep(upTo[i - 1], p[i])
  <2>1. \A i \in 0..Len(p) : upTo[i] = After(upTo, i)
    <3> HIDE DEF After
    <3>1. QED BY <1>7
  <2>2. 0 \in 0..Len(p) /\ upTo[0] = After(upTo, 0)
    BY <1>1, <2>1
  <2>3. ASSUME NEW i \in 1..Len(p)
        PROVE  upTo[i] = CleanStep(upTo[i - 1], p[i])
    <3>1. i \in 0..Len(p) /\ i # 0
      OBVIOUS
    <3>2. After(upTo, i) = CleanStep(upTo[i - 1], p[i])
      BY <3>1, SMT DEF CleanStep
    <3>3. QED BY <2>1, <3>1, <3>2
  <2>4. QED BY <2>2, <2>3
<1>10. 0..Len(p) \subseteq {i \in Nat : upTo[i] = f[i]}
  <2> DEFINE Q == {i \in Nat : upTo[i] = f[i]}
  <2>1. 0 \in Q
    BY <1>5, <1>9
  <2>2. ASSUME NEW i \in 1..Len(p), i - 1 \in Q
        PROVE  i \in Q
    BY <1>5, <1>9, <2>2
  <2> HIDE DEF Q
  <2>3. Q \in SUBSET Nat
    BY DEF Q
  <2>4. 0..Len(p) \subseteq Q
    BY <1>1, <2>1, <2>2, <2>3, Upward
  <2>5. QED BY <2>4 DEF Q
<1>11. upTo[Len(p)] = f[Len(p)]
  BY <1>1, <1>10
<1>12. QED BY <1>5, <1>8, <1>11 DEF Cleans

\* Cleaning a path gives a path.
LEMMA CleanTyped ==
  ASSUME NEW A, NEW p \in Seq(A)
  PROVE  Clean(p) \in Seq(A)
<1>1. PICK f : Cleans(f, A, p)
  BY CleanSteps
<1>2. Len(p) \in 0..Len(p)
  OBVIOUS
<1>3. QED BY <1>1, <1>2 DEF Cleans

-----------------------------------------------------------------------------
\* What a reference keeps of what was written.
LEMMA ResolveKeepsRaw ==
  ASSUME NEW raw, raw.type \in {"external", "anchor", "wikilink", "transclusion", "link", "image", "related"}
  PROVE  Resolve(raw).raw = raw
BY SMT DEF Resolve, ResolveAnchorOnly, ResolveWikilink, ResolveRelative, ResolveFragment, WithAnchor,
  ResolveDirectory, Ref, Broken, RefAmbiguous

\* A suffix of a path names the same file, and a path is a suffix of itself.
LEMMA SuffixEnds ==
  ASSUME NEW A, NEW B, NEW s \in Seq(A), NEW t \in Seq(B), s # <<>>, IsSuffix(s, t)
  PROVE  Last(s) = Last(t)
<1>1. Len(s) \in Nat /\ Len(t) \in Nat /\ Len(s) # 0
  OBVIOUS
<1>2. /\ Reverse(s) = [i \in 1..Len(s) |-> s[Len(s) - i + 1]]
      /\ Reverse(t) = [i \in 1..Len(t) |-> t[Len(t) - i + 1]]
  BY DEF Reverse
<1>3. /\ Reverse(s) \in Seq(A) /\ Reverse(t) \in Seq(B)
      /\ Len(Reverse(s)) = Len(s) /\ Len(Reverse(t)) = Len(t)
  BY <1>1, <1>2
<1>4. Len(s) <= Len(t) /\ SubSeq(Reverse(s), 1, Len(s)) = SubSeq(Reverse(t), 1, Len(s))
  BY <1>3 DEF IsSuffix, IsPrefix
<1>5. Reverse(s)[1] = s[Len(s)] /\ Reverse(t)[1] = t[Len(t)]
  BY <1>1, <1>2, <1>4
<1>6. /\ SubSeq(Reverse(s), 1, Len(s))[1] = Reverse(s)[1]
      /\ SubSeq(Reverse(t), 1, Len(s))[1] = Reverse(t)[1]
  BY <1>1, <1>3, <1>4
<1>7. QED BY <1>4, <1>5, <1>6 DEF Last

\* A path ends in itself.
LEMMA SuffixOfItself ==
  ASSUME NEW A, NEW s \in Seq(A)
  PROVE  IsSuffix(s, s)
<1>1. Reverse(s) \in Seq(A)
  BY DEF Reverse
<1>2. QED BY <1>1 DEF IsSuffix, IsPrefix

\* What a sequence is with one element more.
LEMMA AppendTyped ==
  ASSUME NEW A, NEW s \in Seq(A), NEW x \in A
  PROVE  /\ Append(s, x) \in Seq(A) /\ Append(s, x) # <<>>
         /\ Len(Append(s, x)) = Len(s) + 1 /\ Append(s, x)[Len(s) + 1] = x
         /\ \A i \in 1..Len(s) : Append(s, x)[i] = s[i]
<1>1. Append(s, x) \in Seq(A)
  OBVIOUS
<1>2. Len(Append(s, x)) = Len(s) + 1
  OBVIOUS
<1>3. Append(s, x) # <<>>
  <2>1. Len(<<>>) = 0 /\ Len(s) + 1 # 0
    OBVIOUS
  <2>2. QED BY <1>2, <2>1
<1>4. Append(s, x)[Len(s) + 1] = x /\ \A i \in 1..Len(s) : Append(s, x)[i] = s[i]
  OBVIOUS
<1>5. QED BY <1>1, <1>2, <1>3, <1>4

\* What a sequence is without its last element, and that element.
LEMMA EndsTyped ==
  ASSUME NEW A, NEW s \in Seq(A), s # <<>>
  PROVE  Front(s) \in Seq(A) /\ Base(s) \in A /\ Base(s) = s[Len(s)] /\ Len(Front(s)) = Len(s) - 1
<1>1. Len(s) \in Nat /\ Len(s) # 0
  OBVIOUS
<1>2. Len(s) \in 1..Len(s) /\ Len(s) - 1 \in Nat
  BY <1>1
<1>3. SubSeq(s, 1, Len(s) - 1) \in Seq(A) /\ Len(SubSeq(s, 1, Len(s) - 1)) = Len(s) - 1
  <2>1. SubSeq(s, 1, Len(s) - 1) \in Seq(A)
    BY <1>1, <1>2
  <2> DEFINE n == Len(s) - 1
  <2>2. n \in Nat /\ n <= Len(s)
    BY <1>1, <1>2
  <2> HIDE DEF n
  <2>3. Len(SubSeq(s, 1, n)) = n
    BY <2>2
  <2>4. QED BY <2>1, <2>3 DEF n
<1>4. s[Len(s)] \in A
  BY <1>2, SMT
<1>5. Base(s) = s[Len(s)]
  BY SMT DEF Base, Last
<1>6. Front(s) = SubSeq(s, 1, Len(s) - 1)
  BY SMT DEF Front
<1>7. QED BY <1>3, <1>4, <1>5, <1>6, SMT

\* A looser policy only adds candidates.
LEMMA PoliciesWiden ==
  ASSUME Given, NEW target \in Seq(Component)
  PROVE  /\ MatchCandidates(target, "exact") \subseteq MatchCandidates(target, "longest-suffix")
         /\ MatchCandidates(target, "longest-suffix") \subseteq MatchCandidates(target, "basename")
<1> DEFINE forms == TargetForms(target)
           path  == Clean(target)
<1>1. \A d \in Docs : Path(d) \in Seq(Component)
  BY DEF Given, IsCorpus, Docs, Path
<1>2. ASSUME NEW f \in forms
      PROVE  \E B : f \in Seq(B) /\ f # <<>>
  <2> DEFINE named == [stem |-> Base(path).stem, ext |-> ".md"]
             B == Component \union {named}
  <2>0. f \in TargetForms(target)
    OBVIOUS
  <2>1. path \in Seq(Component)
    BY CleanTyped
  <2>2. ~EscapesRoot(path) /\ (f = path \/ f = Append(Front(path), named))
    BY <2>0, Zenon DEF TargetForms
  <2> HIDE DEF named, path
  <2>3. path # <<>>
    BY <2>2 DEF EscapesRoot
  <2>4. Front(path) \in Seq(Component)
    BY <2>1, <2>3, EndsTyped
  <2>5. Front(path) \in Seq(B) /\ named \in B
    BY <2>4
  <2>6. Append(Front(path), named) \in Seq(B) /\ Append(Front(path), named) # <<>>
    BY <2>5, AppendTyped
  <2>7. CASE f = path
    BY <2>1, <2>3, <2>7
  <2>8. CASE f = Append(Front(path), named)
    BY <2>6, <2>8
  <2>9. QED BY <2>2, <2>7, <2>8
<1> HIDE DEF forms
<1>3. ExactMatches(forms) \subseteq LongestSuffixMatches(forms)
  BY <1>1, SuffixOfItself DEF ExactMatches, LongestSuffixMatches
<1>4. LongestSuffixMatches(forms) \subseteq BasenameMatches(forms)
  <2> SUFFICES ASSUME NEW d \in Docs, NEW f \in forms, IsSuffix(f, Path(d))
               PROVE  d \in BasenameMatches(forms)
    BY DEF LongestSuffixMatches
  <2>1. Last(f) = Last(Path(d))
    BY <1>1, <1>2, SuffixEnds
  <2>2. QED BY <2>1 DEF BasenameMatches, Base
<1>5. QED BY <1>3, <1>4 DEF MatchCandidates, forms

\* Nothing resolves outside the scan root, a root-absolute link means the same
\* everywhere, and a looser wikilink policy only adds candidates: over the resolver's
\* operators, for every corpus and reference.
LEMMA ResolutionHolds ==
  ASSUME BaseInv
  PROVE  ResolutionIsSound
<1> SUFFICES ASSUME Resolved PROVE ResolutionIsSound
  BY DEF ResolutionIsSound
<1>1. Given /\ refs = ResolveAll
  BY DEF Resolved, BaseInv
<1>2. ASSUME NEW r \in refs
      PROVE  r.raw \in raws /\ r = Resolve(r.raw) /\ IsRaw(corpus, r.raw)
  <2>1. PICK raw \in raws : r = Resolve(raw)
    BY <1>1 DEF ResolveAll
  <2>2. IsRaw(corpus, raw)
    BY <1>1 DEF Given
  <2>3. r.raw = raw
    BY <2>1, <2>2, ResolveKeepsRaw DEF IsRaw
  <2>4. QED BY <2>1, <2>2, <2>3
<1>3. ASSUME NEW r \in refs,
             r.raw.abs, r.raw.type \in {"link", "image", "related"}, EscapesRoot(Clean(r.raw.target))
      PROVE  r.health = "broken"
  <2>1. ResolveInRoot(r.raw) = Clean(r.raw.target)
    BY <1>3 DEF ResolveInRoot
  <2>2. r = ResolveRelative(r.raw)
    BY <1>2, <1>3 DEF Resolve
  <2>3. r = Broken(r.raw)
    BY <1>3, <2>1, <2>2 DEF ResolveRelative
  <2>4. QED BY <2>3 DEF Broken, Ref
<1>4. ASSUME NEW r \in refs, r.target.kind = "directory"
      PROVE  ~EscapesRoot(r.target.dir)
  <2>1. \A raw, d : AnchorKind(d, raw.frag) \in {"section", "document", "none"}
    BY DEF AnchorKind
  <2>2. \A raw, d : /\ ResolveFragment(raw, d).target.kind # "directory"
                    /\ WithAnchor(raw, d).target.kind # "directory"
                    /\ ResolveAnchorOnly(raw).target.kind # "directory"
                    /\ Broken(raw).target.kind # "directory"
    BY <2>1 DEF ResolveFragment, WithAnchor, ResolveAnchorOnly, Broken, Ref, NoTarget, ToDocument
  <2>3. \A raw, dir : ResolveDirectory(raw, dir).target.dir = dir
    BY DEF ResolveDirectory, Ref, NoTarget
  <2>4. \A raw, docs : RefAmbiguous(raw, docs).target.kind # "directory"
    BY DEF RefAmbiguous, Ref, NoTarget
  <2>5. CASE r.raw.type \in {"external", "anchor"}
    <3>1. Ref(r.raw, [NoTarget EXCEPT !.kind = "external"], "external").target.kind = "external"
      BY DEF Ref, NoTarget
    <3>2. QED BY <1>2, <1>4, <2>2, <2>5, <3>1 DEF Resolve
  <2>6. CASE r.raw.type \in {"wikilink", "transclusion"}
    <3>1. r = ResolveWikilink(r.raw)
      BY <1>2, <2>6 DEF Resolve
    <3>2. QED BY <1>4, <2>2, <2>3, <2>4, <3>1 DEF ResolveWikilink
  <2>7. CASE r.raw.type \in {"link", "image", "related"}
    <3>1. r = ResolveRelative(r.raw)
      BY <1>2, <2>7 DEF Resolve
    <3>2. \A path : Ref(r.raw, [NoTarget EXCEPT !.kind = "asset", !.dir = path], "non-note")
                      .target.kind # "directory"
      BY DEF Ref, NoTarget
    <3>3. \/ \E d : r = WithAnchor(r.raw, d)
          \/ r = ResolveAnchorOnly(r.raw)
          \/ r = Broken(r.raw)
          \/ \E path : ~EscapesRoot(path) /\ r = ResolveDirectory(r.raw, path)
          \/ \E path : r = Ref(r.raw, [NoTarget EXCEPT !.kind = "asset", !.dir = path], "non-note")
      BY <3>1, Zenon DEF ResolveRelative
    <3>4. CASE \E d : r = WithAnchor(r.raw, d)
      BY <1>4, <2>2, <3>4
    <3>5. CASE r = ResolveAnchorOnly(r.raw) \/ r = Broken(r.raw)
      BY <1>4, <2>2, <3>5
    <3>6. CASE \E path : ~EscapesRoot(path) /\ r = ResolveDirectory(r.raw, path)
      BY <2>3, <3>6
    <3>7. CASE \E path : r = Ref(r.raw, [NoTarget EXCEPT !.kind = "asset", !.dir = path], "non-note")
      BY <1>4, <3>2, <3>7
    <3>8. QED BY <3>3, <3>4, <3>5, <3>6, <3>7
  <2>8. QED BY <1>2, <2>5, <2>6, <2>7 DEF IsRaw
<1>5. ASSUME NEW r \in refs, r.raw.abs, config.contentRoots = {}, r.raw.type = "link",
             NEW d \in Docs
      PROVE  Resolve([r.raw EXCEPT !.origin = d]).target = r.target
  <2> DEFINE raw == r.raw
             moved == [raw EXCEPT !.origin = d]
  <2>1. IsRaw(corpus, raw)
    BY <1>2
  <2>2. /\ moved.abs = raw.abs /\ moved.target = raw.target /\ moved.frag = raw.frag
        /\ moved.type = raw.type
    BY <2>1 DEF IsRaw
  <2> HIDE DEF moved
  <2>3. ResolveInRoot(moved) = Clean(raw.target) /\ ResolveInRoot(raw) = Clean(raw.target)
    BY <1>5, <2>2 DEF ResolveInRoot, ContentRootOf
  <2>4. \A e : WithAnchor(moved, e).target = WithAnchor(raw, e).target
    BY <2>2 DEF WithAnchor, ResolveFragment, Ref
  <2>5. \A dir : ResolveDirectory(moved, dir).target = ResolveDirectory(raw, dir).target
    BY DEF ResolveDirectory, Ref
  <2>6. Broken(moved).target = Broken(raw).target
    BY DEF Broken, Ref
  <2>7. \A t, h : Ref(moved, t, h).target = Ref(raw, t, h).target
    BY DEF Ref
  <2>8. Resolve(moved) = ResolveRelative(moved) /\ r = ResolveRelative(raw)
    BY <1>2, <1>5, <2>2 DEF Resolve
  <2> DEFINE path == Clean(raw.target)
             known == {e \in Docs : Path(e) = path}
             asset == [NoTarget EXCEPT !.kind = "asset", !.dir = path]
             ByPath(w) ==
               IF EscapesRoot(path) THEN Broken(w)
               ELSE IF known # {} THEN WithAnchor(w, CHOOSE e \in known : TRUE)
               ELSE IF ChildrenOf(path) # {} THEN ResolveDirectory(w, path)
               ELSE IF ~IsMarkdown(path) /\ path \in config.assets THEN Ref(w, asset, "non-note")
               ELSE Broken(w)
  <2>9. ResolveRelative(raw) = ByPath(raw)
    BY <1>5, <2>3 DEF ResolveRelative
  <2>10. ResolveRelative(moved) = ByPath(moved)
    BY <1>5, <2>2, <2>3 DEF ResolveRelative
  <2>11. ByPath(moved).target = ByPath(raw).target
    <3> HIDE DEF path, known, asset, raw
    <3>1. QED BY <2>4, <2>5, <2>6, <2>7
  <2>12. QED BY <2>8, <2>9, <2>10, <2>11 DEF moved
<1>6. ASSUME NEW raw \in raws, NEW i \in 1..2
      PROVE  MatchCandidates(raw.target, Policies[i]) \subseteq MatchCandidates(raw.target, Policies[i + 1])
  <2>1. raw.target \in Seq(Component)
    BY <1>1 DEF Given, IsRaw
  <2>2. i = 1 \/ i = 2
    OBVIOUS
  <2>3. /\ Policies[1] = "exact" /\ Policies[2] = "longest-suffix" /\ Policies[3] = "basename"
    BY DEF Policies
  <2>4. CASE i = 1
    BY <1>1, <2>1, <2>3, <2>4, PoliciesWiden
  <2>5. CASE i = 2
    BY <1>1, <2>1, <2>3, <2>5, PoliciesWiden
  <2>6. QED BY <2>2, <2>4, <2>5
<1>7. QED BY <1>3, <1>4, <1>5, <1>6 DEF ResolutionIsSound

\* ResolutionIsSound holds in every run: where a reference may resolve to (resolver.go).
THEOREM Resolution == Spec => []ResolutionIsSound
<1>1. Init => BaseInv
  BY BaseInit
<1>2. BaseInv /\ [Next]_vars => BaseInv'
  BY BaseStep
<1>3. BaseInv => ResolutionIsSound
  BY ResolutionHolds
<1>4. QED BY <1>1, <1>2, <1>3, PTL DEF Spec

-----------------------------------------------------------------------------
(* The beginnings of a sequence.                                           *)

\* What the first elements of a sequence are.
LEMMA BeginningTyped ==
  ASSUME NEW A, NEW s \in Seq(A), NEW n \in Nat, n <= Len(s)
  PROVE  /\ SubSeq(s, 1, n) \in Seq(A) /\ Len(SubSeq(s, 1, n)) = n
         /\ \A i \in 1..n : SubSeq(s, 1, n)[i] = s[i]
<1>1. SubSeq(s, 1, n) \in Seq(A)
  <2>1. \A i \in 1..n : s[i] \in A
    OBVIOUS
  <2>2. QED BY <2>1
<1>2. Len(SubSeq(s, 1, n)) = n
  OBVIOUS
<1>3. \A i \in 1..n : SubSeq(s, 1, n)[i] = s[i]
  OBVIOUS
<1>4. QED BY <1>1, <1>2, <1>3

\* What two sequences joined are.
LEMMA Joined ==
  ASSUME NEW A, NEW s \in Seq(A), NEW t \in Seq(A)
  PROVE  /\ s \o t \in Seq(A) /\ Len(s \o t) = Len(s) + Len(t)
         /\ \A i \in 1..Len(s) : (s \o t)[i] = s[i]
         /\ \A i \in Len(s) + 1..Len(s) + Len(t) : (s \o t)[i] = t[i - Len(s)]
<1>1. s \o t \in Seq(A)
  OBVIOUS
<1>2. Len(s \o t) = Len(s) + Len(t)
  OBVIOUS
<1>3. \A i \in 1..Len(s) : (s \o t)[i] = s[i]
  OBVIOUS
<1>4. \A i \in Len(s) + 1..Len(s) + Len(t) : (s \o t)[i] = t[i - Len(s)]
  OBVIOUS
<1>5. QED BY <1>1, <1>2, <1>3, <1>4

\* Sequences that agree in length and elements are one.
LEMMA SameSequence ==
  ASSUME NEW A, NEW s \in Seq(A), NEW t \in Seq(A), Len(s) = Len(t),
         \A i \in 1..Len(s) : s[i] = t[i]
  PROVE  s = t
OBVIOUS

\* No elements of a sequence.
LEMMA BeginningNone ==
  ASSUME NEW A, NEW s \in Seq(A)
  PROVE  SubSeq(s, 1, 0) = <<>>
<1>1. SubSeq(s, 1, 0) \in Seq(A) /\ Len(SubSeq(s, 1, 0)) = 0
  BY BeginningTyped
<1>2. <<>> \in Seq(A) /\ Len(<<>>) = 0
  OBVIOUS
<1>3. QED BY <1>1, <1>2, SameSequence

\* All elements of a sequence.
LEMMA BeginningAll ==
  ASSUME NEW A, NEW s \in Seq(A)
  PROVE  SubSeq(s, 1, Len(s)) = s
<1>1. Len(s) \in Nat
  OBVIOUS
<1>2. QED BY <1>1, BeginningTyped, SameSequence

\* One more of the first elements.
LEMMA BeginningNext ==
  ASSUME NEW A, NEW s \in Seq(A), NEW i \in 1..Len(s)
  PROVE  Append(SubSeq(s, 1, i - 1), s[i]) = SubSeq(s, 1, i)
<1> DEFINE b == SubSeq(s, 1, i - 1)
           n == i - 1
<1>1. n \in Nat /\ n <= Len(s) /\ i \in Nat /\ i <= Len(s) /\ n + 1 = i /\ s[i] \in A
  OBVIOUS
<1>2. b \in Seq(A) /\ Len(b) = n /\ \A k \in 1..n : b[k] = s[k]
  BY <1>1, BeginningTyped
<1> HIDE DEF b
<1>3. /\ Append(b, s[i]) \in Seq(A) /\ Len(Append(b, s[i])) = Len(b) + 1
      /\ Append(b, s[i])[Len(b) + 1] = s[i]
      /\ \A k \in 1..Len(b) : Append(b, s[i])[k] = b[k]
  BY <1>1, <1>2, AppendTyped
<1>4. /\ SubSeq(s, 1, i) \in Seq(A) /\ Len(SubSeq(s, 1, i)) = i
      /\ \A k \in 1..i : SubSeq(s, 1, i)[k] = s[k]
  BY <1>1, BeginningTyped
<1>5. \A k \in 1..i : Append(b, s[i])[k] = SubSeq(s, 1, i)[k]
  BY <1>1, <1>2, <1>3, <1>4
<1>6. Append(b, s[i]) = SubSeq(s, 1, i)
  BY <1>1, <1>2, <1>3, <1>4, <1>5, SameSequence
<1>7. QED BY <1>6 DEF b

\* One fewer of the first elements.
LEMMA BeginningLess ==
  ASSUME NEW A, NEW s \in Seq(A), NEW i \in 1..Len(s)
  PROVE  /\ SubSeq(s, 1, i) # <<>> /\ Len(SubSeq(s, 1, i)) = i
         /\ SubSeq(s, 1, i)[i] = s[i]
         /\ SubSeq(SubSeq(s, 1, i), 1, i - 1) = SubSeq(s, 1, i - 1)
<1> DEFINE b == SubSeq(s, 1, i)
           n == i - 1
<1>1. n \in Nat /\ n <= Len(s) /\ i \in Nat /\ i <= Len(s) /\ n <= i /\ i # 0
  OBVIOUS
<1>2. b \in Seq(A) /\ Len(b) = i /\ \A k \in 1..i : b[k] = s[k]
  BY <1>1, BeginningTyped
<1>3. b # <<>> /\ b[i] = s[i]
  <2>1. Len(<<>>) = 0
    OBVIOUS
  <2> HIDE DEF b
  <2>2. QED BY <1>1, <1>2, <2>1
<1> HIDE DEF b, n
<1>4. SubSeq(b, 1, n) = SubSeq(s, 1, n)
  <2>1. /\ SubSeq(b, 1, n) \in Seq(A) /\ Len(SubSeq(b, 1, n)) = n
        /\ \A k \in 1..n : SubSeq(b, 1, n)[k] = b[k]
    BY <1>1, <1>2, BeginningTyped
  <2>2. /\ SubSeq(s, 1, n) \in Seq(A) /\ Len(SubSeq(s, 1, n)) = n
        /\ \A k \in 1..n : SubSeq(s, 1, n)[k] = s[k]
    BY <1>1, BeginningTyped
  <2>3. \A k \in 1..n : SubSeq(b, 1, n)[k] = SubSeq(s, 1, n)[k]
    BY <1>1, <1>2, <2>1, <2>2
  <2>4. QED BY <2>1, <2>2, <2>3, SameSequence
<1>5. QED BY <1>2, <1>3, <1>4 DEF b, n

-----------------------------------------------------------------------------
(* Up from a directory and down again.                                     *)

\* As many steps up as a directory has components, and then down: Clean leaves the way
\* down.
LEMMA CleanLink ==
  ASSUME NEW A, NEW p \in Seq(A), NEW q \in Seq(A),
         \A i \in 1..Len(p) : p[i] # Up, \A i \in 1..Len(q) : q[i] # Up
  PROVE  Clean(p \o ([i \in DOMAIN p |-> Up] \o q)) = q
<1> DEFINE ups == [i \in DOMAIN p |-> Up]
           B   == A \union {Up}
           w   == p \o (ups \o q)
           k   == Len(p)
           m   == Len(q)
           g(i) == IF i <= k THEN SubSeq(p, 1, i)
                   ELSE IF i <= 2 * k THEN SubSeq(p, 1, 2 * k - i) ELSE SubSeq(q, 1, i - 2 * k)
<1>1. k \in Nat /\ m \in Nat
  OBVIOUS
<1>2. ups \in Seq(B) /\ Len(ups) = k /\ \A i \in 1..k : ups[i] = Up
  OBVIOUS
<1>3. p \in Seq(B) /\ q \in Seq(B)
  OBVIOUS
<1> HIDE DEF ups, B
<1>4. /\ ups \o q \in Seq(B) /\ Len(ups \o q) = k + m
      /\ \A i \in 1..k : (ups \o q)[i] = Up
      /\ \A i \in k + 1..k + m : (ups \o q)[i] = q[i - k]
  BY <1>1, <1>2, <1>3
<1> DEFINE uq == ups \o q
<1> HIDE DEF uq
<1>5. /\ p \o uq \in Seq(B) /\ Len(p \o uq) = k + (k + m)
      /\ \A i \in 1..k : (p \o uq)[i] = p[i]
      /\ \A i \in k + 1..k + (k + m) : (p \o uq)[i] = uq[i - k]
  <2>1. uq \in Seq(B) /\ Len(uq) = k + m
    BY <1>4 DEF uq
  <2>2. /\ p \o uq \in Seq(B) /\ Len(p \o uq) = Len(p) + Len(uq)
        /\ \A i \in 1..Len(p) : (p \o uq)[i] = p[i]
        /\ \A i \in Len(p) + 1..Len(p) + Len(uq) : (p \o uq)[i] = uq[i - Len(p)]
    <3>1. uq \in Seq(B) /\ p \in Seq(B)
      BY <1>3, <2>1
    <3> HIDE DEF w, k, m, g
    <3>2. QED BY <3>1, Joined
  <2> DEFINE n == Len(uq)
  <2>3. Len(p) = k /\ n = k + m
    BY <2>1
  <2> HIDE DEF k, n, m
  <2>4. /\ Len(p \o uq) = k + n
        /\ \A i \in 1..k : (p \o uq)[i] = p[i]
        /\ \A i \in k + 1..k + n : (p \o uq)[i] = uq[i - k]
    BY <2>2, <2>3 DEF n
  <2>5. QED BY <2>2, <2>3, <2>4
<1>6. /\ w \in Seq(B) /\ Len(w) = 2 * k + m
      /\ \A i \in 1..k : w[i] = p[i]
      /\ \A i \in k + 1..2 * k : w[i] = Up
      /\ \A i \in 2 * k + 1..2 * k + m : w[i] = q[i - 2 * k]
  <2>1. w = p \o uq
    BY DEF uq
  <2>2. ASSUME NEW i \in k + 1..2 * k PROVE uq[i - k] = Up
    BY <1>1, <1>4 DEF uq
  <2>3. ASSUME NEW i \in 2 * k + 1..2 * k + m PROVE uq[i - k] = q[i - 2 * k]
    <3>1. i - k \in k + 1..k + m /\ (i - k) - k = i - 2 * k
      BY <1>1
    <3>2. QED BY <1>4, <3>1 DEF uq
  <2> HIDE DEF w
  <2>4. QED BY <1>1, <1>5, <2>1, <2>2, <2>3
<1> HIDE DEF w
<1>. PICK f : Cleans(f, B, w)
  BY <1>6, CleanSteps
<1>7. /\ f[0] = <<>> /\ Clean(w) = f[Len(w)]
      /\ \A i \in 1..Len(w) : f[i] = CleanStep(f[i - 1], w[i])
  BY DEF Cleans
<1> DEFINE P == {i \in Nat : f[i] = g(i)}
<1>8. 0 \in P
  <2>1. g(0) = SubSeq(p, 1, 0)
    BY <1>1
  <2>2. f[0] = g(0)
    BY <1>7, <2>1, BeginningNone
  <2> HIDE DEF g
  <2>3. QED BY <2>2
<1>9. ASSUME NEW i \in 1..2 * k + m, i - 1 \in P
      PROVE  i \in P
  <2>0. i \in Nat /\ f[i - 1] = g(i - 1) /\ f[i] = CleanStep(f[i - 1], w[i])
    BY <1>1, <1>6, <1>7, <1>9
  <2>1. CASE i <= k
    <3>1. i \in 1..k /\ i - 1 <= k /\ w[i] = p[i] /\ p[i] # Up
      BY <1>1, <1>6, <2>0, <2>1
    <3>2. f[i] = Append(SubSeq(p, 1, i - 1), p[i])
      BY <2>0, <3>1 DEF CleanStep
    <3>3. f[i] = SubSeq(p, 1, i)
      BY <3>1, <3>2, BeginningNext
    <3>4. QED BY <2>0, <2>1, <3>3
  <2>2. CASE k < i /\ i <= 2 * k
    <3> DEFINE j == 2 * k - (i - 1)
    <3>1. j \in 1..k /\ j - 1 = 2 * k - i /\ w[i] = Up
      BY <1>1, <1>6, <2>0, <2>2
    <3>2. f[i - 1] = SubSeq(p, 1, j)
      <4>1. CASE i - 1 = k
        <5>1. j = k /\ i - 1 <= k /\ i - 1 = j
          BY <1>1, <4>1
        <5>2. g(i - 1) = SubSeq(p, 1, i - 1)
          BY <5>1
        <5>3. QED BY <2>0, <5>1, <5>2
      <4>2. CASE i - 1 # k
        <5>1. ~(i - 1 <= k) /\ i - 1 <= 2 * k
          BY <1>1, <2>0, <2>2, <4>2
        <5>2. g(i - 1) = SubSeq(p, 1, 2 * k - (i - 1))
          BY <5>1
        <5>3. QED BY <2>0, <5>2
      <4>3. QED BY <4>1, <4>2
    <3> HIDE DEF j
    <3>3. /\ SubSeq(p, 1, j) # <<>> /\ Len(SubSeq(p, 1, j)) = j
          /\ SubSeq(p, 1, j)[j] = p[j] /\ p[j] # Up
          /\ SubSeq(SubSeq(p, 1, j), 1, j - 1) = SubSeq(p, 1, j - 1)
      BY <3>1, BeginningLess
    <3>4. f[i] = SubSeq(p, 1, j - 1)
      <4> DEFINE b == SubSeq(p, 1, j)
      <4>1. b # <<>> /\ b[Len(b)] # Up
        BY <3>3
      <4>2. f[i] = SubSeq(b, 1, Len(b) - 1)
        <5> HIDE DEF b
        <5>1. f[i - 1] = b
          BY <3>2 DEF b
        <5>2. QED BY <2>0, <3>1, <4>1, <5>1 DEF CleanStep
      <4>3. QED BY <3>3, <4>2
    <3>5. ~(i <= k) /\ g(i) = SubSeq(p, 1, 2 * k - i)
      BY <1>1, <2>0, <2>2
    <3>6. QED BY <2>0, <3>1, <3>4, <3>5
  <2>3. CASE 2 * k < i
    <3> DEFINE j == i - 2 * k
    <3>1. /\ j \in 1..m /\ j - 1 = (i - 1) - 2 * k /\ w[i] = q[j] /\ q[j] # Up
      BY <1>1, <1>6, <2>0, <2>3
    <3>2. f[i - 1] = SubSeq(q, 1, j - 1)
      <4>1. CASE i - 1 = 2 * k
        <5>1. j - 1 = 0
          BY <1>1, <4>1
        <5>2. g(i - 1) = SubSeq(p, 1, 0)
          <6>1. CASE k = 0
            BY <1>1, <4>1, <6>1
          <6>2. CASE k # 0
            <7>1. ~(i - 1 <= k) /\ i - 1 <= 2 * k /\ 2 * k - (i - 1) = 0
              BY <1>1, <4>1, <6>2
            <7>2. QED BY <7>1
          <6>3. QED BY <6>1, <6>2
        <5>3. SubSeq(p, 1, 0) = <<>> /\ SubSeq(q, 1, 0) = <<>>
          BY BeginningNone
        <5>4. QED BY <2>0, <5>1, <5>2, <5>3
      <4>2. CASE i - 1 # 2 * k
        <5>1. ~(i - 1 <= k) /\ ~(i - 1 <= 2 * k)
          <6> HIDE DEF k, m, P, g
          <6>1. QED BY <1>1, <2>3, <4>2
        <5>2. g(i - 1) = SubSeq(q, 1, (i - 1) - 2 * k)
          BY <5>1
        <5>3. QED BY <2>0, <3>1, <5>2
      <4>3. QED BY <4>1, <4>2
    <3>3. f[i] = Append(SubSeq(q, 1, j - 1), q[j])
      BY <2>0, <3>1, <3>2 DEF CleanStep
    <3>4. f[i] = SubSeq(q, 1, j)
      BY <3>1, <3>3, BeginningNext
    <3>5. ~(i <= k) /\ ~(i <= 2 * k)
      BY <1>1, <2>0, <2>3
    <3>6. g(i) = SubSeq(q, 1, j)
      BY <3>5
    <3>7. QED BY <2>0, <3>4, <3>6
  <2>4. QED BY <1>1, <2>0, <2>1, <2>2, <2>3
<1>10. 0..2 * k + m \subseteq P
  <2>1. P \in SUBSET Nat /\ 2 * k + m \in Nat
    BY <1>1
  <2> HIDE DEF P, k, m
  <2>2. QED BY <1>8, <1>9, <2>1, Upward
<1>11. f[2 * k + m] = q
  <2>1. 2 * k + m \in P
    <3> HIDE DEF k, m, P
    <3>1. QED BY <1>1, <1>10
  <2>2. f[2 * k + m] = g(2 * k + m)
    BY <2>1
  <2>3. CASE m = 0
    <3>1. q = <<>>
      BY <2>3
    <3>2. CASE k = 0
      <4>1. g(2 * k + m) = SubSeq(p, 1, 0)
        BY <2>3, <3>2
      <4>2. QED BY <2>2, <3>1, <4>1, BeginningNone
    <3>3. CASE k # 0
      <4>1. ~(2 * k + m <= k) /\ 2 * k + m <= 2 * k /\ 2 * k - (2 * k + m) = 0
        BY <1>1, <2>3, <3>3
      <4>2. g(2 * k + m) = SubSeq(p, 1, 0)
        BY <4>1
      <4>3. QED BY <2>2, <3>1, <4>2, BeginningNone
    <3>4. QED BY <3>2, <3>3
  <2>4. CASE m # 0
    <3>1. ~(2 * k + m <= k) /\ ~(2 * k + m <= 2 * k) /\ (2 * k + m) - 2 * k = m
      BY <1>1, <2>4
    <3>2. g(2 * k + m) = SubSeq(q, 1, m)
      BY <3>1
    <3>3. QED BY <2>2, <3>2, BeginningAll
  <2>5. QED BY <2>3, <2>4
<1>12. Clean(w) = q
  BY <1>6, <1>7, <1>11
<1>13. QED BY <1>12 DEF w, ups

-----------------------------------------------------------------------------
(* The graph.                                                              *)

\* What the proofs use of a legal corpus.
LEMMA CorpusFacts ==
  ASSUME Given
  PROVE  /\ IsFiniteSet(Docs) /\ Docs \subseteq Nat \ {0}
         /\ \A d \in Docs :
              /\ Path(d) \in Seq(Component) /\ Path(d) # <<>>
              /\ \A i \in 1..Len(Path(d)) : Path(d)[i] # Up
              /\ Sections(d) \in Seq(Range(Sections(d))) /\ Len(Sections(d)) \in Nat
              /\ DOMAIN Sections(d) = 1..Len(Sections(d))
              /\ \A i \in 1..Len(Sections(d)) : Sections(d)[i].up \in 0..(i - 1)
         /\ \A d, e \in Docs : Path(d) = Path(e) => d = e
<1>1. IsCorpus(corpus)
  BY DEF Given
<1>2. IsFiniteSet(Docs) /\ Docs \subseteq Nat \ {0}
  BY <1>1 DEF IsCorpus, Docs
<1>3. ASSUME NEW d \in Docs
      PROVE  /\ Path(d) \in Seq(Component) /\ Path(d) # <<>>
             /\ \A i \in 1..Len(Path(d)) : Path(d)[i] # Up
             /\ Sections(d) \in Seq(Range(Sections(d))) /\ Len(Sections(d)) \in Nat
             /\ DOMAIN Sections(d) = 1..Len(Sections(d))
             /\ \A i \in 1..Len(Sections(d)) : Sections(d)[i].up \in 0..(i - 1)
  <2>1. /\ Path(d) \in Seq(Component) /\ Path(d) # <<>>
        /\ \A i \in DOMAIN Path(d) : Path(d)[i] # Up
        /\ Sections(d) \in Seq(Range(Sections(d)))
        /\ \A i \in DOMAIN Sections(d) : IsSection(Sections(d), i)
    BY <1>1 DEF IsCorpus, Docs, Path, Sections
  <2>2. DOMAIN Path(d) = 1..Len(Path(d))
    BY <2>1
  <2>3. DOMAIN Sections(d) = 1..Len(Sections(d)) /\ Len(Sections(d)) \in Nat
    BY <2>1
  <2>4. QED BY <2>1, <2>2, <2>3 DEF IsSection
<1>4. \A d, e \in Docs : Path(d) = Path(e) => d = e
  BY <1>1 DEF IsCorpus, Docs, Path
<1>5. QED BY <1>2, <1>3, <1>4

\* The target of a valid reference.
Aimed(t) ==
  \/ t.kind = "document" /\ t.doc \in Docs
  \/ t.kind = "section" /\ t.doc \in Docs /\ t.anchor \in Headings(t.doc)
  \/ t.kind = "directory" /\ t.doc \in Docs \union {0} /\ t.children \subseteq Docs

\* The index of a directory is one of the documents in it, or there is none.
LEMMA IndexOfDocs ==
  ASSUME Given, NEW dir
  PROVE  /\ IndexOf(dir) \in ChildrenOf(dir) \union {0}
         /\ ChildrenOf(dir) \subseteq Docs
<1> DEFINE index == {d \in ChildrenOf(dir) : IsDirectoryIndex(Base(Path(d)))}
<1>1. ChildrenOf(dir) \subseteq Docs
  BY DEF ChildrenOf
<1>2. index \in SUBSET Nat /\ index \subseteq ChildrenOf(dir)
  BY <1>1, CorpusFacts
<1>3. IndexOf(dir) = IF index = {} THEN 0 ELSE Min(index)
  BY DEF IndexOf
<1> HIDE DEF index
<1>4. QED BY <1>1, <1>2, <1>3, MinOf

\* A reference that resolves names a document of the corpus, and a heading of that
\* document if it names one.
LEMMA TargetsAim ==
  ASSUME Given, NEW raw, IsRaw(corpus, raw), Resolve(raw).health = "valid"
  PROVE  Aimed(Resolve(raw).target)
<1>1. raw.origin \in Docs
  BY DEF IsRaw, Docs
<1>2. ASSUME NEW d \in Docs, ResolveFragment(raw, d).health = "valid"
      PROVE  Aimed(ResolveFragment(raw, d).target)
  <2>1. AnchorKind(d, raw.frag) # "none"
    BY <1>2 DEF ResolveFragment, Ref
  <2>2. /\ ResolveFragment(raw, d).target.kind = AnchorKind(d, raw.frag)
        /\ ResolveFragment(raw, d).target.doc = d
        /\ ResolveFragment(raw, d).target.anchor = raw.frag
    BY <2>1 DEF ResolveFragment, Ref, NoTarget
  <2>3. \/ AnchorKind(d, raw.frag) = "document"
        \/ AnchorKind(d, raw.frag) = "section" /\ raw.frag \in Headings(d)
    BY <2>1 DEF AnchorKind
  <2>4. QED BY <2>2, <2>3 DEF Aimed
<1>3. ASSUME NEW d \in Docs, WithAnchor(raw, d).health = "valid"
      PROVE  Aimed(WithAnchor(raw, d).target)
  <2>1. CASE raw.frag = ""
    BY <2>1 DEF WithAnchor, Ref, ToDocument, NoTarget, Aimed
  <2>2. CASE raw.frag # ""
    BY <1>2, <1>3, <2>2 DEF WithAnchor
  <2>3. QED BY <2>1, <2>2
<1>4. ASSUME ResolveAnchorOnly(raw).health = "valid"
      PROVE  Aimed(ResolveAnchorOnly(raw).target)
  <2>1. Broken(raw).health # "valid"
    BY DEF Broken, Ref
  <2>2. QED BY <1>1, <1>2, <1>4, <2>1 DEF ResolveAnchorOnly
<1>5. ASSUME NEW dir
      PROVE  Aimed(ResolveDirectory(raw, dir).target)
  <2>1. /\ ResolveDirectory(raw, dir).target.kind = "directory"
        /\ ResolveDirectory(raw, dir).target.doc = IndexOf(dir)
        /\ ResolveDirectory(raw, dir).target.children = ChildrenOf(dir)
    BY DEF ResolveDirectory, Ref, NoTarget
  <2>2. QED BY <2>1, IndexOfDocs DEF Aimed
<1>6. /\ Broken(raw).health # "valid"
      /\ \A docs : RefAmbiguous(raw, docs).health # "valid"
      /\ \A t : Ref(raw, t, "external").health # "valid"
      /\ \A t : Ref(raw, t, "non-note").health # "valid"
  BY DEF Broken, Ref, RefAmbiguous
<1> DEFINE r == Resolve(raw)
<1>7. \/ \E d \in Docs : r = WithAnchor(raw, d)
      \/ r = ResolveAnchorOnly(raw)
      \/ \E dir : r = ResolveDirectory(raw, dir)
      \/ r = Broken(raw) \/ \E docs : r = RefAmbiguous(raw, docs)
      \/ \E t : r = Ref(raw, t, "external") \/ r = Ref(raw, t, "non-note")
  <2> DEFINE Outcome(s) ==
               \/ \E d \in Docs : s = WithAnchor(raw, d)
               \/ s = ResolveAnchorOnly(raw)
               \/ \E dir : s = ResolveDirectory(raw, dir)
               \/ s = Broken(raw) \/ \E docs : s = RefAmbiguous(raw, docs)
               \/ \E t : s = Ref(raw, t, "external") \/ s = Ref(raw, t, "non-note")
  <2>1. Outcome(ResolveWikilink(raw))
    <3> DEFINE found == MatchCandidates(raw.target, config.policy)
               candidates == IF found = {} THEN LookupAlias(raw.target) ELSE found
    <3>1. candidates \subseteq Docs
      BY DEF MatchCandidates, ExactMatches, BasenameMatches, LongestSuffixMatches, LookupAlias
    <3>2. ASSUME candidates # {} PROVE (CHOOSE d \in candidates : TRUE) \in Docs
      BY <3>1, <3>2
    <3>3. \/ candidates # {} /\ ResolveWikilink(raw) = WithAnchor(raw, CHOOSE d \in candidates : TRUE)
          \/ ResolveWikilink(raw) = ResolveAnchorOnly(raw)
          \/ ResolveWikilink(raw) = RefAmbiguous(raw, candidates)
          \/ ResolveWikilink(raw) = ResolveDirectory(raw, Clean(raw.target))
          \/ ResolveWikilink(raw) = Broken(raw)
      <4>1. Cardinality(candidates) = 1 => candidates # {}
        <5> HIDE DEF candidates
        <5>1. QED BY FS_EmptySet
      <4>2. QED BY <4>1, Zenon DEF ResolveWikilink
    <3> HIDE DEF candidates, found
    <3>4. QED BY <3>2, <3>3
  <2>2. Outcome(ResolveRelative(raw))
    <3> DEFINE path == ResolveInRoot(raw)
               known == {d \in Docs : Path(d) = path}
    <3>1. ASSUME known # {} PROVE (CHOOSE d \in known : TRUE) \in Docs
      BY <3>1
    <3>2. \/ known # {} /\ ResolveRelative(raw) = WithAnchor(raw, CHOOSE d \in known : TRUE)
          \/ ResolveRelative(raw) = ResolveAnchorOnly(raw)
          \/ ResolveRelative(raw) = ResolveDirectory(raw, path)
          \/ ResolveRelative(raw) = Broken(raw)
          \/ \E t : ResolveRelative(raw) = Ref(raw, t, "non-note")
      BY Zenon DEF ResolveRelative
    <3> HIDE DEF known, path
    <3>3. QED BY <3>1, <3>2
  <2>3. CASE raw.type = "external"
    BY <2>3, Zenon DEF Resolve
  <2>4. CASE raw.type = "anchor"
    BY <2>4 DEF Resolve
  <2>5. CASE raw.type \in {"wikilink", "transclusion"}
    <3>1. r = ResolveWikilink(raw)
      BY <2>5 DEF Resolve
    <3> HIDE DEF Outcome, r
    <3>2. Outcome(r)
      BY <2>1, <3>1
    <3>3. QED BY <3>2 DEF Outcome
  <2>6. CASE raw.type \in {"link", "image", "related"}
    <3>1. r = ResolveRelative(raw)
      BY <2>6 DEF Resolve
    <3> HIDE DEF Outcome, r
    <3>2. Outcome(r)
      BY <2>2, <3>1
    <3>3. QED BY <3>2 DEF Outcome
  <2>7. QED BY <2>3, <2>4, <2>5, <2>6 DEF IsRaw
<1> HIDE DEF r
<1>8. r.health = "valid"
  BY DEF r
<1>9. CASE \E d \in Docs : r = WithAnchor(raw, d)
  BY <1>3, <1>8, <1>9 DEF r
<1>10. CASE r = ResolveAnchorOnly(raw) \/ \E dir : r = ResolveDirectory(raw, dir)
  BY <1>4, <1>5, <1>8, <1>10 DEF r
<1>11. CASE \/ r = Broken(raw) \/ \E docs : r = RefAmbiguous(raw, docs)
            \/ \E t : r = Ref(raw, t, "external") \/ r = Ref(raw, t, "non-note")
  BY <1>6, <1>8, <1>11
<1>12. QED BY <1>7, <1>9, <1>10, <1>11

-----------------------------------------------------------------------------
\* A document and its headings are nodes of the graph.
LEMMA NodeOf ==
  ASSUME NEW d \in Docs, NEW s \in Headings(d) \union {""}
  PROVE  <<d, s>> \in GraphNodes
<1> DEFINE of == {DocNode(d)} \union {SectionNode(d, t) : t \in Headings(d)}
<1>1. <<d, s>> \in of
  BY DEF DocNode, SectionNode
<1>2. of \subseteq GraphNodes
  BY DEF GraphNodes
<1>3. QED BY <1>1, <1>2

\* The section at a position of a document is a node.
LEMMA NodeAtIn ==
  ASSUME NEW d \in Docs, NEW i, i = 0 \/ i \in DOMAIN Sections(d)
  PROVE  NodeAt(d, i) \in GraphNodes
<1>1. CASE i = 0
  BY <1>1, NodeOf DEF NodeAt, DocNode
<1>2. CASE i # 0
  <2>1. Sections(d)[i].slug \in Headings(d) \union {""}
    BY <1>2 DEF Headings
  <2>2. QED BY <1>2, <2>1, NodeOf DEF NodeAt, SectionNode
<1>3. QED BY <1>1, <1>2

\* A section lies below the document or a section before it.
LEMMA ParentsAreNodes ==
  ASSUME Given, NEW d \in Docs, NEW i \in 1..Len(Sections(d))
  PROVE  \E j \in 0..(i - 1) : ContainsParent(d, i) = NodeAt(d, j)
<1> DEFINE sections == Sections(d)
           n == Len(sections)
           Above1(k, f) ==
             IF k = 0 THEN DocNode(d)
             ELSE IF sections[k].slug # "" THEN SectionNode(d, sections[k].slug)
             ELSE f[sections[k].up]
           up[k \in 0..Len(sections)] ==
             IF k = 0 THEN DocNode(d)
             ELSE IF sections[k].slug # "" THEN SectionNode(d, sections[k].slug)
             ELSE up[sections[k].up]
           Fits(f, m) == f = [k \in 0..m |-> Above1(k, f)]
<1>1. n \in Nat /\ \A k \in 1..n : sections[k].up \in 0..(k - 1)
  BY CorpusFacts
<1>2. \E f : Fits(f, n)
  <2> DEFINE P == {m \in Nat : \E f : Fits(f, m)}
  <2>1. 0 \in P
    <3>1. Fits([k \in 0..0 |-> DocNode(d)], 0)
      <4> DEFINE f == [k \in 0..0 |-> DocNode(d)]
      <4>1. \A k \in 0..0 : Above1(k, f) = DocNode(d)
        OBVIOUS
      <4> HIDE DEF Above1
      <4>2. f = [k \in 0..0 |-> Above1(k, f)]
        BY <4>1
      <4>3. QED BY <4>2
    <3> HIDE DEF Fits
    <3>2. QED BY <3>1
  <2>2. ASSUME NEW m \in 1..n, m - 1 \in P
        PROVE  m \in P
    <3>1. PICK f : Fits(f, m - 1)
      BY <2>2
    <3> DEFINE g == [k \in 0..m |-> IF k < m THEN f[k] ELSE Above1(m, f)]
    <3>2. ASSUME NEW k \in 0..m
          PROVE  g[k] = Above1(k, g)
      <4>1. k # 0 => sections[k].up \in 0..(m - 1) /\ g[sections[k].up] = f[sections[k].up]
        <5>1. ASSUME k # 0
              PROVE  sections[k].up \in 0..(m - 1)
          BY <1>1, <5>1
        <5>2. ASSUME NEW x \in 0..(m - 1) PROVE x \in 0..m /\ x < m /\ g[x] = f[x]
          <6>1. x \in 0..m /\ x < m
            BY <1>1
          <6> HIDE DEF Above1
          <6>2. QED BY <6>1
        <5>3. QED BY <5>1, <5>2
      <4>2. Above1(k, g) = Above1(k, f)
        BY <4>1
      <4>3. CASE k < m
        <5>1. k \in 0..(m - 1)
          BY <4>3
        <5>2. f[k] = Above1(k, f)
          <6> HIDE DEF Above1
          <6>1. QED BY <3>1, <5>1
        <5>3. g[k] = f[k]
          BY <4>3
        <5>4. QED BY <4>2, <5>2, <5>3
      <4>4. CASE ~(k < m)
        <5>1. k = m
          BY <4>4
        <5>2. g[k] = Above1(m, f)
          <6> HIDE DEF Above1
          <6>1. QED BY <5>1, <4>4
        <5>3. QED BY <4>2, <5>1, <5>2
      <4>5. QED BY <4>3, <4>4
    <3>3. Fits(g, m)
      <4>1. g = [k \in 0..m |-> g[k]]
        OBVIOUS
      <4> HIDE DEF g, Above1
      <4>2. QED BY <3>2, <4>1
    <3> HIDE DEF Fits, g
    <3>4. m \in Nat
      BY <1>1
    <3>5. QED BY <3>3, <3>4
  <2> HIDE DEF P, Fits, n
  <2>3. P \in SUBSET Nat
    BY DEF P
  <2>4. 0..n \subseteq P
    BY <1>1, <2>1, <2>2, <2>3, Upward
  <2>5. n \in P
    BY <1>1, <2>4
  <2>6. QED BY <2>5 DEF P
<1>3. up = [k \in 0..n |-> Above1(k, up)]
  BY <1>2
<1>4. ContainsParent(d, i) = up[sections[i].up]
  BY DEF ContainsParent
<1> HIDE DEF up
<1> DEFINE Q == {k \in Nat : \A x \in 0..k : \E j \in 0..x : up[x] = NodeAt(d, j)}
<1>5. \A k \in 0..n : up[k] = Above1(k, up)
  <2> HIDE DEF Above1, n
  <2>1. QED BY <1>3
<1>6. 0 \in Q
  <2>1. up[0] = DocNode(d) /\ NodeAt(d, 0) = DocNode(d)
    <3>1. 0 \in 0..n /\ Above1(0, up) = DocNode(d)
      BY <1>1
    <3> HIDE DEF Above1, n
    <3>2. up[0] = DocNode(d)
      BY <1>5, <3>1
    <3>3. QED BY <3>2 DEF NodeAt
  <2>2. QED BY <2>1
<1>7. ASSUME NEW m \in 1..n, m - 1 \in Q
      PROVE  m \in Q
  <2>0. m \in 0..m
    BY <1>1
  <2>1. \A x \in 0..(m - 1) : \E j \in 0..x : up[x] = NodeAt(d, j)
    BY <1>7
  <2>2. \E j \in 0..m : up[m] = NodeAt(d, j)
    <3>1. up[m] = Above1(m, up) /\ m # 0 /\ m \in Nat
      <4>1. m # 0 /\ m \in Nat /\ m \in 0..n
        BY <1>1
      <4> HIDE DEF Above1, n
      <4>2. QED BY <1>5, <4>1
    <3>2. CASE sections[m].slug # ""
      <4>1. up[m] = NodeAt(d, m)
        BY <3>1, <3>2 DEF NodeAt
      <4>2. m \in 0..m
        BY <2>0
      <4>3. QED BY <4>1, <4>2
    <3>3. CASE sections[m].slug = ""
      <4>1. sections[m].up \in 0..(m - 1) /\ up[m] = up[sections[m].up]
        BY <1>1, <3>1, <3>3
      <4> DEFINE x == sections[m].up
      <4> HIDE DEF x
      <4>2. x \in 0..(m - 1) /\ up[m] = up[x]
        BY <4>1 DEF x
      <4>3. PICK j \in 0..x : up[x] = NodeAt(d, j)
        BY <2>1, <4>2
      <4>4. j \in 0..m
        BY <4>2
      <4>5. QED BY <4>2, <4>3, <4>4
    <3>4. QED BY <3>2, <3>3
  <2>3. \A x \in 0..m : x \in 0..(m - 1) \/ x = m
    OBVIOUS
  <2>4. QED BY <2>1, <2>2, <2>3
<1>8. n \in Q
  <2> HIDE DEF Q, n
  <2>1. Q \in SUBSET Nat
    BY DEF Q
  <2>2. 0..n \subseteq Q
    BY <1>1, <1>6, <1>7, <2>1, Upward
  <2>3. QED BY <1>1, <2>2
<1>9. sections[i].up \in 0..(i - 1) /\ sections[i].up \in 0..n
  BY <1>1
<1> DEFINE x == sections[i].up
<1> HIDE DEF x
<1>10. PICK j \in 0..x : up[x] = NodeAt(d, j)
  BY <1>8, <1>9 DEF x
<1>11. j \in 0..(i - 1)
  BY <1>9, <1>10 DEF x
<1>12. QED BY <1>4, <1>10, <1>11 DEF x

\* The edges of the graph that BuildReferenceGraph makes of the references.
Trees == UNION {ContainsTree(d) : d \in Docs}
References == UNION {AddReferenceEdge(r) : r \in ResolveAll}

\* A built graph, as its properties read it.
IsBuilt ==
  /\ Given
  /\ graph.nodes = GraphNodes
  /\ graph.edges = Trees \union References
  /\ graph.out = [d \in Docs |-> {e \in Docs : <<d, e>> \in Projection(graph.edges)}]
  /\ graph.in  = [d \in Docs |-> {e \in Docs : <<e, d>> \in Projection(graph.edges)}]

\* Once stage 4 is over the graph is that of the corpus.
LEMMA BuiltGraph ==
  ASSUME BaseInv, stage \notin {"resolve", "build"}
  PROVE  IsBuilt
<1>1. graph = BuildReferenceGraph(ResolveAll) /\ Given
  BY DEF BaseInv
<1> DEFINE edges == Trees \union References
           links == Projection(edges)
           out == [d \in Docs |-> {e \in Docs : <<d, e>> \in links}]
           in  == [d \in Docs |-> {e \in Docs : <<e, d>> \in links}]
<1>2. graph = [nodes |-> GraphNodes, edges |-> edges, out |-> out, in |-> in]
  BY <1>1, Zenon DEF BuildReferenceGraph, Trees, References
<1> HIDE DEF edges, out, in
<1>3. graph.nodes = GraphNodes /\ graph.edges = edges /\ graph.out = out /\ graph.in = in
  BY <1>2
<1>4. QED BY <1>1, <1>3 DEF IsBuilt, edges, out, in

\* The adjacency lists mirror each other, and none has its own document.
LEMMA OutAndIn ==
  ASSUME IsBuilt
  PROVE  /\ \A d, e \in Docs : e \in Out(d) <=> <<d, e>> \in Projection(graph.edges)
         /\ \A d, e \in Docs : e \in Out(d) <=> d \in In(e)
         /\ \A d \in Docs : Out(d) \subseteq Docs /\ In(d) \subseteq Docs /\ d \notin Out(d)
<1> DEFINE links == Projection(graph.edges)
<1>1. \A p \in links : p[1] # p[2]
  BY DEF Projection
<1> HIDE DEF links
<1>2. /\ graph.out = [d \in Docs |-> {e \in Docs : <<d, e>> \in links}]
      /\ graph.in  = [d \in Docs |-> {e \in Docs : <<e, d>> \in links}]
  BY DEF IsBuilt, links
<1>3. \A d \in Docs : /\ Out(d) = {e \in Docs : <<d, e>> \in links}
                      /\ In(d) = {e \in Docs : <<e, d>> \in links}
  BY <1>2 DEF Out, In
<1>4. \A d \in Docs : <<d, d>> \notin links
  BY <1>1
<1>5. QED BY <1>3, <1>4 DEF links

\* What an edge is: one of a tree, or one of a reference.
LEMMA TreeEdges ==
  ASSUME Given, NEW e \in Trees
  PROVE  \E d \in Docs : \E i \in 1..Len(Sections(d)) :
           /\ Sections(d)[i].slug # "" /\ e = Edge(ContainsParent(d, i), NodeAt(d, i), "contains", "", "", 0)
<1>1. PICK d \in Docs : e \in ContainsTree(d)
  BY DEF Trees
<1>2. PICK i \in DOMAIN Sections(d) :
        /\ Sections(d)[i].slug # ""
        /\ e = Edge(ContainsParent(d, i), SectionNode(d, Sections(d)[i].slug), "contains", "", "", 0)
  BY <1>1 DEF ContainsTree
<1>3. i \in 1..Len(Sections(d)) /\ i # 0
  BY CorpusFacts
<1>4. NodeAt(d, i) = SectionNode(d, Sections(d)[i].slug)
  BY <1>3 DEF NodeAt
<1>5. QED BY <1>2, <1>3, <1>4

\* The node a reference starts from is a node of its document.
LEMMA OriginNodeIn ==
  ASSUME Given, NEW raw, IsRaw(corpus, raw)
  PROVE  OriginNode(raw) \in GraphNodes /\ OriginNode(raw)[1] = raw.origin
<1> DEFINE d == raw.origin
           at == {i \in DOMAIN Sections(d) : Sections(d)[i].from <= raw.line /\ raw.line <= Sections(d)[i].to}
           i == ContainingSection(d, raw.line)
<1>1. d \in Docs
  BY DEF IsRaw, Docs
<1>2. i = IF at = {} THEN 0 ELSE Max(at)
  BY DEF ContainingSection
<1>3. at \in SUBSET Nat /\ IsFiniteSet(at) /\ at \subseteq DOMAIN Sections(d)
  <2>1. DOMAIN Sections(d) = 1..Len(Sections(d)) /\ Len(Sections(d)) \in Nat
    BY <1>1, CorpusFacts
  <2>2. IsFiniteSet(1..Len(Sections(d))) /\ 1..Len(Sections(d)) \subseteq Nat
    BY <2>1, FS_Interval
  <2>3. at \subseteq DOMAIN Sections(d)
    OBVIOUS
  <2> HIDE DEF at
  <2>4. QED BY <2>1, <2>2, <2>3, FS_Subset
<1> HIDE DEF at
<1>4. i = 0 \/ i \in DOMAIN Sections(d)
  BY <1>2, <1>3, MaxOf
<1> HIDE DEF i
<1>5. \/ OriginNode(raw) = <<d, "">>
      \/ i # 0 /\ OriginNode(raw) = <<d, Sections(d)[i].slug>>
  BY DEF OriginNode, DocNode, SectionNode, i
<1>6. i # 0 => Sections(d)[i].slug \in Headings(d) \union {""}
  BY <1>4 DEF Headings
<1>7. CASE OriginNode(raw) = <<d, "">>
  <2> HIDE DEF d
  <2>1. <<d, "">> \in GraphNodes
    BY <1>1, NodeOf
  <2>2. <<d, "">>[1] = d
    OBVIOUS
  <2>3. QED BY <1>7, <2>1, <2>2 DEF d
<1>8. CASE i # 0 /\ OriginNode(raw) = <<d, Sections(d)[i].slug>>
  <2>1. Sections(d)[i].slug \in Headings(d) \union {""}
    BY <1>6, <1>8
  <2> DEFINE s == Sections(d)[i].slug
  <2> HIDE DEF d, s
  <2>2. <<d, s>> \in GraphNodes
    BY <1>1, <2>1, NodeOf DEF s
  <2>3. OriginNode(raw) = <<d, s>>
    BY <1>8 DEF s
  <2>4. QED BY <2>2, <2>3 DEF d
<1>9. QED BY <1>5, <1>7, <1>8

\* An edge of a reference joins two nodes and goes back to a reference somebody wrote.
LEMMA ReferenceEdges ==
  ASSUME Given, NEW e \in References
  PROVE  /\ e.kind = "reference" /\ {e.from, e.to} \subseteq GraphNodes
         /\ \E raw \in raws : /\ e.from = OriginNode(raw) /\ e.from[1] = raw.origin /\ e.type = raw.type
                              /\ e.line \in {0, raw.line} /\ e.text \in {"", raw.text}
                              /\ e.line > 0 => e.line = raw.line /\ e.text = raw.text
<1>1. PICK raw \in raws : e \in AddReferenceEdge(Resolve(raw))
  BY DEF References, ResolveAll
<1> DEFINE r == Resolve(raw)
<1>2. IsRaw(corpus, raw)
  BY DEF Given
<1>3. r.raw = raw
  BY <1>2, ResolveKeepsRaw DEF IsRaw
<1>4. r.health = "valid" /\ Aimed(r.target)
  <2>1. r.health = "valid"
    BY <1>1 DEF AddReferenceEdge
  <2>2. QED BY <1>2, <2>1, TargetsAim
<1>5. OriginNode(raw) \in GraphNodes /\ OriginNode(raw)[1] = raw.origin
  BY <1>2, OriginNodeIn
<1> HIDE DEF r
<1>6. CASE r.target.kind = "directory"
  <2>1. e \in DirectoryEdges(r)
    BY <1>1, <1>4, <1>6 DEF AddReferenceEdge, r
  <2>2. PICK d \in (IF config.strictDirs THEN {r.target.doc} \ {0} ELSE r.target.children) :
          e = Edge(OriginNode(r.raw), DocNode(d), "reference", r.raw.type, "", 0)
    BY <2>1 DEF DirectoryEdges
  <2>3. d \in Docs
    BY <1>4, <1>6, <2>2 DEF Aimed
  <2>4. DocNode(d) \in GraphNodes
    BY <2>3, NodeOf DEF DocNode
  <2>5. e = Edge(OriginNode(raw), DocNode(d), "reference", raw.type, "", 0)
    BY <1>3, <2>2
  <2>6. /\ e.kind = "reference" /\ e.from = OriginNode(raw) /\ e.to = DocNode(d) /\ e.type = raw.type
        /\ e.line = 0 /\ e.text = ""
    BY <2>5 DEF Edge
  <2>7. e.line \in {0, raw.line} /\ ~(e.line > 0)
    <3>1. e.line = 0
      BY <2>6
    <3>2. ~(0 > 0)
      OBVIOUS
    <3>3. QED BY <3>1, <3>2
  <2>8. QED BY <1>5, <2>4, <2>6, <2>7
<1>7. CASE r.target.kind # "directory"
  <2> DEFINE to == IF r.target.kind = "section"
                   THEN SectionNode(r.target.doc, r.target.anchor) ELSE DocNode(r.target.doc)
  <2>1. e = ReferenceEdge(r)
    BY <1>1, <1>4, <1>7 DEF AddReferenceEdge, r
  <2>2. e = Edge(OriginNode(raw), to, "reference", raw.type, raw.text, raw.line)
    BY <1>3, <2>1 DEF ReferenceEdge
  <2>3. to \in GraphNodes
    BY <1>4, <1>7, NodeOf DEF Aimed, SectionNode, DocNode
  <2> HIDE DEF to
  <2>4. /\ e.kind = "reference" /\ e.from = OriginNode(raw) /\ e.to = to /\ e.type = raw.type
        /\ e.line = raw.line /\ e.text = raw.text
    BY <2>2 DEF Edge
  <2>5. QED BY <1>5, <2>3, <2>4
<1>8. QED BY <1>6, <1>7

-----------------------------------------------------------------------------
(* Links between documents.                                                *)

\* A link up and down the directories, split as the resolver splits it, is clean and does
\* not leave the root.
LEMMA LinkParts ==
  ASSUME NEW A, NEW p \in Seq(A), NEW q \in Seq(A), p # <<>>, q # <<>>,
         \A i \in 1..Len(p) : p[i] # Up, \A i \in 1..Len(q) : q[i] # Up
  PROVE  /\ Clean(Front(p) \o ([i \in DOMAIN Front(p) |-> Up] \o q)) = q
         /\ [i \in DOMAIN Front(p) |-> Up] \o q # <<>>
         /\ ~EscapesRoot(q)
<1> DEFINE f == Front(p)
           n == Len(p) - 1
           ups == [i \in DOMAIN f |-> Up]
           B == A \union {Up}
<1>1. n \in Nat /\ n <= Len(p)
  BY EndsTyped
<1>2. f \in Seq(A) /\ Len(f) = n /\ \A i \in 1..n : f[i] = p[i]
  <2>1. f = SubSeq(p, 1, n)
    BY SMT DEF Front
  <2> HIDE DEF f, n
  <2>2. QED BY <1>1, <2>1, BeginningTyped
<1>3. \A i \in 1..Len(f) : f[i] # Up
  BY <1>1, <1>2
<1> HIDE DEF f, n
<1>4. Clean(f \o ([i \in DOMAIN f |-> Up] \o q)) = q
  BY <1>2, <1>3, CleanLink
<1>5. ups \in Seq(B) /\ q \in Seq(B) /\ Len(q) \in Nat /\ Len(q) # 0
  <2>1. DOMAIN f = 1..Len(f) /\ Len(f) \in Nat /\ Up \in B
    BY <1>2
  <2>2. ups \in Seq(B)
    BY <2>1
  <2>3. q \in Seq(B)
    OBVIOUS
  <2>4. Len(q) \in Nat /\ Len(q) # 0
    OBVIOUS
  <2>5. QED BY <2>2, <2>3, <2>4
<1> HIDE DEF B, ups
<1>6. Len(ups \o q) = Len(ups) + Len(q) /\ Len(ups) \in Nat
  BY <1>5, Joined
<1>7. ups \o q # <<>>
  <2>1. Len(ups \o q) # 0 /\ Len(<<>>) = 0
    BY <1>5, <1>6
  <2>2. QED BY <2>1
<1>8. ~EscapesRoot(q)
  <2>1. 1 \in 1..Len(q) /\ Head(q) = q[1]
    BY <1>5
  <2>2. q[1] # Up
    BY <2>1
  <2>3. QED BY <2>1, <2>2 DEF EscapesRoot
<1>9. QED BY <1>4, <1>7, <1>8 DEF ups, f

\* A relative link to another document becomes an edge to it.
LEMMA LinksArrive ==
  ASSUME IsBuilt, NEW raw \in raws, NEW e \in Docs,
         raw.type = "link", "link" \in config.navTypes, ~raw.abs, raw.frag = "",
         raw.target = RelTo(raw.origin, e), e # raw.origin
  PROVE  <<raw.origin, e>> \in Projection(graph.edges)
<1> DEFINE o == raw.origin
<1>1. Given /\ IsRaw(corpus, raw)
  BY DEF IsBuilt, Given
<1>2. o \in Docs
  BY <1>1 DEF IsRaw, Docs
<1>3. /\ Path(o) \in Seq(Component) /\ Path(o) # <<>> /\ \A i \in 1..Len(Path(o)) : Path(o)[i] # Up
      /\ Path(e) \in Seq(Component) /\ Path(e) # <<>> /\ \A i \in 1..Len(Path(e)) : Path(e)[i] # Up
  BY <1>1, <1>2, CorpusFacts
<1> DEFINE q == Path(e)
<1>4. /\ Clean(Front(Path(o)) \o ([i \in DOMAIN Front(Path(o)) |-> Up] \o q)) = q
      /\ [i \in DOMAIN Front(Path(o)) |-> Up] \o q # <<>>
      /\ ~EscapesRoot(q)
  <2> HIDE DEF o
  <2>1. QED BY <1>3, LinkParts
<1>5. ResolveInRoot(raw) = q
  <2>1. ResolveInRoot(raw) = Clean(Front(Path(o)) \o raw.target)
    BY DEF ResolveInRoot, Dir
  <2>2. raw.target = [i \in DOMAIN Front(Path(o)) |-> Up] \o q
    BY DEF RelTo, Dir
  <2>3. QED BY <1>4, <2>1, <2>2
<1>6. raw.target # <<>>
  BY <1>4 DEF RelTo, Dir
<1>7. ~EscapesRoot(q)
  BY <1>4
<1>8. {d \in Docs : Path(d) = q} = {e}
  BY <1>1, CorpusFacts
<1>9. Resolve(raw) = WithAnchor(raw, e)
  <2>1. Resolve(raw) = ResolveRelative(raw)
    BY DEF Resolve
  <2>2. (CHOOSE d \in {e} : TRUE) = e /\ {e} # {}
    OBVIOUS
  <2> HIDE DEF q
  <2>3. ResolveRelative(raw) = WithAnchor(raw, CHOOSE d \in {e} : TRUE)
    BY <1>5, <1>6, <1>7, <1>8, <2>2 DEF ResolveRelative
  <2>4. QED BY <2>1, <2>2, <2>3
<1> DEFINE r == Resolve(raw)
<1>10. /\ r.raw = raw /\ r.health = "valid" /\ r.target.kind = "document" /\ r.target.doc = e
  <2>1. r = Ref(raw, ToDocument(e), "valid")
    BY <1>9 DEF WithAnchor
  <2> HIDE DEF r, o, q
  <2>2. QED BY <2>1 DEF Ref, ToDocument, NoTarget
<1> DEFINE x == Edge(OriginNode(raw), DocNode(e), "reference", raw.type, raw.text, raw.line)
<1>11. x \in graph.edges
  <2>1. AddReferenceEdge(r) = {ReferenceEdge(r)}
    BY <1>10, Zenon DEF AddReferenceEdge
  <2>2. ReferenceEdge(r) = x
    BY <1>10 DEF ReferenceEdge
  <2>3. AddReferenceEdge(r) \subseteq References
    BY DEF References, ResolveAll
  <2>4. QED BY <2>1, <2>2, <2>3 DEF IsBuilt
<1>12. /\ x.kind = "reference" /\ x.type = "link" /\ x.from[1] = o /\ x.to[1] = e
  <2>1. OriginNode(raw)[1] = o /\ DocNode(e)[1] = e
    BY <1>1, OriginNodeIn DEF DocNode
  <2>2. x.kind = "reference" /\ x.type = "link" /\ x.from = OriginNode(raw) /\ x.to = DocNode(e)
    BY DEF Edge
  <2>3. QED BY <2>1, <2>2
<1> HIDE DEF x
<1>13. <<x.from[1], x.to[1]>> \in Projection(graph.edges)
  BY <1>11, <1>12 DEF Projection
<1>14. QED BY <1>12, <1>13

\* Equal pairs have equal parts.
LEMMA PairParts ==
  ASSUME NEW a, NEW b, NEW c, NEW e, <<a, b>> = <<c, e>>
  PROVE  a = c /\ b = e
OBVIOUS

\* The first part of a pair.
LEMMA PairFirst ==
  ASSUME NEW a, NEW b
  PROVE  <<a, b>>[1] = a
OBVIOUS

\* The edges of kind contains are those of the section trees.
LEMMA TreeIsTrees ==
  ASSUME IsBuilt
  PROVE  {e \in graph.edges : e.kind = "contains"} = Trees
<1>1. Given /\ graph.edges = Trees \union References
  BY DEF IsBuilt
<1>2. ASSUME NEW e \in Trees PROVE e.kind = "contains"
  <2>1. PICK d \in Docs : \E i \in 1..Len(Sections(d)) :
           e = Edge(ContainsParent(d, i), NodeAt(d, i), "contains", "", "", 0)
    BY <1>1, TreeEdges
  <2>2. PICK i \in 1..Len(Sections(d)) :
           e = Edge(ContainsParent(d, i), NodeAt(d, i), "contains", "", "", 0)
    BY <2>1
  <2>3. QED BY <2>2 DEF Edge
<1>3. ASSUME NEW e \in References PROVE e.kind # "contains"
  BY <1>1, ReferenceEdges
<1>4. QED BY <1>1, <1>2, <1>3

\* What an edge of a tree joins.
LEMMA TreeJoins ==
  ASSUME Given, NEW e \in Trees
  PROVE  \E d \in Docs : \E k \in 1..Len(Sections(d)) : \E i \in 0..(k - 1) :
           /\ Sections(d)[k].slug # "" /\ e.from = NodeAt(d, i) /\ e.to = NodeAt(d, k)
           /\ e.to = <<d, Sections(d)[k].slug>> /\ e.from[1] = d
           /\ e = Edge(ContainsParent(d, k), NodeAt(d, k), "contains", "", "", 0)
           /\ {e.from, e.to} \subseteq GraphNodes
<1>1. PICK d \in Docs : \E i \in 1..Len(Sections(d)) :
           /\ Sections(d)[i].slug # "" /\ e = Edge(ContainsParent(d, i), NodeAt(d, i), "contains", "", "", 0)
  BY TreeEdges
<1>2. PICK k \in 1..Len(Sections(d)) :
           /\ Sections(d)[k].slug # "" /\ e = Edge(ContainsParent(d, k), NodeAt(d, k), "contains", "", "", 0)
  BY <1>1
<1>3. e.from = ContainsParent(d, k) /\ e.to = NodeAt(d, k)
  BY <1>2 DEF Edge
<1>4. PICK i \in 0..(k - 1) : ContainsParent(d, k) = NodeAt(d, i)
  BY ParentsAreNodes
<1>5. DOMAIN Sections(d) = 1..Len(Sections(d)) /\ Len(Sections(d)) \in Nat
  BY CorpusFacts
<1>6. k # 0 /\ (i = 0 \/ i \in DOMAIN Sections(d)) /\ k \in DOMAIN Sections(d)
  BY <1>5
<1>7. NodeAt(d, k) = <<d, Sections(d)[k].slug>>
  BY <1>6 DEF NodeAt, SectionNode
<1>8. NodeAt(d, i)[1] = d
  <2>1. NodeAt(d, i) = <<d, "">> \/ NodeAt(d, i) = <<d, Sections(d)[i].slug>>
    BY DEF NodeAt, DocNode, SectionNode
  <2>2. CASE NodeAt(d, i) = <<d, "">>
    BY <2>2, PairFirst
  <2>3. CASE NodeAt(d, i) = <<d, Sections(d)[i].slug>>
    BY <2>3, PairFirst
  <2>4. QED BY <2>1, <2>2, <2>3
<1>9. {NodeAt(d, i), NodeAt(d, k)} \subseteq GraphNodes
  BY <1>6, NodeAtIn
<1>10. QED BY <1>2, <1>3, <1>4, <1>7, <1>8, <1>9

\* A heading is below something once at least, and once for each section of its slug at
\* most.
LEMMA TreeCounts ==
  ASSUME Given, NEW d \in Docs, NEW s \in Headings(d)
  PROVE  Cardinality({e \in Trees : e.to = <<d, s>>})
           \in 1..Cardinality({i \in DOMAIN Sections(d) : NodeAt(d, i) = <<d, s>>})
<1> DEFINE T == {e \in Trees : e.to = <<d, s>>}
           S == {i \in DOMAIN Sections(d) : NodeAt(d, i) = <<d, s>>}
           E(i) == Edge(ContainsParent(d, i), NodeAt(d, i), "contains", "", "", 0)
           g == [i \in S |-> E(i)]
<1>1. DOMAIN Sections(d) = 1..Len(Sections(d)) /\ Len(Sections(d)) \in Nat
  BY CorpusFacts
<1>2. IsFiniteSet(S)
  <2>1. IsFiniteSet(1..Len(Sections(d)))
    BY <1>1, FS_Interval
  <2>2. QED BY <1>1, <2>1, FS_Subset
<1>3. \A i \in 1..Len(Sections(d)) : NodeAt(d, i) = <<d, Sections(d)[i].slug>>
  BY <1>1 DEF NodeAt, SectionNode
<1>4. s # ""
  BY DEF Headings
<1>5. ASSUME NEW i \in S PROVE E(i) \in T
  <2>0. i \in 1..Len(Sections(d)) /\ NodeAt(d, i) = <<d, s>>
    BY <1>1
  <2>1. i \in 1..Len(Sections(d)) /\ Sections(d)[i].slug # ""
    <3>1. <<d, Sections(d)[i].slug>> = <<d, s>>
      BY <1>3, <2>0
    <3>2. Sections(d)[i].slug = s
      BY <3>1, PairParts
    <3>3. QED BY <1>4, <2>0, <3>2
  <2>2. E(i) \in ContainsTree(d)
    BY <1>1, <1>3, <2>1 DEF ContainsTree, SectionNode
  <2>3. E(i).to = <<d, s>>
    BY DEF Edge
  <2> HIDE DEF E
  <2>4. QED BY <2>2, <2>3 DEF Trees
<1>6. ASSUME NEW e \in T PROVE \E i \in S : g[i] = e
  <2>1. PICK c \in Docs : \E k \in 1..Len(Sections(c)) :
           /\ e.to = <<c, Sections(c)[k].slug>> /\ e.to = NodeAt(c, k)
           /\ e = Edge(ContainsParent(c, k), NodeAt(c, k), "contains", "", "", 0)
    BY TreeJoins
  <2>2. PICK k \in 1..Len(Sections(c)) :
           /\ e.to = <<c, Sections(c)[k].slug>> /\ e.to = NodeAt(c, k)
           /\ e = Edge(ContainsParent(c, k), NodeAt(c, k), "contains", "", "", 0)
    BY <2>1
  <2>3. c = d
    <3>1. <<c, Sections(c)[k].slug>> = <<d, s>>
      BY <2>2
    <3>2. QED BY <3>1, PairParts
  <2>4. k \in S /\ e = E(k)
    BY <1>1, <2>2, <2>3
  <2> HIDE DEF E, S
  <2>5. QED BY <2>4
<1>7. \E i \in S : TRUE
  <2>1. PICK i \in DOMAIN Sections(d) : Sections(d)[i].slug = s
    BY DEF Headings
  <2>2. NodeAt(d, i) = <<d, s>>
    BY <1>1, <1>3, <2>1
  <2>3. QED BY <2>2
<1> HIDE DEF S, T, E
<1>8. g \in Surjection(S, T)
  <2>1. g \in [S -> T]
    BY <1>5
  <2> HIDE DEF g
  <2>2. QED BY <1>6, <2>1 DEF Surjection
<1>9. IsFiniteSet(T) /\ Cardinality(T) <= Cardinality(S)
  BY <1>2, <1>8, FS_Surjection
<1>10. Cardinality(T) \in Nat /\ Cardinality(S) \in Nat /\ Cardinality(T) # 0
  BY <1>2, <1>5, <1>7, <1>9, FS_CardinalityType, FS_EmptySet
<1>11. Cardinality(T) \in 1..Cardinality(S)
  BY <1>9, <1>10
<1>12. QED BY <1>11 DEF T, S

\* The graph is that of the links: from the inductive invariant of the inputs alone.
LEMMA GraphHolds ==
  ASSUME BaseInv
  PROVE  GraphIsExact
<1> SUFFICES ASSUME Built PROVE GraphIsExact
  BY DEF GraphIsExact
<1>1. IsBuilt /\ Given
  <2>1. IsBuilt
    BY BuiltGraph DEF Built
  <2>2. QED BY <2>1 DEF IsBuilt
<1>2. ASSUME NEW raw \in raws, NEW e \in Docs,
             raw.type = "link", "link" \in config.navTypes, ~raw.abs, raw.frag = "",
             raw.target = RelTo(raw.origin, e)
      PROVE  e \in Out(raw.origin) <=> e # raw.origin
  <2>1. raw.origin \in Docs
    BY <1>1 DEF Given, IsRaw, Docs
  <2>2. e # raw.origin => <<raw.origin, e>> \in Projection(graph.edges)
    BY <1>1, <1>2, LinksArrive
  <2>3. QED BY <1>1, <2>1, <2>2, OutAndIn
<1>3. \A d, e \in Docs : (e \in Out(d) <=> d \in In(e)) /\ d \notin Out(d)
  BY <1>1, OutAndIn
<1>4. \A e \in graph.edges : {e.from, e.to} \subseteq graph.nodes
  <2>1. ASSUME NEW e \in Trees PROVE {e.from, e.to} \subseteq GraphNodes
    BY <1>1, TreeJoins
  <2>2. ASSUME NEW e \in References PROVE {e.from, e.to} \subseteq GraphNodes
    BY <1>1, ReferenceEdges
  <2>3. QED BY <1>1, <2>1, <2>2 DEF IsBuilt
<1> DEFINE tree == {e \in graph.edges : e.kind = "contains"}
<1>5. tree = Trees
  BY <1>1, TreeIsTrees
<1>6. ASSUME NEW n \in graph.nodes
      PROVE  LET above == Cardinality({e \in tree : e.to = n})
                 named == Cardinality({i \in DOMAIN Sections(n[1]) : NodeAt(n[1], i) = n}) IN
             IF n = DocNode(n[1]) THEN above = 0 ELSE above \in 1..named
  <2>1. PICK d \in Docs : \E s \in Headings(d) \union {""} : n = <<d, s>>
    <3>1. PICK d \in Docs : n \in {DocNode(d)} \union {SectionNode(d, t) : t \in Headings(d)}
      BY <1>1 DEF IsBuilt, GraphNodes
    <3>2. \E s \in Headings(d) \union {""} : n = <<d, s>>
      BY <3>1 DEF DocNode, SectionNode
    <3>3. QED BY <3>2
  <2>0. PICK s \in Headings(d) \union {""} : n = <<d, s>>
    BY <2>1
  <2> HIDE DEF tree
  <2>2. CASE s = ""
    <3>1. n = DocNode(n[1])
      BY <2>0, <2>2 DEF DocNode
    <3>2. {e \in tree : e.to = n} = {}
      <4>1. ASSUME NEW e \in Trees PROVE e.to # n
        <5>1. PICK c \in Docs : \E k \in 1..Len(Sections(c)) :
                Sections(c)[k].slug # "" /\ e.to = <<c, Sections(c)[k].slug>>
          BY <1>1, TreeJoins
        <5>2. PICK k \in 1..Len(Sections(c)) :
                Sections(c)[k].slug # "" /\ e.to = <<c, Sections(c)[k].slug>>
          BY <5>1
        <5>3. ASSUME e.to = n PROVE FALSE
          <6>1. <<c, Sections(c)[k].slug>> = <<d, "">>
            BY <2>0, <2>2, <5>2, <5>3
          <6>2. QED BY <5>2, <6>1, PairParts
        <5>4. QED BY <5>3
      <4>2. QED BY <1>5, <4>1
    <3>3. QED BY <3>1, <3>2, FS_EmptySet
  <2>3. CASE s # ""
    <3>1. n # DocNode(n[1]) /\ s \in Headings(d) /\ n[1] = d
      BY <2>0, <2>3 DEF DocNode
    <3>2. Cardinality({e \in Trees : e.to = <<d, s>>})
            \in 1..Cardinality({i \in DOMAIN Sections(d) : NodeAt(d, i) = <<d, s>>})
      BY <1>1, <3>1, TreeCounts
    <3>3. QED BY <1>5, <2>0, <3>1, <3>2
  <2>4. QED BY <2>2, <2>3
<1>7. ASSUME NEW e \in tree
      PROVE  /\ e.from[1] = e.to[1]
             /\ \E i, k \in 0..Len(Sections(e.to[1])) :
                  i < k /\ e.from = NodeAt(e.to[1], i) /\ e.to = NodeAt(e.to[1], k)
  <2>1. PICK d \in Docs : \E k \in 1..Len(Sections(d)) : \E i \in 0..(k - 1) :
           /\ e.from = NodeAt(d, i) /\ e.to = NodeAt(d, k)
           /\ e.to = <<d, Sections(d)[k].slug>> /\ e.from[1] = d
    BY <1>1, <1>5, TreeJoins
  <2>0. PICK k \in 1..Len(Sections(d)) : \E i \in 0..(k - 1) :
           /\ e.from = NodeAt(d, i) /\ e.to = NodeAt(d, k)
           /\ e.to = <<d, Sections(d)[k].slug>> /\ e.from[1] = d
    BY <2>1
  <2>2. PICK i \in 0..(k - 1) :
           /\ e.from = NodeAt(d, i) /\ e.to = NodeAt(d, k)
           /\ e.to = <<d, Sections(d)[k].slug>> /\ e.from[1] = d
    BY <2>0
  <2>3. e.to[1] = d
    BY <2>2
  <2>4. Len(Sections(d)) \in Nat
    BY <1>1, CorpusFacts
  <2>5. i \in 0..Len(Sections(d)) /\ k \in 0..Len(Sections(d)) /\ i < k
    BY <2>4
  <2>6. QED BY <2>2, <2>3, <2>5
<1>8. QED BY <1>2, <1>3, <1>4, <1>6, <1>7 DEF GraphIsExact

\* What Measure and TrailsEnd put into the report stays what it was computed to be.
LEMMA SameHierarchy ==
  ASSUME given' = given
  PROVE  BuildHierarchyTree' = BuildHierarchyTree
BY SMT DEF given, BuildHierarchyTree, ResolveParent, Named, IndexOf, ChildrenOf, Docs, Path

\* The scent findings read inputs and graph.
LEMMA SameScent ==
  ASSUME given' = given, graph' = graph
  PROVE  ComputeScent' = ComputeScent
<1>1. \A d : HeadingTexts(d)' = HeadingTexts(d)
  BY DEF given, HeadingTexts, Sections, Sorted
<1>2. \A d : Title(d)' = Title(d)
  BY <1>1 DEF given, Title
<1>3. \A d, s : HeadingTextBySlug(d, s)' = HeadingTextBySlug(d, s)
  BY DEF given, HeadingTextBySlug, Sections
<1>4. \A d, s : ScentCandidates(d, s)' = ScentCandidates(d, s)
  BY <1>1, <1>2, <1>3, Zenon DEF ScentCandidates
<1>5. \A t, d : EffectiveAnchor(t, d)' = EffectiveAnchor(t, d)
  BY DEF given, EffectiveAnchor, Path
<1>6. \A e : Scored(e)' = Scored(e)
  BY <1>4, <1>5 DEF Scored
<1>7. \A t, d : NamesTargetIdentifier(t, d)' = NamesTargetIdentifier(t, d)
  BY DEF given, NamesTargetIdentifier, Path
<1>8. QED BY <1>6, <1>7 DEF given, ComputeScent

\* The findings read what the analyses left.
LEMMA SameFindings ==
  ASSUME given' = given, graph' = graph, refs' = refs, bfs' = bfs, ab' = ab, NEW g, NEW l, NEW s
  PROVE  AllFindings(g, l, s)' = AllFindings(g, l, s)
<1>1. FindingsFromReferences' = FindingsFromReferences
  BY DEF FindingsFromReferences
<1>2. FindingsFromMetrics(g, l, s)' = FindingsFromMetrics(g, l, s)
  BY DEF given, FindingsFromMetrics, Isolated, DeadEnd, UnderLinked, Unreachable, FarFromRoot, StructureSeverity,
   StructureExempt, RootSet, IntentionalOrphans, Indeterminate, RootsOf, RootDistance, Reached, Docs, Path
<1>3. DeadLinkFindings' = DeadLinkFindings
  BY DEF given, DeadLinkFindings
<1>4. OKFFindings' = OKFFindings
  BY DEF given, OKFFindings, MissingFrontmatter, MissingType, ReservedStructure, BadIndex, OnlyOKFVersion, UndatedLines,
    Concepts, IsIndexFile, IsLogFile, Docs, Path, Sections
<1>5. QED BY <1>1, <1>2, <1>3, <1>4 DEF given, AllFindings

\* The components and gaps read inputs, graph and union-find.
LEMMA SameGaps ==
  ASSUME given' = given, graph' = graph, uf' = uf
  PROVE  WCC' = WCC /\ DetectGaps(config.minGap)' = DetectGaps(config.minGap)
<1>1. WCC' = WCC
  BY SMT DEF given, WCC, Find, Way, Docs
<1>2. DetectGaps(config.minGap)' = DetectGaps(config.minGap)
  BY <1>1, SMT DEF given, DetectGaps
<1>3. QED BY <1>1, <1>2

\* The suggestions read inputs and graph.
LEMMA SameSuggestions ==
  ASSUME given' = given, graph' = graph
  PROVE  /\ \A a, b : Suggestion(a, b)' = Suggestion(a, b)
         /\ PredictLinks' = PredictLinks
<1>1. \A c : Neighbours(c)' = Neighbours(c)
  BY DEF Neighbours
<1>2. Docs' = Docs /\ Hubs' = Hubs
  BY <1>1 DEF given, Docs, Hubs
<1>3. \A a, b : Shared(a, b)' = Shared(a, b) /\ Linked(a, b)' = Linked(a, b)
  BY <1>1, <1>2 DEF Shared, Linked
<1>4. ASSUME NEW a, NEW b PROVE Suggestion(a, b)' = Suggestion(a, b)
  <2> DEFINE of == [c \in Shared(a, b) |-> Weight[Cardinality(Neighbours(c))]]
  <2>1. of' = of
    BY <1>1, <1>3
  <2>2. Suggestion(a, b) = [a |-> a, b |-> b, shared |-> Cardinality(Shared(a, b)),
             adamicAdar |-> SumFunction(of),
             coupling   |-> Cardinality(graph.out[a] \intersect graph.out[b]),
             cocitation |-> Cardinality(graph.in[a] \intersect graph.in[b])]
    BY DEF Suggestion
  <2>3. Suggestion(a, b)' = [a |-> a, b |-> b, shared |-> Cardinality(Shared(a, b)'),
             adamicAdar |-> SumFunction(of'),
             coupling   |-> Cardinality(graph'.out[a] \intersect graph'.out[b]),
             cocitation |-> Cardinality(graph'.in[a] \intersect graph'.in[b])]
    BY DEF Suggestion
  <2> HIDE DEF of
  <2>4. QED BY <1>3, <2>1, <2>2, <2>3
<1>5. PredictLinks' = PredictLinks
  BY <1>2, <1>3, <1>4 DEF given, PredictLinks, Candidates
<1>6. QED BY <1>4, <1>5

\* The report holds what Measure and TrailsEnd computed.
ReportInv ==
  /\ stage \in {"critical", "rank", "trails"} =>
       report.gaps = DetectGaps(config.minGap) /\ report.links = PredictLinks
  /\ stage = "done" =>
       /\ report.scent = ComputeScent /\ report.hierarchy = BuildHierarchyTree
       /\ report.findings =
            AllFindings(DetectGaps(config.minGap).gaps, PredictLinks.suggestions, ComputeScent)

\* A report, once computed, is that of the state it is read in.
LEMMA ReportStep ==
  ASSUME ReportInv, [Next]_vars
  PROVE  ReportInv'
<1>1. CASE stage' \notin {"critical", "rank", "trails", "done"}
  BY <1>1 DEF ReportInv
<1>2. CASE Measure
  <2>1. /\ stage' = "critical" /\ report'.gaps = DetectGaps(config.minGap)
        /\ report'.links = PredictLinks
        /\ given' = given /\ graph' = graph /\ uf' = uf
    BY <1>2 DEF Measure
  <2>2. QED BY <2>1, SameGaps, SameSuggestions DEF ReportInv
<1>3. CASE TrailsEnd
  <2>1. stage = "trails" /\ stage' = "done"
    BY <1>3 DEF TrailsEnd
  <2>2. report.gaps = DetectGaps(config.minGap) /\ report.links = PredictLinks
    BY <2>1 DEF ReportInv
  <2>3. report' = [scent     |-> ComputeScent,
                   hierarchy |-> BuildHierarchyTree,
                   findings  |-> AllFindings(report.gaps.gaps, report.links.suggestions, ComputeScent)]
    BY <1>3 DEF TrailsEnd
  <2>4. given' = given /\ graph' = graph /\ refs' = refs /\ uf' = uf /\ bfs' = bfs /\ ab' = ab
    BY <1>3 DEF TrailsEnd, search
  <2> DEFINE g == DetectGaps(config.minGap).gaps
             l == PredictLinks.suggestions
             s == ComputeScent
  <2>5. g' = g /\ l' = l /\ s' = s
    BY <2>4, SameGaps, SameSuggestions, SameScent
  <2>6. AllFindings(g, l, s)' = AllFindings(g, l, s)
    <3> HIDE DEF g, l, s
    <3>1. \A x, y, z : AllFindings(x, y, z)' = AllFindings(x, y, z)
      BY <2>4, SameFindings
    <3>2. QED BY <2>5, <3>1
  <2>7. BuildHierarchyTree' = BuildHierarchyTree
    BY <2>4, SameHierarchy
  <2>8. report' = [scent |-> s, hierarchy |-> BuildHierarchyTree, findings |-> AllFindings(g, l, s)]
    BY <2>2, <2>3
  <2>9. /\ report'.scent = s' /\ report'.hierarchy = BuildHierarchyTree'
        /\ report'.findings = AllFindings(g, l, s)'
    <3> HIDE DEF g, l, s
    <3>1. QED BY <2>5, <2>6, <2>7, <2>8
  <2>10. QED BY <2>1, <2>9 DEF ReportInv
<1>4. CASE /\ stage \in {"critical", "rank", "trails", "done"} /\ ~TrailsEnd
           /\ stage' \in {"critical", "rank", "trails", "done"}
  <2>1. /\ report' = report /\ given' = given /\ graph' = graph /\ refs' = refs /\ uf' = uf /\ bfs' = bfs
        /\ stage' = "done" => stage = "done" /\ ab' = ab
    <3>1. CASE UNCHANGED vars
      BY <3>1 DEF vars, search
    <3>2. CASE Next
      BY <1>4, <3>2 DEF Next, ResolveReferences, BuildGraph, StartComponents, WeakStep, WeakDone,
        StrongStep, StrongDone, SearchDistances, SearchPaths, Measure, CriticalSteps, CriticalEnds,
        PageRank, TrailStep, Terminating, vars, search
    <3>3. QED BY <3>1, <3>2
  <2>2. CASE stage' \in {"critical", "rank", "trails"}
    <3>1. stage \in {"critical", "rank", "trails"}
      BY <1>4, <2>2 DEF Next, ResolveReferences, BuildGraph, StartComponents, WeakStep, WeakDone,
        StrongStep, StrongDone, SearchDistances, SearchPaths, Measure, CriticalSteps, CriticalEnds,
        PageRank, TrailStep, Terminating, vars, search
    <3>2. QED BY <2>1, <2>2, <3>1, SameGaps, SameSuggestions DEF ReportInv
  <2>3. CASE stage' = "done"
    <3> DEFINE g == DetectGaps(config.minGap).gaps
               l == PredictLinks.suggestions
               s == ComputeScent
    <3>1. g' = g /\ l' = l /\ s' = s
      BY <2>1, SameGaps, SameSuggestions, SameScent
    <3>2. AllFindings(g, l, s)' = AllFindings(g, l, s)
      <4> HIDE DEF g, l, s
      <4>1. \A x, y, z : AllFindings(x, y, z)' = AllFindings(x, y, z)
        BY <2>1, <2>3, SameFindings
      <4>2. QED BY <3>1, <4>1
    <3>3. BuildHierarchyTree' = BuildHierarchyTree
      BY <2>1, SameHierarchy
    <3>4. /\ report.scent = s /\ report.hierarchy = BuildHierarchyTree
          /\ report.findings = AllFindings(g, l, s)
      BY <2>1, <2>3 DEF ReportInv
    <3>5. /\ report'.scent = s' /\ report'.hierarchy = BuildHierarchyTree'
          /\ report'.findings = AllFindings(g, l, s)'
      <4> HIDE DEF g, l, s
      <4>1. QED BY <2>1, <3>1, <3>2, <3>3, <3>4
    <3>6. QED BY <2>3, <3>5 DEF ReportInv
  <2>4. QED BY <1>4, <2>2, <2>3
<1>5. \/ stage' \notin {"critical", "rank", "trails", "done"} \/ Measure \/ TrailsEnd
      \/ /\ stage \in {"critical", "rank", "trails", "done"} /\ ~TrailsEnd
         /\ stage' \in {"critical", "rank", "trails", "done"}
  BY DEF Next, ResolveReferences, BuildGraph, StartComponents, WeakStep, WeakDone,
        StrongStep, StrongDone, SearchDistances, SearchPaths, CriticalSteps, CriticalEnds,
        PageRank, TrailStep, Terminating, vars
<1>6. QED BY <1>1, <1>2, <1>3, <1>4, <1>5

-----------------------------------------------------------------------------
\* A node leads to itself, and a link leads where it points.
LEMMA ReachableLinks ==
  ASSUME NEW nodes, NEW links
  PROVE  /\ \A d \in nodes : <<d, d>> \in Reachable(nodes, links)
         /\ \A d, e \in nodes : <<d, e>> \in links => <<d, e>> \in Reachable(nodes, links)
<1>1. \A d \in nodes : <<d, d>> \in nodes \X nodes /\ <<d, d>>[1] = <<d, d>>[2]
  OBVIOUS
<1>2. \A d, e \in nodes : <<d, e>>[1] = d /\ <<d, e>>[2] = e
  OBVIOUS
<1>3. QED BY <1>1, <1>2 DEF Reachable, Closed

\* The hierarchy holds every document once, below a root or below a declared parent.
LEMMA HierarchyHolds ==
  ASSUME BaseInv, ReportInv
  PROVE  HierarchyCovers
<1> SUFFICES ASSUME Done PROVE HierarchyCovers
  BY DEF HierarchyCovers
<1> DEFINE up(d) == ResolveParent(d)
           roots == {d \in Docs : up(d) \in {0, d}}
           children == [p \in Docs |-> {d \in Docs : up(d) = p /\ d # p}]
           below == Reachable(Docs, {p \in Docs \X Docs : p[2] \in children[p[1]]})
<1>1. Given
  BY DEF BaseInv
<1>2. report.hierarchy.roots = roots /\ report.hierarchy.children = children
  <2>1. report.hierarchy = [roots |-> roots, children |-> children]
    BY DEF ReportInv, Done, BuildHierarchyTree
  <2> HIDE DEF roots, children
  <2>2. QED BY <2>1
<1>3. ASSUME NEW d \in Docs PROVE up(d) \in Docs \union {0}
  <2>1. \A path : Named(path) \subseteq Docs
    BY DEF Named
  <2>2. IndexOf(Dir(Path(d))) \in Docs \union {0}
    BY <1>1, IndexOfDocs
  <2>3. \A path : Named(path) # {} => (CHOOSE p \in Named(path) : TRUE) \in Docs
    BY <2>1
  <2>4. QED BY <2>2, <2>3 DEF ResolveParent
<1>4. 0 \notin Docs
  BY <1>1, CorpusFacts
<1> HIDE DEF up
<1>5. ASSUME NEW d \in Docs
      PROVE  Cardinality({p \in Docs : d \in children[p]}) = IF d \in roots THEN 0 ELSE 1
  <2>1. CASE d \in roots
    <3>1. {p \in Docs : d \in children[p]} = {}
      BY <1>4, <2>1
    <3>2. QED BY <2>1, <3>1, FS_EmptySet
  <2>2. CASE d \notin roots
    <3>1. {p \in Docs : d \in children[p]} = {up(d)}
      BY <1>3, <1>4, <2>2
    <3>2. QED BY <2>2, <3>1, FS_Singleton
  <2>3. QED BY <2>1, <2>2
<1>6. ASSUME NEW d \in Docs, NEW p \in Docs, up(d) = p, d # p
      PROVE  <<p, d>> \in below
  <2>1. <<p, d>> \in {q \in Docs \X Docs : q[2] \in children[q[1]]}
    BY <1>6
  <2>2. QED BY <2>1, ReachableLinks
<1>7. \A d \in Docs : <<d, d>> \in below
  BY ReachableLinks
<1> HIDE DEF below, children
<1>8. ASSUME NEW d \in Docs
      PROVE  \/ \E r \in roots : <<r, d>> \in below
             \/ \E p \in Docs : <<p, d>> \in below /\ corpus[p].parent # <<>>
  <2>1. CASE corpus[d].parent # <<>>
    BY <1>7, <2>1
  <2>2. CASE corpus[d].parent = <<>>
    <3> DEFINE q == IndexOf(Dir(Path(d)))
    <3>1. up(d) = IF q # d THEN q ELSE 0
      BY <2>2 DEF up, ResolveParent
    <3>2. q \in ChildrenOf(Dir(Path(d))) \union {0}
      BY <1>1, IndexOfDocs
    <3>3. CASE q \in {0, d}
      <4>1. d \in roots
        BY <3>1, <3>3
      <4>2. QED BY <1>7, <4>1
    <3>4. CASE q \notin {0, d}
      <4>1. q \in Docs /\ Dir(Path(q)) = Dir(Path(d)) /\ up(d) = q /\ d # q
        BY <3>1, <3>2, <3>4 DEF ChildrenOf
      <4>2. <<q, d>> \in below
        BY <1>6, <4>1
      <4>3. corpus[q].parent = <<>> => q \in roots
        <5>1. IndexOf(Dir(Path(q))) = q
          BY <4>1
        <5>2. corpus[q].parent = <<>> => up(q) = 0
          BY <5>1 DEF up, ResolveParent
        <5>3. QED BY <4>1, <5>2
      <4>4. QED BY <4>1, <4>2, <4>3
    <3>5. QED BY <3>3, <3>4
  <2>3. QED BY <2>1, <2>2
<1> HIDE DEF roots
<1>9. QED BY <1>2, <1>5, <1>8 DEF HierarchyCovers, below

\* GraphIsSound holds in every run: the edges are the links somebody wrote, and the
\* hierarchy covers every document (graphmodel.go, hierarchy.go).
THEOREM GraphSound == Spec => []GraphIsSound
<1>1. Init => BaseInv /\ ReportInv
  BY BaseInit DEF Init, ReportInv
<1>2. BaseInv /\ ReportInv /\ [Next]_vars => (BaseInv /\ ReportInv)'
  BY BaseStep, ReportStep
<1>3. BaseInv /\ ReportInv => GraphIsSound
  BY GraphHolds, HierarchyHolds DEF GraphIsSound
<1>4. QED BY <1>1, <1>2, <1>3, PTL DEF Spec

-----------------------------------------------------------------------------
(* Union-find.                                                             *)

\* Parents that lead to a root: something falls along the way.
IsForest(parent) ==
  /\ parent \in [Docs -> Docs]
  /\ \E h \in [Docs -> Nat] : \A x \in Docs : parent[x] # x => h[parent[x]] < h[x]

IsWay(way, parent, x) ==
  /\ way \in [0..Cardinality(Docs) -> Docs] /\ way[0] = x
  /\ \A i \in 1..Cardinality(Docs) : way[i] = parent[way[i - 1]]

\* The way from a document up its parents, step by step.
LEMMA WayOf ==
  ASSUME IsFiniteSet(Docs), NEW parent \in [Docs -> Docs], NEW x \in Docs
  PROVE  \E way : IsWay(way, parent, x) /\ Way(parent, x) = {way[i] : i \in 0..Cardinality(Docs)}
<1> DEFINE n == Cardinality(Docs)
           Fits(g) == g = [i \in 0..n |-> IF i = 0 THEN x ELSE parent[g[i - 1]]]
           way == CHOOSE g : Fits(g)
           step == [i \in 1..n |-> parent]
<1>1. n \in Nat
  BY FS_CardinalityType
<1>2. \E g : Fits(g)
  <2>1. IsStep(n, Docs, step)
    BY DEF IsStep
  <2> HIDE DEF step
  <2>2. PICK f : Iterates(f, n, Docs, x, step)
    BY <1>1, <2>1, IterationExists
  <2>3. f \in [0..n -> Docs] /\ f[0] = x /\ \A i \in 1..n : f[i] = parent[f[i - 1]]
    BY <2>2 DEF Iterates, step
  <2>4. f = [i \in 0..n |-> IF i = 0 THEN x ELSE parent[f[i - 1]]]
    BY <1>1, <2>3
  <2>5. QED BY <2>4
<1>3. Fits(way)
  <2> HIDE DEF Fits
  <2>1. QED BY <1>2
<1>4. Way(parent, x) = {way[i] : i \in DOMAIN way}
  BY DEF Way
<1> HIDE DEF way
<1>5. DOMAIN way = 0..n /\ way[0] = x /\ \A i \in 1..n : way[i] = parent[way[i - 1]]
  <2> HIDE DEF n
  <2>1. QED BY <1>1, <1>3
<1> DEFINE P == {i \in 0..n : way[i] \in Docs}
<1>6. 0..n \subseteq P
  <2>1. P \in SUBSET Nat /\ 0 \in P
    BY <1>1, <1>5
  <2>2. \A i \in 1..n : i - 1 \in P => i \in P
    BY <1>1, <1>5
  <2> HIDE DEF P, n
  <2>3. QED BY <1>1, <2>1, <2>2, Upward
<1>7. way \in [0..n -> Docs]
  <2>1. way = [i \in 0..n |-> way[i]]
    BY <1>3, <1>5
  <2>2. QED BY <1>6, <2>1
<1>8. QED BY <1>4, <1>5, <1>7 DEF IsWay

\* A way that has come to a root stays there, and one through a forest comes to one.
LEMMA WayStays ==
  ASSUME IsFiniteSet(Docs), NEW parent \in [Docs -> Docs], NEW x \in Docs, NEW way, IsWay(way, parent, x),
         NEW i \in 0..Cardinality(Docs), parent[way[i]] = way[i]
  PROVE  \A j \in 0..Cardinality(Docs) : i <= j => way[j] = way[i]
<1> DEFINE n == Cardinality(Docs)
           P == {j \in 0..n : i <= j => way[j] = way[i]}
<1>1. n \in Nat
  BY FS_CardinalityType
<1>2. 0 \in P
  BY <1>1
<1>3. ASSUME NEW j \in 1..n, j - 1 \in P PROVE j \in P
  <2>1. way[j] = parent[way[j - 1]] /\ j \in 0..n
    BY <1>1 DEF IsWay
  <2>2. i <= j => i <= j - 1 \/ i = j
    BY <1>1
  <2>3. QED BY <1>3, <2>1, <2>2
<1>4. P \in SUBSET Nat
  BY <1>1
<1> HIDE DEF P, n
<1>5. 0..n \subseteq P
  BY <1>1, <1>2, <1>3, <1>4, Upward
<1>6. QED BY <1>5 DEF P, n

\* In a forest it arrives at a root, in no more steps than there are documents.
LEMMA WayArrives ==
  ASSUME IsFiniteSet(Docs), NEW parent, IsForest(parent), NEW x \in Docs, NEW way, IsWay(way, parent, x)
  PROVE  \E i \in 0..Cardinality(Docs) : parent[way[i]] = way[i]
<1> DEFINE n == Cardinality(Docs)
<1>1. n \in Nat
  BY FS_CardinalityType
<1> SUFFICES ASSUME \A i \in 0..n : parent[way[i]] # way[i] PROVE FALSE
  OBVIOUS
<1>2. PICK h \in [Docs -> Nat] : \A y \in Docs : parent[y] # y => h[parent[y]] < h[y]
  BY DEF IsForest
<1>3. way \in [0..n -> Docs] /\ \A i \in 1..n : way[i] = parent[way[i - 1]]
  BY DEF IsWay
<1>4. \A i \in 1..n : i - 1 \in 0..n /\ i \in 0..n /\ h[way[i]] < h[way[i - 1]]
  BY <1>1, <1>2, <1>3
<1>5. ASSUME NEW i \in 0..n, NEW k \in 0..n, i < k PROVE h[way[k]] < h[way[i]]
  <2> DEFINE P == {j \in 0..n : i < j => h[way[j]] < h[way[i]]}
  <2>1. 0 \in P /\ P \in SUBSET Nat
    BY <1>1
  <2>2. ASSUME NEW j \in 1..n, j - 1 \in P PROVE j \in P
    <3>1. j - 1 \in 0..n /\ j \in 0..n /\ h[way[j]] < h[way[j - 1]]
      BY <1>4
    <3>2. way[j] \in Docs /\ way[j - 1] \in Docs /\ way[i] \in Docs
      BY <1>3, <3>1
    <3>3. h[way[j]] \in Nat /\ h[way[j - 1]] \in Nat /\ h[way[i]] \in Nat
      BY <1>2, <3>2
    <3>4. i < j => i < j - 1 \/ i = j - 1
      BY <1>1
    <3>5. QED BY <2>2, <3>1, <3>3, <3>4
  <2> HIDE DEF P, n
  <2>3. 0..n \subseteq P
    BY <1>1, <2>1, <2>2, Upward
  <2>4. QED BY <1>5, <2>3 DEF P
<1>6. ASSUME NEW i \in 0..n, NEW k \in 0..n, way[i] = way[k] PROVE i = k
  <2>1. h[way[i]] \in Nat /\ way[i] \in Docs
    BY <1>2, <1>3
  <2>2. ~(i < k) /\ ~(k < i)
    BY <1>5, <1>6, <2>1
  <2>3. QED BY <1>1, <2>2
<1>7. way \in Injection(0..n, Docs)
  BY <1>3, <1>6 DEF Injection, IsInjective
<1> HIDE DEF n
<1>8. Cardinality(0..n) <= Cardinality(Docs)
  BY <1>7, FS_Injection
<1>9. Cardinality(0..n) = n + 1
  BY <1>1, FS_Interval
<1>10. ~(n + 1 <= n)
  BY <1>1
<1>11. QED BY <1>8, <1>9, <1>10 DEF n

\* Find is the root of a document, that of its parent, and in every set that holds
\* the document and is closed under parents.
LEMMA FindOf ==
  ASSUME IsFiniteSet(Docs), NEW parent, IsForest(parent), NEW x \in Docs
  PROVE  /\ Find(parent, x) \in Docs /\ parent[Find(parent, x)] = Find(parent, x)
         /\ Find(parent, parent[x]) = Find(parent, x)
         /\ \A U : x \in U /\ (\A y \in Docs : y \in U => parent[y] \in U) => Find(parent, x) \in U
<1> DEFINE n == Cardinality(Docs)
<1>1. n \in Nat /\ parent \in [Docs -> Docs]
  BY FS_CardinalityType DEF IsForest
<1>2. ASSUME NEW y \in Docs, NEW way, IsWay(way, parent, y), Way(parent, y) = {way[i] : i \in 0..n},
             NEW i \in 0..n, parent[way[i]] = way[i]
      PROVE  Find(parent, y) = way[i] /\ Find(parent, y) \in Docs
  <2>1. \A j \in 0..n : parent[way[j]] = way[j] => way[j] = way[i]
    <3> SUFFICES ASSUME NEW j \in 0..n, parent[way[j]] = way[j] PROVE way[j] = way[i]
      OBVIOUS
    <3>1. i <= j => way[j] = way[i]
      BY <1>1, <1>2, WayStays
    <3>2. j <= i => way[i] = way[j]
      BY <1>1, <1>2, WayStays
    <3>3. i <= j \/ j <= i
      BY <1>1
    <3>4. QED BY <3>1, <3>2, <3>3
  <2>2. way[i] \in Way(parent, y) /\ \A r \in Way(parent, y) : parent[r] = r => r = way[i]
    BY <1>2, <2>1
  <2>3. way[i] \in Docs
    BY <1>2 DEF IsWay
  <2>4. QED BY <1>2, <2>2, <2>3 DEF Find
<1>3. PICK way : IsWay(way, parent, x) /\ Way(parent, x) = {way[i] : i \in 0..n}
  BY <1>1, WayOf
<1>4. PICK i \in 0..n : parent[way[i]] = way[i]
  BY <1>3, WayArrives
<1>5. Find(parent, x) = way[i] /\ Find(parent, x) \in Docs
  BY <1>2, <1>3, <1>4
<1>6. way \in [0..n -> Docs] /\ way[0] = x /\ \A j \in 1..n : way[j] = parent[way[j - 1]]
  BY <1>3 DEF IsWay
<1>7. Find(parent, parent[x]) = Find(parent, x)
  <2>1. CASE i = 0
    BY <1>4, <1>6, <2>1
  <2>2. CASE i # 0
    <3>1. parent[x] \in Docs
      BY <1>1
    <3>2. PICK up : IsWay(up, parent, parent[x]) /\ Way(parent, parent[x]) = {up[j] : j \in 0..n}
      BY <1>1, <3>1, WayOf
    <3>3. up[0] = parent[x] /\ \A j \in 1..n : up[j] = parent[up[j - 1]]
      BY <3>2 DEF IsWay
    <3> DEFINE P == {j \in 0..n : j + 1 <= n => up[j] = way[j + 1]}
    <3>4. 0 \in P /\ P \in SUBSET Nat
      <4>1. 1 <= n => way[1] = parent[way[0]]
        BY <1>1, <1>6
      <4>2. QED BY <1>1, <1>6, <3>3, <4>1
    <3>5. ASSUME NEW j \in 1..n, j - 1 \in P PROVE j \in P
      <4>1. j + 1 <= n => /\ up[j] = parent[up[j - 1]] /\ up[j - 1] = way[j]
                          /\ way[j + 1] = parent[way[j]]
        <5>1. j + 1 <= n => j + 1 \in 1..n /\ (j + 1) - 1 = j /\ (j - 1) + 1 = j /\ j <= n
          BY <1>1
        <5>2. j + 1 <= n => way[j + 1] = parent[way[j]]
          BY <1>6, <5>1
        <5>3. QED BY <3>3, <3>5, <5>1, <5>2
      <4>2. j \in 0..n
        BY <1>1
      <4>3. QED BY <4>1, <4>2
    <3>6. 0..n \subseteq P
      <4> HIDE DEF P, n
      <4>1. QED BY <1>1, <3>4, <3>5, Upward
    <3>7. i - 1 \in 0..n /\ up[i - 1] = way[i]
      <4>1. i - 1 \in 0..n /\ (i - 1) + 1 = i /\ i <= n
        BY <1>1, <2>2
      <4>2. QED BY <3>6, <4>1
    <3>8. Find(parent, parent[x]) = up[i - 1]
      BY <1>2, <1>4, <3>1, <3>2, <3>7
    <3>9. QED BY <1>5, <3>7, <3>8
  <2>3. QED BY <2>1, <2>2
<1>8. ASSUME NEW U, x \in U, \A y \in Docs : y \in U => parent[y] \in U PROVE Find(parent, x) \in U
  <2> DEFINE P == {j \in 0..n : way[j] \in U}
  <2>1. 0 \in P /\ P \in SUBSET Nat
    BY <1>1, <1>6, <1>8
  <2>2. ASSUME NEW j \in 1..n, j - 1 \in P PROVE j \in P
    <3>1. j \in 0..n /\ j - 1 \in 0..n
      BY <1>1
    <3>2. way[j] = parent[way[j - 1]] /\ way[j - 1] \in Docs
      BY <1>6, <3>1
    <3>3. QED BY <1>8, <2>2, <3>1, <3>2
  <2> HIDE DEF P, n
  <2>3. 0..n \subseteq P
    BY <1>1, <2>1, <2>2, Upward
  <2>4. QED BY <1>4, <1>5, <2>3 DEF P
<1>9. QED BY <1>4, <1>5, <1>7, <1>8

\* Hanging one root below another, with the ways to both made short, joins two trees.
LEMMA UnionJoins ==
  ASSUME IsFiniteSet(Docs), NEW P, IsForest(P), NEW way \in SUBSET Docs,
         NEW child \in Docs, NEW root \in Docs, P[child] = child, P[root] = root,
         NEW N, N = [y \in Docs |-> IF y = child THEN root ELSE IF y \in way THEN Find(P, y) ELSE P[y]]
  PROVE  /\ IsForest(N)
         /\ \A x \in Docs : Find(N, x) = IF Find(P, x) = child THEN root ELSE Find(P, x)
<1> DEFINE F(x) == Find(P, x)
           K(x) == IF F(x) = child THEN root ELSE F(x)
<1>1. P \in [Docs -> Docs]
  BY DEF IsForest
<1>2. PICK h \in [Docs -> Nat] : \A x \in Docs : P[x] # x => h[P[x]] < h[x]
  BY DEF IsForest
<1>3. \A x \in Docs : F(x) \in Docs /\ P[F(x)] = F(x) /\ F(P[x]) = F(x)
  BY FindOf
<1>4. ASSUME NEW r \in Docs, P[r] = r PROVE F(r) = r
  <2>1. r \in {r} /\ \A y \in Docs : y \in {r} => P[y] \in {r}
    BY <1>4
  <2>2. F(r) \in {r}
    BY <2>1, FindOf
  <2>3. QED BY <2>2
<1>5. ASSUME NEW x \in Docs, F(x) # x PROVE h[F(x)] < h[x]
  <2>1. P[x] # x /\ P[x] \in Docs
    BY <1>1, <1>4, <1>5
  <2> DEFINE U == {y \in Docs : h[y] <= h[P[x]]}
  <2>2. P[x] \in U
    BY <1>2, <2>1
  <2>3. \A y \in Docs : y \in U => P[y] \in U
    <3> SUFFICES ASSUME NEW y \in Docs, h[y] <= h[P[x]] PROVE P[y] \in Docs /\ h[P[y]] <= h[P[x]]
      OBVIOUS
    <3>1. P[y] \in Docs /\ (P[y] = y \/ h[P[y]] < h[y])
      BY <1>1, <1>2
    <3>2. h[P[y]] \in Nat /\ h[y] \in Nat /\ h[P[x]] \in Nat
      BY <1>2, <2>1, <3>1
    <3>3. QED BY <3>1, <3>2
  <2> HIDE DEF U
  <2>4. F(P[x]) \in U
    BY <2>1, <2>2, <2>3, FindOf
  <2>5. F(x) \in Docs /\ h[F(x)] <= h[P[x]]
    BY <1>3, <2>4 DEF U
  <2>6. h[F(x)] \in Nat /\ h[P[x]] \in Nat /\ h[x] \in Nat /\ h[P[x]] < h[x]
    BY <1>2, <2>1, <2>5
  <2>7. QED BY <2>5, <2>6
<1>6. N \in [Docs -> Docs]
  BY <1>1, <1>3
<1>7. /\ N[child] = root
      /\ \A y \in Docs : y # child => N[y] \in {F(y), P[y]}
  OBVIOUS
<1>8. F(child) = child /\ F(root) = root
  BY <1>4
<1> HIDE DEF F
<1>9. ASSUME NEW y \in Docs, y # child, N[y] # y
      PROVE  F(N[y]) = F(y) /\ h[N[y]] < h[y]
  <2>1. CASE N[y] = F(y)
    BY <1>3, <1>4, <1>5, <1>9, <2>1
  <2>2. CASE N[y] = P[y]
    BY <1>2, <1>3, <1>9, <2>2
  <2>3. QED BY <1>7, <1>9, <2>1, <2>2
<1>10. IsForest(N)
  <2> DEFINE g == [y \in Docs |-> IF child # root /\ F(y) = child THEN h[y] + h[root] + 1 ELSE h[y]]
  <2>1. g \in [Docs -> Nat]
    BY <1>2
  <2>2. ASSUME NEW y \in Docs, N[y] # y PROVE g[N[y]] < g[y]
    <3>1. CASE y = child
      <4>1. N[y] = root /\ child # root
        BY <1>7, <2>2, <3>1
      <4>2. g[root] = h[root] /\ g[child] = h[child] + h[root] + 1
        BY <1>8, <4>1
      <4>3. h[root] \in Nat /\ h[child] \in Nat
        BY <1>2
      <4> HIDE DEF g
      <4>4. QED BY <3>1, <4>1, <4>2, <4>3
    <3>2. CASE y # child
      <4>1. F(N[y]) = F(y) /\ h[N[y]] < h[y] /\ N[y] \in Docs
        BY <1>6, <1>9, <2>2, <3>2
      <4>2. h[N[y]] \in Nat /\ h[y] \in Nat /\ h[root] \in Nat
        BY <1>2, <4>1
      <4>3. \/ g[N[y]] = h[N[y]] /\ g[y] = h[y]
            \/ g[N[y]] = h[N[y]] + h[root] + 1 /\ g[y] = h[y] + h[root] + 1
        BY <4>1
      <4> HIDE DEF g
      <4>4. QED BY <4>1, <4>2, <4>3
    <3>3. QED BY <3>1, <3>2
  <2> HIDE DEF g
  <2>3. QED BY <1>6, <2>1, <2>2 DEF IsForest
<1>11. ASSUME NEW y \in Docs PROVE K(N[y]) = K(y)
  <2>1. CASE y = child
    BY <1>7, <1>8, <2>1
  <2>2. CASE y # child /\ N[y] # y
    BY <1>9, <2>2
  <2>3. CASE N[y] = y
    BY <2>3
  <2>4. QED BY <2>1, <2>2, <2>3
<1>12. ASSUME NEW r \in Docs, N[r] = r PROVE K(r) = r
  <2>1. CASE r = child
    BY <1>7, <1>8, <1>12, <2>1
  <2>2. CASE r # child
    <3>1. F(r) = r
      <4>1. r = F(r) \/ r = P[r]
        BY <1>7, <1>12, <2>2
      <4>2. QED BY <1>4, <4>1
    <3>2. QED BY <2>2, <3>1
  <2>3. QED BY <2>1, <2>2
<1> HIDE DEF K
<1>13. ASSUME NEW x \in Docs PROVE Find(N, x) = K(x)
  <2> DEFINE U == {y \in Docs : K(y) = K(x)}
  <2>1. x \in U /\ \A y \in Docs : y \in U => N[y] \in U
    BY <1>6, <1>11
  <2> HIDE DEF U
  <2>2. Find(N, x) \in U /\ Find(N, x) \in Docs /\ N[Find(N, x)] = Find(N, x)
    BY <1>10, <2>1, FindOf
  <2>3. QED BY <1>12, <2>2 DEF U
<1>14. QED BY <1>10, <1>13 DEF K, F

\* Union-find knows no more than the links say, and says it of all it looked at.
Unites ==
  /\ IsForest(uf.parent) /\ uf.todo \subseteq Links
  /\ \A e \in Links \ uf.todo : Find(uf.parent, e[1]) = Find(uf.parent, e[2])
  /\ \A s \in Closed(Docs, Both(Links)) : \A x \in Docs : x \in s <=> uf.parent[x] \in s

\* The link union-find looks at next is one of those left.
LEMMA FirstLinkIn ==
  ASSUME Given, NEW links \in SUBSET (Docs \X Docs), links # {}
  PROVE  FirstLink(links) \in links
<1>1. Docs \subseteq Nat
  BY CorpusFacts
<1> DEFINE A == {e[1] : e \in links}
<1>2. A \in SUBSET Nat /\ A # {}
  BY <1>1
<1>3. PICK a \in A : \A x \in A : a <= x
  <2> HIDE DEF A
  <2>1. QED BY <1>2, LeastOf
<1> DEFINE B == {e[2] : e \in {f \in links : f[1] = a}}
<1>4. B \in SUBSET Nat /\ B # {}
  BY <1>1, <1>3
<1>5. PICK b \in B : \A x \in B : b <= x
  <2> HIDE DEF B
  <2>1. QED BY <1>4, LeastOf
<1>6. PICK e \in links : e[1] = a /\ e[2] = b
  BY <1>5
<1>7. ASSUME NEW f \in links PROVE e[1] < f[1] \/ (e[1] = f[1] /\ e[2] <= f[2])
  <2>1. f[1] \in A /\ a <= f[1] /\ a \in Nat /\ f[1] \in Nat
    BY <1>1, <1>2, <1>3
  <2>2. f[1] = a => f[2] \in B /\ b <= f[2]
    BY <1>5
  <2>3. QED BY <1>6, <2>1, <2>2
<1>8. QED BY <1>6, <1>7 DEF FirstLink

\* A set that no link leaves holds a document if it holds its root.
LEMMA ClosedFind ==
  ASSUME Given, Unites, NEW s \in Closed(Docs, Both(Links)), NEW x \in Docs
  PROVE  x \in s <=> Find(uf.parent, x) \in s
<1>1. IsFiniteSet(Docs) /\ IsForest(uf.parent)
  BY CorpusFacts DEF Unites
<1>2. uf.parent \in [Docs -> Docs] /\ \A y \in Docs : y \in s <=> uf.parent[y] \in s
  BY <1>1 DEF IsForest, Unites
<1> DEFINE U == {y \in Docs : y \in s <=> x \in s}
<1>3. x \in U /\ \A y \in Docs : y \in U => uf.parent[y] \in U
  BY <1>2
<1> HIDE DEF U
<1>4. Find(uf.parent, x) \in U
  BY <1>1, <1>3, FindOf
<1>5. QED BY <1>4 DEF U

\* Looking at one more link keeps union-find right.
LEMMA UnionUnites ==
  ASSUME Given, Unites, Union, given' = given, graph' = graph
  PROVE  Unites'
<1> DEFINE P == uf.parent
           e == FirstLink(uf.todo)
           ra == Find(P, e[1])
           rb == Find(P, e[2])
           keepB == uf.size[ra] < uf.size[rb] \/ (uf.size[ra] = uf.size[rb] /\ rb < ra)
           root == IF keepB THEN rb ELSE ra
           child == IF keepB THEN ra ELSE rb
           way == Way(P, e[1]) \union Way(P, e[2])
           N == [Compressed(e[1], e[2]) EXCEPT ![child] = root]
           links == Links
           closed == Closed(Docs, Both(Links))
<1>1. IsFiniteSet(Docs) /\ Docs \subseteq Nat /\ IsForest(P) /\ uf.todo \subseteq links
  BY CorpusFacts DEF Unites
<1>2. links \subseteq Docs \X Docs
  BY DEF Links
<1>3. uf.todo # {} /\ uf'.parent = N /\ uf'.todo = uf.todo \ {e}
  BY DEF Union
<1>4. e \in uf.todo /\ e \in links /\ e[1] \in Docs /\ e[2] \in Docs
  <2>1. uf.todo \in SUBSET (Docs \X Docs)
    BY <1>1, <1>2
  <2>2. e \in uf.todo
    BY <1>3, <2>1, FirstLinkIn
  <2> HIDE DEF e, links
  <2>3. QED BY <1>1, <1>2, <2>2
<1>5. links' = links /\ closed' = closed /\ Docs' = Docs
  <2>1. Docs' = Docs
    BY DEF Docs, given
  <2>2. Links' = Links
    BY <2>1 DEF Links, Out
  <2>3. QED BY <2>1, <2>2 DEF Closed, Both
<1>6. /\ ra \in Docs /\ rb \in Docs /\ P[ra] = ra /\ P[rb] = rb
  <2> HIDE DEF e, P
  <2>1. QED BY <1>1, <1>4, FindOf
<1>7. way \cap Docs \in SUBSET Docs /\ N = [y \in Docs |-> IF y = child THEN root ELSE IF y \in way \cap Docs THEN Find(P, y) ELSE P[y]]
  <2>1. Compressed(e[1], e[2]) = [y \in Docs |-> IF y \in way THEN Find(P, y) ELSE P[y]]
    BY DEF Compressed
  <2> HIDE DEF way, e, P, child, root
  <2>2. QED BY <2>1
<1>8. child \in Docs /\ root \in Docs /\ P[child] = child /\ P[root] = root /\ {child, root} = {ra, rb}
  <2> HIDE DEF ra, rb, P, keepB
  <2>1. QED BY <1>6
<1> HIDE DEF N, links, closed
<1>9. /\ IsForest(N)
      /\ \A x \in Docs : Find(N, x) = IF Find(P, x) = child THEN root ELSE Find(P, x)
  <2> DEFINE w == way \cap Docs
  <2>1. w \in SUBSET Docs /\ N = [y \in Docs |-> IF y = child THEN root ELSE IF y \in w THEN Find(P, y) ELSE P[y]]
    BY <1>7
  <2> HIDE DEF w, child, root, P
  <2>2. QED BY <1>1, <1>8, <2>1, UnionJoins
<1>10. ASSUME NEW f \in links \ (uf.todo \ {e}) PROVE Find(N, f[1]) = Find(N, f[2])
  <2>1. f[1] \in Docs /\ f[2] \in Docs
    BY <1>2
  <2>2. CASE f = e
    <3>1. Find(P, f[1]) = ra /\ Find(P, f[2]) = rb
      BY <2>2
    <3> HIDE DEF ra, rb, child, root, P, e
    <3>2. QED BY <1>8, <1>9, <2>1, <3>1
  <2>3. CASE f # e
    <3>1. f \in links \ uf.todo
      BY <1>10, <2>3
    <3>2. Find(P, f[1]) = Find(P, f[2])
      BY <3>1 DEF Unites, links
    <3> HIDE DEF ra, rb, child, root, P, e
    <3>3. QED BY <1>9, <2>1, <3>2
  <2>4. QED BY <2>2, <2>3
<1>11. ASSUME NEW s \in closed, NEW x \in Docs PROVE x \in s <=> N[x] \in s
  <2>1. \A y \in Docs : (y \in s <=> Find(P, y) \in s) /\ (y \in s <=> P[y] \in s)
    <3>1. \A y \in Docs : y \in s <=> Find(P, y) \in s
      BY ClosedFind DEF closed
    <3>2. \A y \in Docs : y \in s <=> P[y] \in s
      BY DEF Unites, closed
    <3>3. QED BY <3>1, <3>2
  <2>2. e[1] \in s <=> e[2] \in s
    <3>1. e \in Both(Links) /\ <<e[2], e[1]>> \in Both(Links)
      BY <1>4 DEF Both, links
    <3>2. \A f \in Both(Links) : f[1] \in s => f[2] \in s
      BY DEF closed, Closed
    <3> HIDE DEF e
    <3>3. <<e[2], e[1]>>[1] = e[2] /\ <<e[2], e[1]>>[2] = e[1]
      OBVIOUS
    <3>4. QED BY <3>1, <3>2, <3>3
  <2>3. ra \in s <=> rb \in s
    BY <1>4, <2>1, <2>2
  <2>4. child \in s <=> root \in s
    <3> HIDE DEF ra, rb, P, keepB
    <3>1. QED BY <2>3
  <2> HIDE DEF child, root, P, way
  <2>5. N[x] = IF x = child THEN root ELSE IF x \in way \cap Docs THEN Find(P, x) ELSE P[x]
    BY <1>7
  <2>6. QED BY <2>1, <2>4, <2>5
<1>12. IsForest(uf.parent)'
  <2>1. N \in [Docs -> Docs] /\ \E h \in [Docs -> Nat] : \A x \in Docs : N[x] # x => h[N[x]] < h[x]
    BY <1>9 DEF IsForest
  <2> DEFINE M == uf'.parent
  <2>2. M = N
    BY <1>3
  <2>3. M \in [Docs -> Docs] /\ \E h \in [Docs -> Nat] : \A x \in Docs : M[x] # x => h[M[x]] < h[x]
    <3> HIDE DEF M
    <3>1. QED BY <2>1, <2>2
  <2> HIDE DEF M
  <2>4. M \in [Docs' -> Docs'] /\ \E h \in [Docs' -> Nat] : \A x \in Docs' : M[x] # x => h[M[x]] < h[x]
    BY <1>5, <2>3
  <2>5. QED BY <2>4 DEF IsForest, M
<1>13. (uf.todo \subseteq Links)'
  BY <1>1, <1>3, <1>5 DEF links
<1>14. (\A f \in Links \ uf.todo : Find(uf.parent, f[1]) = Find(uf.parent, f[2]))'
  <2> SUFFICES ASSUME NEW f \in Links' \ uf'.todo
               PROVE  Find(uf.parent, f[1])' = Find(uf.parent, f[2])'
    OBVIOUS
  <2>1. f \in links \ (uf.todo \ {e})
    BY <1>3, <1>5 DEF links
  <2> HIDE DEF e
  <2>2. Find(N, f[1]) = Find(N, f[2])
    BY <1>10, <2>1
  <2>3. Find(uf.parent, f[1])' = Find(N, f[1]) /\ Find(uf.parent, f[2])' = Find(N, f[2])
    BY <1>3, <1>5 DEF Find, Way
  <2>4. QED BY <2>2, <2>3
<1>15. (\A s \in Closed(Docs, Both(Links)) : \A x \in Docs : x \in s <=> uf.parent[x] \in s)'
  BY <1>3, <1>5, <1>11 DEF closed
<1>16. QED BY <1>12, <1>13, <1>14, <1>15 DEF Unites

Early == {"resolve", "build", "start"}

\* From the stage that looks at links on, union-find is right about those looked at.
UfInv ==
  /\ stage \notin Early => Unites
  /\ stage \notin Early \union {"weak"} => uf.todo = {}

\* So does leaving it alone.
LEMMA SameUnites ==
  ASSUME given' = given, graph' = graph, uf' = uf, Unites
  PROVE  Unites'
<1>1. Docs' = Docs /\ Links' = Links
  BY DEF given, Docs, Links, Out
<1>2. \A p, x : Find(p, x)' = Find(p, x)
  BY <1>1 DEF Find, Way
<1>3. \A p : IsForest(p)' = IsForest(p)
  BY <1>1 DEF IsForest
<1>4. Closed(Docs, Both(Links))' = Closed(Docs, Both(Links))
  BY <1>1 DEF Closed, Both
<1>5. IsForest(uf.parent)' /\ (uf.todo \subseteq Links)'
  BY <1>1, <1>3 DEF Unites
<1>6. (\A e \in Links \ uf.todo : Find(uf.parent, e[1]) = Find(uf.parent, e[2]))'
  BY <1>1, <1>2 DEF Unites
<1>7. (\A s \in Closed(Docs, Both(Links)) : \A x \in Docs : x \in s <=> uf.parent[x] \in s)'
  BY <1>1, <1>4 DEF Unites
<1>8. QED BY <1>5, <1>6, <1>7 DEF Unites

\* It is right at the start.
LEMMA NewUnites ==
  ASSUME uf = NewUnionFind
  PROVE  Unites
<1> DEFINE p == [d \in Docs |-> d]
           h == [d \in Docs |-> 0]
<1>1. p \in [Docs -> Docs] /\ h \in [Docs -> Nat] /\ \A x \in Docs : p[x] = x
  OBVIOUS
<1>2. uf.parent = p /\ uf.todo = Links
  BY DEF NewUnionFind
<1> HIDE DEF p, h
<1>3. IsForest(p)
  BY <1>1 DEF IsForest
<1>4. QED BY <1>1, <1>2, <1>3 DEF Unites

\* Union-find is right in every step of a run.
LEMMA UfStep ==
  ASSUME BaseInv, UfInv, [Next]_vars
  PROVE  UfInv'
<1>1. given' = given
  BY DEF Next, vars, ResolveReferences, BuildGraph, StartComponents, WeakStep, WeakDone,
    StrongStep, StrongDone, SearchDistances, SearchPaths, Measure, CriticalSteps, CriticalEnds,
    PageRank, TrailStep, TrailsEnd, Terminating
<1>2. CASE ResolveReferences \/ BuildGraph
  BY <1>2 DEF UfInv, Early, ResolveReferences, BuildGraph
<1>3. CASE StartComponents
  <2>1. graph' = graph /\ uf' = NewUnionFind /\ stage' = "weak"
    BY <1>3 DEF StartComponents
  <2>2. NewUnionFind' = NewUnionFind
    BY <1>1, <2>1 DEF NewUnionFind, given, Docs, Links, Out
  <2>3. (uf = NewUnionFind)'
    BY <2>1, <2>2
  <2>4. Unites'
    BY <2>3, NewUnites, PTL
  <2>5. QED BY <2>1, <2>4 DEF UfInv
<1>4. CASE WeakStep
  <2>1. Union /\ stage = "weak" /\ stage' = "weak" /\ graph' = graph
    BY <1>4 DEF WeakStep
  <2>2. Given /\ Unites
    BY <2>1 DEF BaseInv, UfInv, Early
  <2>3. QED BY <1>1, <2>1, <2>2, UnionUnites DEF UfInv
<1>5. CASE WeakDone
  <2>1. stage = "weak" /\ stage' = "strong" /\ graph' = graph /\ uf' = uf /\ uf.todo = {}
    BY <1>5 DEF WeakDone, search
  <2>2. QED BY <1>1, <2>1, SameUnites DEF UfInv, Early
<1>6. CASE ~(ResolveReferences \/ BuildGraph \/ StartComponents \/ WeakStep \/ WeakDone)
  <2>1. /\ uf' = uf /\ graph' = graph
        /\ stage' \in Early => stage' = stage
        /\ stage' \notin Early => stage \notin Early
        /\ stage' \notin Early \union {"weak"} => stage \notin Early \union {"weak"}
    <3>1. CASE UNCHANGED vars
      BY <3>1 DEF vars, search
    <3>2. CASE StrongStep
      BY <3>2 DEF StrongStep, StrongConnect, Descend, BackEdge, Return
    <3>3. CASE StrongDone \/ SearchDistances \/ SearchPaths \/ Measure \/ CriticalSteps \/ CriticalEnds
               \/ PageRank \/ TrailStep \/ TrailsEnd \/ Terminating
      BY <3>3 DEF Early, vars, search, StrongDone, SearchDistances, SearchPaths, Measure, CriticalSteps,
        CriticalEnds, PageRank, TrailStep, TrailsEnd, Terminating
    <3>4. QED BY <1>6, <3>1, <3>2, <3>3 DEF Next
  <2>2. QED BY <1>1, <2>1, SameUnites DEF UfInv
<1>7. QED BY <1>2, <1>3, <1>4, <1>5, <1>6

\* The weak components: linked documents share one, and only what a chain of
\* links in either direction joins does.
LEMMA SharedRoot ==
  ASSUME Given, Unites, uf.todo = {}, NEW a \in Docs, NEW b \in Docs
  PROVE  /\ <<a, b>> \in Links => Find(uf.parent, a) = Find(uf.parent, b)
         /\ <<a, b>> \in Reachable(Docs, Both(Links)) <=> Find(uf.parent, a) = Find(uf.parent, b)
<1> DEFINE F(x) == Find(uf.parent, x)
           U == {y \in Docs : F(y) = F(a)}
           closed == Closed(Docs, Both(Links))
<1>1. \A e \in Links : F(e[1]) = F(e[2]) /\ e[1] \in Docs /\ e[2] \in Docs
  BY DEF Unites, Links
<1>2. <<a, b>>[1] = a /\ <<a, b>>[2] = b /\ <<a, b>> \in Docs \X Docs
  OBVIOUS
<1>3. <<a, b>> \in Links => F(a) = F(b)
  BY <1>1, <1>2
<1>4. U \in closed
  <2>1. ASSUME NEW e \in Both(Links), e[1] \in U PROVE e[2] \in U
    <3>1. e \in Links \/ \E f \in Links : e = <<f[2], f[1]>>
      BY <2>1 DEF Both
    <3>2. CASE e \in Links
      BY <1>1, <2>1, <3>2
    <3>3. ASSUME NEW f \in Links, e = <<f[2], f[1]>> PROVE e[2] \in U
      <4>1. e[1] = f[2] /\ e[2] = f[1]
        BY <3>3
      <4>2. QED BY <1>1, <2>1, <4>1
    <3>4. QED BY <3>1, <3>2, <3>3
  <2>2. QED BY <2>1 DEF Closed
<1>5. <<a, b>> \in Reachable(Docs, Both(Links)) => F(a) = F(b)
  <2>1. ASSUME \A s \in closed : a \in s => b \in s PROVE F(a) = F(b)
    BY <1>4, <2>1
  <2>2. QED BY <1>2, <2>1 DEF Reachable
<1>6. F(a) = F(b) => <<a, b>> \in Reachable(Docs, Both(Links))
  <2>1. ASSUME F(a) = F(b), NEW s \in closed, a \in s PROVE b \in s
    BY <2>1, ClosedFind
  <2> HIDE DEF F
  <2>2. QED BY <1>2, <2>1 DEF Reachable
<1>7. QED BY <1>3, <1>5, <1>6

-----------------------------------------------------------------------------
(* The low-link search.                                                    *)

Frame == [v : Docs, parent : Docs \union {0}, next : Nat \ {0}, children : Nat]

\* The work of the search: frames of which each is a neighbour of the one below.
Frames(work) ==
  /\ work \in Seq(Frame)
  /\ \A i \in 1..Len(work) : work[i].children > 0 => Neighbours(work[i].v) # {}
  /\ \A i \in 1..(Len(work) - 1) : work[i + 1].v \in Neighbours(work[i].v)

\* What it finds are documents with neighbours, and links.
Search ==
  [disc : [Docs -> Int], low : [Docs -> Int], counter : Nat, work : Seq(Frame),
   aps : SUBSET {d \in Docs : Neighbours(d) # {}},
   bridges : SUBSET {{e[1], e[2]} : e \in Links}]

AbInv == stage \in {"critical", "rank", "trails", "done"} => ab \in Search /\ Frames(ab.work)

\* The stack of the search with one frame more.
LEMMA FramesPush ==
  ASSUME NEW work, Frames(work), NEW f \in Frame, f.children = 0,
         work # <<>> => f.v \in Neighbours(work[Len(work)].v)
  PROVE  Frames(Append(work, f))
<1> DEFINE w == Append(work, f)
<1>1. work \in Seq(Frame) /\ Len(work) \in Nat
  BY DEF Frames
<1>2. w \in Seq(Frame) /\ Len(w) = Len(work) + 1 /\ w[Len(work) + 1] = f
  BY <1>1
<1>3. \A i \in 1..Len(work) : w[i] = work[i]
  BY <1>1
<1> HIDE DEF w
<1>4. ASSUME NEW i \in 1..Len(w) PROVE w[i].children > 0 => Neighbours(w[i].v) # {}
  <2>1. i = Len(work) + 1 \/ i \in 1..Len(work)
    BY <1>1, <1>2
  <2>2. CASE i = Len(work) + 1
    BY <1>2, <2>2
  <2>3. CASE i \in 1..Len(work)
    BY <1>3, <2>3 DEF Frames
  <2>4. QED BY <2>1, <2>2, <2>3
<1>5. ASSUME NEW i \in 1..(Len(w) - 1) PROVE w[i + 1].v \in Neighbours(w[i].v)
  <2>1. CASE i = Len(work)
    <3>1. work # <<>> /\ w[i] = work[i] /\ w[i + 1] = f
      BY <1>1, <1>2, <1>3, <2>1
    <3>2. QED BY <2>1, <3>1
  <2>2. CASE i # Len(work)
    <3>1. i \in 1..(Len(work) - 1) /\ w[i] = work[i] /\ w[i + 1] = work[i + 1]
      BY <1>1, <1>2, <1>3, <2>2
    <3>2. QED BY <3>1 DEF Frames
  <2>3. QED BY <2>1, <2>2
<1>6. QED BY <1>2, <1>4, <1>5 DEF Frames, w

\* The stack of the search without its last frame.
LEMMA FramesPop ==
  ASSUME NEW work, Frames(work), work # <<>>
  PROVE  /\ Frames(Front(work)) /\ Len(Front(work)) = Len(work) - 1
         /\ \A i \in 1..(Len(work) - 1) : Front(work)[i] = work[i]
<1>1. work \in Seq(Frame) /\ Len(work) \in Nat \ {0}
  BY DEF Frames
<1>2. Front(work) = SubSeq(work, 1, Len(work) - 1)
  BY DEF Front
<1>3. /\ Front(work) \in Seq(Frame) /\ Len(Front(work)) = Len(work) - 1
      /\ \A i \in 1..(Len(work) - 1) : Front(work)[i] = work[i]
  <2>1. Len(work) - 1 \in Nat /\ Len(work) - 1 <= Len(work)
    BY <1>1
  <2>2. /\ SubSeq(work, 1, Len(work) - 1) \in Seq(Frame)
        /\ Len(SubSeq(work, 1, Len(work) - 1)) = Len(work) - 1
        /\ \A i \in 1..(Len(work) - 1) : SubSeq(work, 1, Len(work) - 1)[i] = work[i]
    <3> HIDE DEF Frame
    <3>1. QED BY <1>1, <2>1, BeginningTyped
  <2>3. QED BY <1>2, <2>2
<1> DEFINE f == Front(work)
           n == Len(work)
<1> HIDE DEF f, n
<1>4. f \in Seq(Frame) /\ Len(f) = n - 1 /\ n \in Nat \ {0} /\ \A i \in 1..(n - 1) : f[i] = work[i]
  BY <1>1, <1>3 DEF f, n
<1>5. \A i \in 1..Len(f) : f[i].children > 0 => Neighbours(f[i].v) # {}
  BY <1>4 DEF Frames, n
<1>6. \A i \in 1..(Len(f) - 1) : f[i + 1].v \in Neighbours(f[i].v)
  <2> SUFFICES ASSUME NEW i \in 1..(Len(f) - 1) PROVE f[i + 1].v \in Neighbours(f[i].v)
    OBVIOUS
  <2>1. i \in 1..(n - 1) /\ i + 1 \in 1..(n - 1)
    BY <1>4
  <2>2. QED BY <1>4, <2>1 DEF Frames, n
<1>7. Frames(f)
  BY <1>4, <1>5, <1>6 DEF Frames
<1>8. QED BY <1>4, <1>7 DEF f, n

\* The stack of the search with its last frame changed.
LEMMA FramesChange ==
  ASSUME NEW work, Frames(work), work # <<>>, NEW f \in Frame, f.v = work[Len(work)].v,
         f.children > 0 => Neighbours(f.v) # {}
  PROVE  /\ Frames([work EXCEPT ![Len(work)] = f])
         /\ Len([work EXCEPT ![Len(work)] = f]) = Len(work)
<1> DEFINE w == [work EXCEPT ![Len(work)] = f]
<1>1. work \in Seq(Frame) /\ Len(work) \in Nat \ {0}
  BY DEF Frames
<1>2. w \in Seq(Frame) /\ Len(w) = Len(work) /\ w[Len(work)] = f
  BY <1>1
<1>3. \A i \in 1..Len(work) : w[i] = IF i = Len(work) THEN f ELSE work[i]
  BY <1>1
<1>4. \A i \in 1..Len(work) : w[i].v = work[i].v
  BY <1>1, <1>3
<1> HIDE DEF w
<1>5. \A i \in 1..Len(w) : w[i].children > 0 => Neighbours(w[i].v) # {}
  <2> SUFFICES ASSUME NEW i \in 1..Len(work) PROVE w[i].children > 0 => Neighbours(w[i].v) # {}
    BY <1>2
  <2>1. CASE i = Len(work)
    BY <1>2, <2>1
  <2>2. CASE i # Len(work)
    BY <1>3, <2>2 DEF Frames
  <2>3. QED BY <2>1, <2>2
<1>6. \A i \in 1..(Len(w) - 1) : w[i + 1].v \in Neighbours(w[i].v)
  <2> SUFFICES ASSUME NEW i \in 1..(Len(work) - 1) PROVE w[i + 1].v \in Neighbours(w[i].v)
    BY <1>2
  <2>1. w[i].v = work[i].v /\ w[i + 1].v = work[i + 1].v
    BY <1>1, <1>4
  <2>2. QED BY <2>1 DEF Frames
<1>7. Frames(w) /\ Len(w) = Len(work)
  BY <1>2, <1>5, <1>6 DEF Frames
<1>8. QED BY <1>7 DEF w

\* The last frame of the search.
LEMMA LastFrame ==
  ASSUME NEW work, Frames(work), work # <<>>
  PROVE  Last(work) = work[Len(work)] /\ work[Len(work)] \in Frame /\ Len(work) \in Nat \ {0}
BY DEF Frames, Last

\* Neighbours are linked one way or the other.
LEMMA NeighboursIn ==
  ASSUME IsBuilt, NEW d \in Docs
  PROVE  /\ Neighbours(d) \subseteq Docs /\ d \notin Neighbours(d)
         /\ \A e \in Docs : e \in Neighbours(d) <=> <<d, e>> \in Links \/ <<e, d>> \in Links
         /\ \A e \in Neighbours(d) : {d, e} \in {{f[1], f[2]} : f \in Links}
<1>1. Neighbours(d) = Out(d) \union In(d)
  BY DEF Neighbours, Out, In
<1>2. \A e \in Docs : (e \in In(d) <=> d \in Out(e)) /\ In(d) \subseteq Docs /\ Out(d) \subseteq Docs /\ d \notin Out(d)
  BY OutAndIn
<1>3. \A e, f \in Docs : <<e, f>> \in Links <=> f \in Out(e)
  BY DEF Links
<1>4. ASSUME NEW e \in Neighbours(d) PROVE {d, e} \in {{f[1], f[2]} : f \in Links}
  <2>1. <<d, e>> \in Links \/ <<e, d>> \in Links
    BY <1>1, <1>2, <1>3
  <2>2. <<d, e>>[1] = d /\ <<d, e>>[2] = e /\ <<e, d>>[1] = e /\ <<e, d>>[2] = d /\ {e, d} = {d, e}
    OBVIOUS
  <2>3. QED BY <2>1, <2>2
<1>5. QED BY <1>1, <1>2, <1>3, <1>4

\* What the frame at the top has yet to look at is a neighbour.
LEMMA TopOf ==
  ASSUME IsBuilt, ab \in Search, Frames(ab.work), ab.work # <<>>
  PROVE  /\ AbTop = ab.work[Len(ab.work)] /\ AbTop \in Frame /\ Len(ab.work) \in Nat \ {0}
         /\ AbTop.children > 0 => Neighbours(AbTop.v) # {}
         /\ AbMore => AbNext \in Neighbours(AbTop.v) /\ AbNext \in Docs /\ AbNext # AbTop.v
<1>1. AbTop = ab.work[Len(ab.work)] /\ AbTop \in Frame /\ Len(ab.work) \in Nat \ {0}
  BY LastFrame DEF AbTop
<1>2. Len(ab.work) \in 1..Len(ab.work)
  BY <1>1
<1>3. AbTop.children > 0 => Neighbours(AbTop.v) # {}
  BY <1>1, <1>2 DEF Frames
<1>4. ASSUME AbMore PROVE AbNext \in Neighbours(AbTop.v) /\ AbNext \in Docs /\ AbNext # AbTop.v
  <2>1. AbTop.v \in Docs /\ AbTop.next \in Nat \ {0}
    BY <1>1 DEF Frame
  <2>2. Neighbours(AbTop.v) \subseteq Docs /\ AbTop.v \notin Neighbours(AbTop.v)
    BY <2>1, NeighboursIn
  <2>3. IsFiniteSet(Docs) /\ Docs \subseteq Nat
    BY CorpusFacts DEF IsBuilt
  <2>4. IsFiniteSet(Neighbours(AbTop.v)) /\ Neighbours(AbTop.v) \in SUBSET Nat
    BY <2>2, <2>3, FS_Subset
  <2>5. /\ Cardinality(Neighbours(AbTop.v)) \in Nat
        /\ \A i \in 1..Cardinality(Neighbours(AbTop.v)) :
             Sorted(Neighbours(AbTop.v))[i] \in Neighbours(AbTop.v)
    BY <2>4, SortedOf
  <2>6. AbTop.next \in 1..Cardinality(Neighbours(AbTop.v))
    BY <1>4, <2>1, <2>5 DEF AbMore
  <2>7. AbNext \in Neighbours(AbTop.v)
    BY <2>5, <2>6 DEF AbNext
  <2>8. QED BY <2>2, <2>7
<1>5. QED BY <1>1, <1>3, <1>4

\* Advancing the top frame, with another parent or one child more.
LEMMA Advances ==
  ASSUME IsBuilt, ab \in Search, Frames(ab.work), AbMore
  PROVE  /\ AbAdvanced \in Search /\ Frames(AbAdvanced.work)
         /\ AbAdvanced.low = ab.low /\ AbAdvanced.disc = ab.disc /\ AbAdvanced.aps = ab.aps
         /\ AbAdvanced.bridges = ab.bridges
         /\ LET s == [AbAdvanced EXCEPT !.work[Len(ab.work)].parent = 0] IN
            s \in Search /\ Frames(s.work)
         /\ LET s == [AbAdvanced EXCEPT !.work[Len(ab.work)].children = @ + 1] IN
            /\ s \in Search /\ Frames(s.work) /\ s.work # <<>> /\ s.work[Len(s.work)].v = AbTop.v
<1> DEFINE work == ab.work
           n == Len(work)
           top == work[n]
           f == [top EXCEPT !.next = @ + 1]
           g == [f EXCEPT !.parent = 0]
           h == [f EXCEPT !.children = @ + 1]
<1>1. work # <<>>
  BY DEF AbMore
<1>2. /\ n \in Nat \ {0} /\ top \in Frame /\ AbTop = top
      /\ Neighbours(top.v) # {}
  BY <1>1, TopOf
<1>3. f \in Frame /\ g \in Frame /\ h \in Frame /\ f.v = top.v /\ g.v = top.v /\ h.v = top.v
  <2>1. top \in [v : Docs, parent : Docs \union {0}, next : Nat \ {0}, children : Nat]
    BY <1>2 DEF Frame
  <2>2. f = [v |-> top.v, parent |-> top.parent, next |-> top.next + 1, children |-> top.children]
    BY <2>1
  <2>3. /\ g = [v |-> top.v, parent |-> 0, next |-> top.next + 1, children |-> top.children]
        /\ h = [v |-> top.v, parent |-> top.parent, next |-> top.next + 1, children |-> top.children + 1]
    <3> HIDE DEF f, top
    <3>1. QED BY <2>2
  <2>4. top.v \in Docs /\ top.parent \in Docs \union {0} /\ top.next + 1 \in Nat \ {0} /\ top.children \in Nat
        /\ top.children + 1 \in Nat
    <3> HIDE DEF top, f, g, h
    <3>1. top.v \in Docs /\ top.parent \in Docs \union {0} /\ top.next \in Nat \ {0} /\ top.children \in Nat
      BY <2>1
    <3>2. QED BY <3>1
  <2> HIDE DEF f, g, h, top
  <2>5. QED BY <2>2, <2>3, <2>4 DEF Frame
<1>4. work \in Seq(Frame)
  BY DEF Frames
<1> DEFINE wf == [work EXCEPT ![n] = f]
           wg == [work EXCEPT ![n] = g]
           wh == [work EXCEPT ![n] = h]
<1>5. /\ Frames(wf) /\ Frames(wg) /\ Frames(wh) /\ Len(wf) = n /\ Len(wg) = n /\ Len(wh) = n
  <2> HIDE DEF f, g, h, Frame
  <2>1. QED BY <1>1, <1>2, <1>3, FramesChange
<1>6. wh[n] = h /\ wf[n] = f /\ n \in DOMAIN work
  BY <1>2, <1>4
<1>7. AbAdvanced = [ab EXCEPT !.work = wf]
  BY <1>6 DEF AbAdvanced, Search
<1>8. wg = [wf EXCEPT ![n].parent = 0] /\ wh = [wf EXCEPT ![n].children = @ + 1]
  <2> HIDE DEF f
  <2>1. wf[n] = f /\ DOMAIN wf = DOMAIN work
    BY <1>6
  <2>2. [wf EXCEPT ![n].parent = 0] = [wf EXCEPT ![n] = g]
    <3> HIDE DEF wf
    <3>1. QED BY <2>1
  <2>3. [wf EXCEPT ![n].children = @ + 1] = [wf EXCEPT ![n] = h]
    <3> HIDE DEF wf
    <3>1. QED BY <2>1
  <2> HIDE DEF g, h
  <2>4. \A x : [wf EXCEPT ![n] = x] = [work EXCEPT ![n] = x]
    BY <2>1
  <2>5. QED BY <2>2, <2>3, <2>4
<1> HIDE DEF wf, f
<1>9. /\ [AbAdvanced EXCEPT !.work[n].parent = 0] = [ab EXCEPT !.work = wg]
      /\ [AbAdvanced EXCEPT !.work[n].children = @ + 1] = [ab EXCEPT !.work = wh]
  <2>1. AbAdvanced.work = wf /\ \A w : [AbAdvanced EXCEPT !.work = w] = [ab EXCEPT !.work = w]
    BY <1>7 DEF Search
  <2>2. [AbAdvanced EXCEPT !.work[n].parent = 0] = [AbAdvanced EXCEPT !.work = wg]
    BY <1>8, <2>1
  <2>3. [AbAdvanced EXCEPT !.work[n].children = @ + 1] = [AbAdvanced EXCEPT !.work = wh]
    BY <1>8, <2>1
  <2> HIDE DEF wg, wh
  <2>4. QED BY <2>1, <2>2, <2>3
<1>10. \A w : Frames(w) => [ab EXCEPT !.work = w] \in Search /\ [ab EXCEPT !.work = w].work = w
  BY DEF Frames, Search
<1>11. wh # <<>> /\ wh[Len(wh)].v = top.v
  BY <1>2, <1>3, <1>5, <1>6
<1> HIDE DEF wg, wh
<1>12. /\ AbAdvanced.low = ab.low /\ AbAdvanced.disc = ab.disc /\ AbAdvanced.aps = ab.aps
       /\ AbAdvanced.bridges = ab.bridges
  BY <1>7 DEF Search
<1>13. /\ LET s == [AbAdvanced EXCEPT !.work[n].parent = 0] IN
            s \in Search /\ Frames(s.work)
       /\ LET s == [AbAdvanced EXCEPT !.work[n].children = @ + 1] IN
            /\ s \in Search /\ Frames(s.work) /\ s.work # <<>> /\ s.work[Len(s.work)].v = AbTop.v
  <2> HIDE DEF n, work, top
  <2>1. QED BY <1>2, <1>5, <1>9, <1>10, <1>11
<1>14. QED BY <1>5, <1>7, <1>10, <1>12, <1>13

\* A step of the low-link search marks documents with neighbours and links, never
\* anything else.
LEMMA AbStep ==
  ASSUME IsBuilt, ab \in Search, Frames(ab.work), CriticalStep
  PROVE  ab' \in Search /\ Frames(ab'.work)
<1>1. /\ \A s, d, l : s \in Search /\ l \in [Docs -> Int] => [s EXCEPT !.low = l] \in Search /\ [s EXCEPT !.low = l].work = s.work
  BY DEF Search
<1>2. ASSUME NEW s \in Search, Frames(s.work), NEW v \in Docs, NEW p \in Docs \union {0},
             s.work # <<>> => v \in Neighbours(s.work[Len(s.work)].v)
      PROVE  Discover(s, v, p) \in Search /\ Frames(Discover(s, v, p).work)
  <2> DEFINE f == AbFrame(v, p)
             w == Append(s.work, f)
  <2>1. f \in Frame /\ f.children = 0 /\ f.v = v
    BY DEF AbFrame, Frame
  <2>2. Frames(w)
    <3> HIDE DEF f
    <3>1. QED BY <1>2, <2>1, FramesPush
  <2>3. Discover(s, v, p) = [s EXCEPT !.disc = [s.disc EXCEPT ![v] = s.counter],
                                      !.low = [s.low EXCEPT ![v] = s.counter],
                                      !.counter = s.counter + 1, !.work = w]
    BY DEF Discover, Search
  <2> HIDE DEF w
  <2>4. w \in Seq(Frame)
    BY <2>2 DEF Frames
  <2>5. [s.disc EXCEPT ![v] = s.counter] \in [Docs -> Int] /\ [s.low EXCEPT ![v] = s.counter] \in [Docs -> Int]
    BY DEF Search
  <2> DEFINE dd == [s.disc EXCEPT ![v] = s.counter]
             ll == [s.low EXCEPT ![v] = s.counter]
  <2>6. Discover(s, v, p) = [s EXCEPT !.disc = dd, !.low = ll, !.counter = s.counter + 1, !.work = w]
    BY <2>3
  <2> HIDE DEF dd, ll, f, w
  <2>7. Discover(s, v, p) \in Search /\ Discover(s, v, p).work = w
    <3>1. dd \in [Docs -> Int] /\ ll \in [Docs -> Int]
      BY <2>5 DEF dd, ll
    <3>2. s.counter + 1 \in Nat /\ s = [disc |-> s.disc, low |-> s.low, counter |-> s.counter, work |-> s.work,
                                      aps |-> s.aps, bridges |-> s.bridges]
      BY DEF Search
    <3>3. Discover(s, v, p) = [disc |-> dd, low |-> ll, counter |-> s.counter + 1, work |-> w,
                               aps |-> s.aps, bridges |-> s.bridges]
      BY <2>6, <3>2
    <3> DEFINE A == SUBSET {d \in Docs : Neighbours(d) # {}}
               B == SUBSET {{e[1], e[2]} : e \in Links}
               W == Seq(Frame)
    <3>4. s.aps \in A /\ s.bridges \in B /\ w \in W
      BY <2>4 DEF Search
    <3>5. Search = [disc : [Docs -> Int], low : [Docs -> Int], counter : Nat, work : W, aps : A, bridges : B]
      BY DEF Search
    <3> HIDE DEF A, B, W
    <3>6. QED BY <3>1, <3>2, <3>3, <3>4, <3>5
  <2>8. QED BY <2>2, <2>7
<1>3. CASE AbRoot
  <2>1. PICK v \in Docs : ab' = Discover(ab, v, 0)
    BY <1>3 DEF AbRoot
  <2>2. ab.work = <<>>
    BY <1>3 DEF AbRoot
  <2>3. QED BY <1>2, <2>1, <2>2
<1>4. CASE AbSkipParent
  BY <1>4, Advances DEF AbSkipParent
<1>5. CASE AbDescend
  <2> DEFINE s == [AbAdvanced EXCEPT !.work[Len(ab.work)].children = @ + 1]
  <2>1. /\ AbMore /\ ab.work # <<>> /\ ab' = Discover(s, AbNext, AbTop.v)
    BY <1>5 DEF AbDescend, AbMore
  <2>2. s \in Search /\ Frames(s.work) /\ s.work # <<>> /\ s.work[Len(s.work)].v = AbTop.v
    BY <2>1, Advances
  <2>3. AbNext \in Neighbours(AbTop.v) /\ AbNext \in Docs /\ AbTop \in Frame
    BY <2>1, TopOf
  <2>4. AbTop.v \in Docs
    BY <2>3 DEF Frame
  <2> HIDE DEF s
  <2>5. QED BY <1>2, <2>1, <2>2, <2>3, <2>4
<1>6. CASE AbBackEdge
  <2>1. /\ AbMore /\ ab.work # <<>>
        /\ ab' = [AbAdvanced EXCEPT !.low[AbTop.v] = IF ab.disc[AbNext] < @ THEN ab.disc[AbNext] ELSE @]
    BY <1>6 DEF AbBackEdge, AbMore
  <2>2. AbAdvanced \in Search /\ Frames(AbAdvanced.work)
    BY <2>1, Advances
  <2>3. AbNext \in Docs /\ AbTop \in Frame
    BY <2>1, TopOf
  <2>4. AbTop.v \in Docs /\ ab.disc[AbNext] \in Int
    BY <2>3 DEF Frame, Search
  <2> DEFINE l == [AbAdvanced.low EXCEPT ![AbTop.v] = IF ab.disc[AbNext] < @ THEN ab.disc[AbNext] ELSE @]
  <2>5. l \in [Docs -> Int]
    BY <2>2, <2>4 DEF Search
  <2>6. ab' = [AbAdvanced EXCEPT !.low = l]
    BY <2>1, <2>2 DEF Search
  <2> HIDE DEF l
  <2>7. QED BY <1>1, <2>2, <2>5, <2>6
<1>7. CASE AbReturnRoot
  <2>1. /\ Len(ab.work) = 1 /\ ab' = [ab EXCEPT !.work = <<>>,
                      !.aps = IF AbTop.children >= 2 THEN @ \union {AbTop.v} ELSE @]
    BY <1>7 DEF AbReturnRoot
  <2>2. ab.work # <<>>
    BY <2>1
  <2>3. AbTop \in Frame /\ (AbTop.children > 0 => Neighbours(AbTop.v) # {})
    BY <2>2, TopOf
  <2>4. AbTop.v \in Docs /\ AbTop.children \in Nat
    BY <2>3 DEF Frame
  <2>5. Frames(<<>>)
    BY DEF Frames
  <2> DEFINE N == {d \in Docs : Neighbours(d) # {}}
             a == IF AbTop.children >= 2 THEN ab.aps \union {AbTop.v} ELSE ab.aps
  <2>6. a \in SUBSET N
    BY <2>3, <2>4 DEF Search
  <2>7. ab' = [ab EXCEPT !.work = <<>>, !.aps = a]
    BY <2>1 DEF Search
  <2> HIDE DEF a
  <2>8. QED BY <2>5, <2>6, <2>7 DEF Search, Frames
<1>8. CASE AbReturn
  <2> DEFINE work == Front(ab.work)
             v == AbTop.v
             p == Last(work).v
             l == [ab.low EXCEPT ![p] = IF ab.low[v] < @ THEN ab.low[v] ELSE @]
             a == IF Len(work) > 1 /\ ab.low[v] >= ab.disc[p] THEN ab.aps \union {p} ELSE ab.aps
             b == IF ab.low[v] > ab.disc[p] THEN ab.bridges \union {{p, v}} ELSE ab.bridges
  <2>1. Len(ab.work) > 1 /\ ab' = [ab EXCEPT !.work = work, !.low = l, !.aps = a, !.bridges = b]
    BY <1>8 DEF AbReturn, Search
  <2>2. ab.work # <<>> /\ Len(ab.work) \in Nat
    BY <2>1 DEF Search
  <2>3. AbTop = ab.work[Len(ab.work)] /\ AbTop \in Frame
    BY <2>2, TopOf
  <2>4. /\ Frames(work) /\ Len(work) = Len(ab.work) - 1
        /\ \A i \in 1..(Len(ab.work) - 1) : work[i] = ab.work[i]
    BY <2>2, FramesPop
  <2> HIDE DEF work
  <2>5. work # <<>> /\ Len(work) \in Nat \ {0}
    <3> HIDE DEF l, a, b, v, p
    <3>1. Len(ab.work) > 1
      BY <2>1
    <3>2. QED BY <2>2, <2>4, <3>1
  <2>6. Last(work) = work[Len(work)] /\ work[Len(work)] \in Frame
    BY <2>4, <2>5, LastFrame
  <2>7. p = ab.work[Len(ab.work) - 1].v /\ p \in Docs /\ v \in Docs
    BY <2>2, <2>3, <2>4, <2>5, <2>6 DEF Frame
  <2>8. v \in Neighbours(p)
    <3>1. Len(ab.work) - 1 \in 1..(Len(ab.work) - 1)
      BY <2>1, <2>2
    <3>2. ab.work[(Len(ab.work) - 1) + 1].v \in Neighbours(ab.work[Len(ab.work) - 1].v)
      BY <3>1 DEF Frames
    <3>3. (Len(ab.work) - 1) + 1 = Len(ab.work)
      BY <2>2
    <3>4. QED BY <2>3, <2>7, <3>2, <3>3
  <2> HIDE DEF v, p
  <2>9. l \in [Docs -> Int]
    BY <2>7 DEF Search
  <2>10. a \in SUBSET {d \in Docs : Neighbours(d) # {}}
    BY <2>7, <2>8 DEF Search
  <2>11. b \in SUBSET {{e[1], e[2]} : e \in Links}
    <3>1. {p, v} \in {{e[1], e[2]} : e \in Links}
      BY <2>7, <2>8, NeighboursIn
    <3>2. QED BY <3>1 DEF Search
  <2> HIDE DEF l, a, b
  <2>12. ab'.work = work /\ ab' \in Search
    BY <2>1, <2>4, <2>9, <2>10, <2>11 DEF Search, Frames
  <2>13. QED BY <2>4, <2>12
<1>9. QED BY <1>3, <1>4, <1>5, <1>6, <1>7, <1>8 DEF CriticalStep

\* What a search may be depends on inputs and graph.
LEMMA SameSearch ==
  ASSUME given' = given, graph' = graph
  PROVE  /\ Search' = Search /\ \A w : Frames(w)' = Frames(w)
         /\ NewCritical' = NewCritical /\ \A s : Distances(graph.out, s)' = Distances(graph.out, s)
<1>1. Docs' = Docs /\ Links' = Links
  BY DEF given, Docs, Links, Out
<1>2. \A d : Neighbours(d)' = Neighbours(d)
  BY DEF Neighbours
<1>3. Frame' = Frame
  BY <1>1 DEF Frame
<1>4. Search' = Search /\ \A w : Frames(w)' = Frames(w)
  BY <1>1, <1>2, <1>3 DEF Search, Frames
<1>5. NewCritical' = NewCritical
  BY <1>1 DEF NewCritical
<1>6. \A s : Distances(graph.out, s)' = Distances(graph.out, s)
  BY <1>1 DEF Distances, Size
<1>7. QED BY <1>4, <1>5, <1>6

\* A new search is one.
LEMMA AbStarts ==
  NewCritical \in Search /\ Frames(NewCritical.work)
<1> DEFINE A == SUBSET {d \in Docs : Neighbours(d) # {}}
           B == SUBSET {{e[1], e[2]} : e \in Links}
           W == Seq(Frame)
<1>1. <<>> \in W /\ {} \in A /\ {} \in B
  OBVIOUS
<1>2. Search = [disc : [Docs -> Int], low : [Docs -> Int], counter : Nat, work : W, aps : A, bridges : B]
  BY DEF Search
<1>3. Frames(<<>>)
  BY DEF Frames
<1> HIDE DEF A, B, W
<1>4. QED BY <1>1, <1>2, <1>3 DEF NewCritical

\* The low-link search stays one in every step of a run.
LEMMA AbInvStep ==
  ASSUME BaseInv, AbInv, [Next]_vars
  PROVE  AbInv'
<1> DEFINE late == {"critical", "rank", "trails", "done"}
<1>1. given' = given
  BY DEF Next, vars, ResolveReferences, BuildGraph, StartComponents, WeakStep, WeakDone,
    StrongStep, StrongDone, SearchDistances, SearchPaths, Measure, CriticalSteps, CriticalEnds,
    PageRank, TrailStep, TrailsEnd, Terminating
<1>2. CASE stage' \notin late
  BY <1>2 DEF AbInv
<1>3. CASE Measure
  <2>1. graph' = graph /\ ab' = NewCritical
    BY <1>3 DEF Measure
  <2>2. QED BY <1>1, <2>1, SameSearch, AbStarts DEF AbInv
<1>4. CASE CriticalSteps
  <2>1. stage = "critical" /\ CriticalStep /\ graph' = graph
    BY <1>4 DEF CriticalSteps
  <2>2. ab \in Search /\ Frames(ab.work)
    BY <2>1 DEF AbInv
  <2>3. IsBuilt
    BY <2>1, BuiltGraph
  <2>4. ab' \in Search /\ Frames(ab'.work)
    BY <2>1, <2>2, <2>3, AbStep
  <2>5. QED BY <1>1, <2>1, <2>4, SameSearch DEF AbInv
<1>5. CASE stage' \in late /\ ~Measure /\ ~CriticalSteps
  <2>1. stage \in late /\ graph' = graph /\ ab' = ab
    <3>1. CASE UNCHANGED vars
      BY <1>5, <3>1 DEF vars, search
    <3>2. CASE Next
      BY <1>5, <3>2 DEF Next, ResolveReferences, BuildGraph, StartComponents, WeakStep, WeakDone,
        StrongStep, StrongDone, SearchDistances, SearchPaths, CriticalEnds,
        PageRank, TrailStep, TrailsEnd, Terminating, vars, search
    <3>3. QED BY <3>1, <3>2
  <2>2. QED BY <1>1, <2>1, SameSearch DEF AbInv
<1>6. QED BY <1>2, <1>3, <1>4, <1>5

-----------------------------------------------------------------------------
(* The searches from every source.                                         *)

Searched == {"paths", "measure", "critical", "rank", "trails", "done"}

BfsInv ==
  stage \in Searched =>
    "dist" \in DOMAIN bfs /\ bfs.dist = [s \in Docs |-> Distances(graph.out, s)]

\* The distances, once searched, are those of the graph.
LEMMA BfsStep ==
  ASSUME BaseInv, BfsInv, [Next]_vars
  PROVE  BfsInv'
<1>1. given' = given
  BY DEF Next, vars, ResolveReferences, BuildGraph, StartComponents, WeakStep, WeakDone,
    StrongStep, StrongDone, SearchDistances, SearchPaths, Measure, CriticalSteps, CriticalEnds,
    PageRank, TrailStep, TrailsEnd, Terminating
<1>2. Docs' = Docs
  BY <1>1 DEF given, Docs
<1>3. CASE stage' \notin Searched
  BY <1>3 DEF BfsInv
<1>4. CASE SearchDistances
  <2>1. graph' = graph
    BY <1>4 DEF SearchDistances
  <2>2. "dist" \in DOMAIN bfs' /\ bfs'.dist = [s \in Docs |-> Distances(graph.out, s)]
    BY <1>4 DEF SearchDistances, ForEachSourceDistances
  <2>3. QED BY <1>1, <1>2, <2>1, <2>2, SameSearch DEF BfsInv
<1>5. CASE SearchPaths
  <2>1. stage = "paths" /\ graph' = graph
    BY <1>5 DEF SearchPaths
  <2>2. "dist" \in DOMAIN bfs /\ bfs.dist = [s \in Docs |-> Distances(graph.out, s)]
    BY <2>1 DEF BfsInv, Searched
  <2>3. "dist" \in DOMAIN bfs' /\ bfs'.dist = bfs.dist
    BY <1>5, <2>2 DEF SearchPaths, ForEachSourceBFS
  <2>4. QED BY <1>1, <1>2, <2>1, <2>2, <2>3, SameSearch DEF BfsInv
<1>6. CASE stage' \in Searched /\ ~SearchDistances /\ ~SearchPaths
  <2>1. stage \in Searched /\ graph' = graph /\ bfs' = bfs
    <3>1. CASE UNCHANGED vars
      BY <1>6, <3>1 DEF vars, search
    <3>2. CASE Next
      BY <1>6, <3>2 DEF Next, ResolveReferences, BuildGraph, StartComponents, WeakStep, WeakDone,
        StrongStep, StrongDone, Measure, CriticalSteps, CriticalEnds, Searched,
        PageRank, TrailStep, TrailsEnd, Terminating, vars, search
    <3>3. QED BY <3>1, <3>2
  <2>2. QED BY <1>1, <1>2, <2>1, SameSearch DEF BfsInv
<1>7. QED BY <1>3, <1>4, <1>5, <1>6

\* The sets of documents that a breadth-first search holds after each round.
Ball(adj, seeds) ==
  CHOOSE g : g = [k \in 0..Cardinality(Docs) |->
                    IF k = 0 THEN seeds
                    ELSE LET last == g[k - 1] IN last \union UNION {adj[d] : d \in last}]

\* What the breadth-first search has reached grows by the neighbours of what it had.
LEMMA BallOf ==
  ASSUME IsFiniteSet(Docs), NEW adj, \A d \in Docs : adj[d] \subseteq Docs, NEW seeds \in SUBSET Docs
  PROVE  LET n == Cardinality(Docs)
             ball == Ball(adj, seeds) IN
         /\ n \in Nat /\ ball \in [0..n -> SUBSET Docs] /\ ball[0] = seeds
         /\ \A k \in 1..n : ball[k] = ball[k - 1] \union UNION {adj[d] : d \in ball[k - 1]}
<1> DEFINE n == Cardinality(Docs)
           Wider(U) == U \union UNION {adj[d] : d \in U}
           Fits(g) == g = [k \in 0..n |-> IF k = 0 THEN seeds
                                          ELSE LET last == g[k - 1] IN last \union UNION {adj[d] : d \in last}]
           ball == Ball(adj, seeds)
           step == [k \in 1..n |-> [U \in SUBSET Docs |-> Wider(U)]]
<1>1. n \in Nat
  BY FS_CardinalityType
<1>2. \A U \in SUBSET Docs : Wider(U) \in SUBSET Docs
  OBVIOUS
<1>3. \E g : Fits(g)
  <2> HIDE DEF Wider, n
  <2>1. IsStep(n, SUBSET Docs, step)
    BY <1>2 DEF IsStep
  <2> HIDE DEF step
  <2>2. PICK f : Iterates(f, n, SUBSET Docs, seeds, step)
    BY <1>1, <2>1, IterationExists
  <2>3. f \in [0..n -> SUBSET Docs] /\ f[0] = seeds /\ \A i \in 1..n : f[i] = Wider(f[i - 1])
    <3>1. f \in [0..n -> SUBSET Docs] /\ f[0] = seeds /\ \A i \in 1..n : f[i] = step[i][f[i - 1]]
      BY <2>2 DEF Iterates
    <3>2. ASSUME NEW i \in 1..n PROVE f[i] = Wider(f[i - 1])
      <4>1. i - 1 \in 0..n
        BY <1>1
      <4>2. f[i - 1] \in SUBSET Docs
        BY <3>1, <4>1
      <4>3. step[i] = [U \in SUBSET Docs |-> Wider(U)]
        BY DEF step
      <4> HIDE DEF step
      <4>4. QED BY <3>1, <4>2, <4>3
    <3>3. QED BY <3>1, <3>2
  <2>4. f = [k \in 0..n |-> IF k = 0 THEN seeds ELSE Wider(f[k - 1])]
    BY <1>1, <2>3
  <2>5. Fits(f)
    BY <2>4, Zenon DEF Wider
  <2>6. QED BY <2>5
<1>4. Fits(ball)
  <2>1. ball = CHOOSE g : Fits(g)
    BY DEF Ball
  <2> HIDE DEF Fits, ball
  <2>2. QED BY <1>3, <2>1
<1> HIDE DEF ball, n
<1>5. /\ ball[0] = seeds /\ DOMAIN ball = 0..n
      /\ \A k \in 1..n : ball[k] = ball[k - 1] \union UNION {adj[d] : d \in ball[k - 1]}
  BY <1>1, <1>4
<1> DEFINE P == {k \in 0..n : ball[k] \in SUBSET Docs}
<1>6. P \in SUBSET Nat /\ 0 \in P
  BY <1>1, <1>5
<1>7. ASSUME NEW k \in 1..n, k - 1 \in P PROVE k \in P
  <2>1. ball[k] = Wider(ball[k - 1]) /\ k \in 0..n
    BY <1>1, <1>5
  <2>2. ball[k - 1] \in SUBSET Docs
    BY <1>7
  <2> HIDE DEF Wider
  <2>3. QED BY <1>2, <2>1, <2>2
<1>8. ball \in [0..n -> SUBSET Docs]
  <2>1. 0..n \subseteq P
    <3> HIDE DEF P
    <3>1. QED BY <1>1, <1>6, <1>7, Upward
  <2>2. ball = [k \in 0..n |-> ball[k]]
    BY <1>4, <1>5
  <2>3. QED BY <2>1, <2>2
<1>9. QED BY <1>1, <1>5, <1>8 DEF ball, n

\* A document reaches itself.
LEMMA ReachesItself ==
  ASSUME IsBuilt, NEW s \in Docs
  PROVE  s \in DOMAIN Distances(graph.out, s)
<1> DEFINE n == Cardinality(Docs)
           ball == Ball(graph.out, {s})
<1>1. /\ n \in Nat /\ ball[0] = {s}
      /\ \A k \in 1..n : ball[k] = ball[k - 1] \union UNION {graph.out[d] : d \in ball[k - 1]}
  <2>1. IsFiniteSet(Docs) /\ \A d \in Docs : graph.out[d] \subseteq Docs
    BY CorpusFacts, OutAndIn DEF IsBuilt, Out
  <2> DEFINE adj == graph.out
             seeds == {s}
  <2>2. seeds \in SUBSET Docs /\ \A d \in Docs : adj[d] \subseteq Docs
    BY <2>1
  <2>3. n = Cardinality(Docs) /\ ball = Ball(adj, seeds)
    OBVIOUS
  <2> HIDE DEF adj, seeds, ball, n
  <2>4. /\ n \in Nat /\ ball[0] = seeds
        /\ \A k \in 1..n : ball[k] = ball[k - 1] \union UNION {adj[d] : d \in ball[k - 1]}
    BY <2>1, <2>2, <2>3, BallOf
  <2>5. QED BY <2>4 DEF adj, seeds
<1>2. DOMAIN Distances(graph.out, s) = ball[n]
  BY DEF Distances, Ball, Size
<1> HIDE DEF ball, n
<1> DEFINE P == {k \in 0..n : s \in ball[k]}
<1>3. P \in SUBSET Nat /\ 0 \in P
  BY <1>1
<1>4. \A k \in 1..n : k - 1 \in P => k \in P
  BY <1>1
<1> HIDE DEF P
<1>5. n \in P
  <2>1. 0..n \subseteq P /\ n \in 0..n
    BY <1>1, <1>3, <1>4, Upward
  <2>2. QED BY <2>1
<1>6. QED BY <1>2, <1>5 DEF P

-----------------------------------------------------------------------------
(* Strong components.                                                      *)

Seen(t) == {d \in Docs : t.indices[d] # -1}
On(t)   == {t.stack[i] : i \in 1..Len(t.stack)}
Shut(t) == UNION t.sccs

\* The document of a frame, and the links of it that were looked at.
Gray(t, k) == t.work[k].v
Taken(f)   == {Sorted(Out(f.v))[i] : i \in 1..(f.next - 1)}

\* The stack from the document of a frame up to that of the next.
Within(t, k, x) ==
  /\ x \in On(t) /\ t.indices[Gray(t, k)] <= t.indices[x]
  /\ k < Len(t.work) => t.indices[x] < t.indices[Gray(t, k + 1)]

Call == [v : Docs, next : Nat \ {0}]

TarjanTyped(t) ==
  /\ t.index \in Nat /\ t.indices \in [Docs -> Int] /\ t.low \in [Docs -> Int]
  /\ t.stack \in Seq(Docs) /\ t.work \in Seq(Call) /\ t.sccs \subseteq SUBSET Docs

\* Documents are numbered as they are met; a document met is on the stack, or
\* in a component that is closed.
TarjanOrdered(t) ==
  /\ \A d \in Docs : t.indices[d] = -1 \/ t.indices[d] \in 0..(t.index - 1)
  /\ \A d, e \in Seen(t) : t.indices[d] = t.indices[e] => d = e
  /\ \A i, j \in 1..Len(t.stack) : i < j => t.indices[t.stack[i]] < t.indices[t.stack[j]]
  /\ \A i, j \in 1..Len(t.work) : i < j => t.indices[Gray(t, i)] < t.indices[Gray(t, j)]
  /\ \A k \in 1..Len(t.work) :
       Gray(t, k) \in On(t) /\ t.work[k].next <= Cardinality(Out(Gray(t, k))) + 1
  /\ On(t) \union Shut(t) = Seen(t) /\ On(t) \intersect Shut(t) = {}

Class(d) == {e \in Docs : <<d, e>> \in Reaches /\ <<e, d>> \in Reaches}

\* No link leads out of what is closed, and what is closed is a class.
TarjanShut(t) ==
  /\ \A x \in Shut(t) : Out(x) \subseteq Shut(t)
  /\ \A c \in t.sccs : \E d \in c : c = Class(d)

\* Links were followed to documents that are met.
TarjanMet(t) ==
  /\ \A x \in On(t) : (\A k \in 1..Len(t.work) : x # Gray(t, k)) => Out(x) \subseteq Seen(t)
  /\ \A k \in 1..Len(t.work) : Taken(t.work[k]) \subseteq Seen(t)

\* All of the stack leads down to the document of a frame, which leads to all above it.
TarjanStrong(t) ==
  /\ \A x \in On(t) : \E k \in 1..Len(t.work) :
       t.indices[Gray(t, k)] <= t.indices[x] /\ <<x, Gray(t, k)>> \in Reaches
  /\ \A k \in 1..Len(t.work) : \A x \in On(t) :
       t.indices[Gray(t, k)] <= t.indices[x] => <<Gray(t, k), x>> \in Reaches

\* The low value of a frame is where it leads to, and no higher than any link of its part
\* of the stack.
TarjanLow(t) ==
  \A k \in 1..Len(t.work) :
    /\ \E y \in On(t) : /\ t.indices[y] = t.low[Gray(t, k)] /\ t.indices[y] <= t.indices[Gray(t, k)]
                        /\ <<Gray(t, k), y>> \in Reaches
    /\ \A x \in On(t), w \in On(t) :
         Within(t, k, x) /\ w \in Out(x) /\ (x = Gray(t, k) => w \in Taken(t.work[k]))
         => t.low[Gray(t, k)] <= t.indices[w]

TarjanRight(t) ==
  TarjanTyped(t) /\ TarjanOrdered(t) /\ TarjanShut(t) /\ TarjanMet(t) /\ TarjanStrong(t) /\ TarjanLow(t)

\* What the search needs of the projection.
Projected == Docs \in SUBSET Nat /\ \A d \in Docs : Out(d) \in SUBSET Docs /\ IsFiniteSet(Out(d))

\* Reachable is reflexive and transitive, holds the links, and never leaves a closed set.
LEMMA ReachFacts ==
  ASSUME NEW N, NEW L, L \subseteq N \X N
  PROVE  /\ \A x, y : <<x, y>> \in Reachable(N, L) => x \in N /\ y \in N
         /\ \A x \in N : <<x, x>> \in Reachable(N, L)
         /\ \A x \in N, y \in N : <<x, y>> \in L => <<x, y>> \in Reachable(N, L)
         /\ \A x \in N, y \in N, z \in N :
              <<x, y>> \in Reachable(N, L) /\ <<y, z>> \in Reachable(N, L) => <<x, z>> \in Reachable(N, L)
         /\ \A s \in Closed(N, L) : \A x \in N, y \in N : <<x, y>> \in Reachable(N, L) /\ x \in s => y \in s
<1> DEFINE C == Closed(N, L)
           R == Reachable(N, L)
<1>1. \A x, y : <<x, y>> \in R <=> x \in N /\ y \in N /\ \A s \in C : x \in s => y \in s
  BY DEF Reachable
<1>2. ASSUME NEW x \in N, NEW y \in N, <<x, y>> \in L, NEW s \in C, x \in s PROVE y \in s
  <2>1. \A e \in L : e[1] \in s => e[2] \in s
    BY DEF Closed
  <2>2. QED BY <1>2, <2>1
<1> HIDE DEF C, R
<1>3. QED BY <1>1, <1>2 DEF C, R

\* The same of the links of the graph.
LEMMA Reaching ==
  ASSUME Projected
  PROVE  /\ \A x, y : <<x, y>> \in Reaches => x \in Docs /\ y \in Docs
         /\ \A x \in Docs : <<x, x>> \in Reaches
         /\ \A x \in Docs : \A y \in Out(x) : <<x, y>> \in Reaches
         /\ \A x, y, z \in Docs : <<x, y>> \in Reaches /\ <<y, z>> \in Reaches => <<x, z>> \in Reaches
         /\ \A s \in SUBSET Docs : (\A x \in s : Out(x) \subseteq s)
              => \A x \in s, y \in Docs : <<x, y>> \in Reaches => y \in s
<1>1. Links \subseteq Docs \X Docs
  BY DEF Links
<1>2. \A x \in Docs, y \in Docs : <<x, y>> \in Links <=> y \in Out(x)
  BY DEF Links
<1>3. ASSUME NEW s \in SUBSET Docs, \A x \in s : Out(x) \subseteq s PROVE s \in Closed(Docs, Links)
  <2>1. ASSUME NEW e \in Links, e[1] \in s PROVE e[2] \in s
    <3>1. e[2] \in Out(e[1])
      BY DEF Links
    <3>2. QED BY <1>3, <2>1, <3>1
  <2>2. QED BY <2>1 DEF Closed
<1>4. \A x \in Docs : \A y \in Out(x) : y \in Docs
  BY DEF Projected
<1>5. QED BY <1>1, <1>2, <1>3, <1>4, ReachFacts DEF Reaches

\* A frame of Tarjan's search takes the neighbours of its document one by one, and all of
\* them.
LEMMA Taking ==
  ASSUME Projected, NEW f \in Call
  PROVE  /\ f.next <= Cardinality(Out(f.v)) =>
              /\ Sorted(Out(f.v))[f.next] \in Out(f.v)
              /\ \A g \in Call : g.v = f.v /\ g.next = f.next + 1
                   => Taken(g) = Taken(f) \union {Sorted(Out(f.v))[f.next]}
         /\ f.next > Cardinality(Out(f.v)) => Out(f.v) \subseteq Taken(f)
         /\ f.next = 1 => Taken(f) = {}
         /\ Cardinality(Out(f.v)) \in Nat
<1> DEFINE S == Out(f.v)
           n == Cardinality(S)
           at(i) == Sorted(S)[i]
<1>1. f.v \in Docs /\ f.next \in Nat \ {0}
  BY DEF Call
<1>2. S \in SUBSET Nat /\ IsFiniteSet(S)
  BY <1>1 DEF Projected
<1>3. /\ n \in Nat
      /\ \A i \in 1..n : at(i) \in S
      /\ \A x \in S : \E i \in 1..n : at(i) = x
  BY <1>2, SortedOf
<1>4. \A g \in Call : g.v = f.v => Taken(g) = {at(i) : i \in 1..(g.next - 1)} /\ g.next \in Nat
  BY DEF Taken, Call
<1>5. Taken(f) = {at(i) : i \in 1..(f.next - 1)}
  BY DEF Taken
<1> HIDE DEF S, n, at
<1>6. ASSUME f.next <= n PROVE at(f.next) \in S
  BY <1>1, <1>3, <1>6
<1>7. ASSUME NEW g \in Call, g.v = f.v, g.next = f.next + 1
      PROVE  Taken(g) = Taken(f) \union {at(f.next)}
  <2>1. 1..(g.next - 1) = 1..(f.next - 1) \union {f.next}
    BY <1>1, <1>7
  <2>2. Taken(g) = {at(i) : i \in 1..(g.next - 1)}
    BY <1>4, <1>7
  <2>3. QED BY <1>5, <2>1, <2>2
<1>8. ASSUME f.next > n PROVE S \subseteq Taken(f)
  <2>1. ASSUME NEW x \in S PROVE x \in Taken(f)
    <3>1. PICK i \in 1..n : at(i) = x
      BY <1>3
    <3>2. i \in 1..(f.next - 1)
      BY <1>1, <1>3, <1>8
    <3>3. QED BY <1>5, <3>1, <3>2
  <2>2. QED BY <2>1
<1>9. ASSUME f.next = 1 PROVE Taken(f) = {}
  BY <1>5, <1>9
<1>10. QED BY <1>3, <1>6, <1>7, <1>8, <1>9 DEF S, n, at

\* What is known of the frames, the stack and the numbers.
LEMMA TarjanFacts ==
  ASSUME Projected, NEW t, TarjanTyped(t), TarjanOrdered(t)
  PROVE  /\ Len(t.work) \in Nat /\ Len(t.stack) \in Nat
         /\ \A k \in 1..Len(t.work) :
              /\ t.work[k] \in Call /\ Gray(t, k) \in Docs /\ Gray(t, k) \in On(t)
              /\ t.low[Gray(t, k)] \in Int
         /\ \A i \in 1..Len(t.stack) : t.stack[i] \in Docs
         /\ On(t) \subseteq Seen(t) /\ Seen(t) \subseteq Docs /\ Shut(t) \subseteq Seen(t)
         /\ \A x \in Seen(t) : t.indices[x] \in 0..(t.index - 1)
         /\ \A x \in Docs : t.indices[x] \in Int
         /\ \A j, k \in 1..Len(t.work) : t.indices[Gray(t, j)] <= t.indices[Gray(t, k)] => j <= k
<1>1. Len(t.work) \in Nat /\ Len(t.stack) \in Nat
  BY DEF TarjanTyped
<1>2. \A k \in 1..Len(t.work) : t.work[k] \in Call /\ Gray(t, k) \in Docs /\ Gray(t, k) \in On(t)
  <2>1. \A k \in 1..Len(t.work) : t.work[k] \in Call /\ Gray(t, k) \in Docs
    <3>1. t.work \in Seq(Call)
      BY DEF TarjanTyped
    <3>2. \A k \in 1..Len(t.work) : t.work[k] \in Call
      BY <3>1
    <3>3. QED BY <3>2 DEF Gray, Call
  <2>2. \A k \in 1..Len(t.work) : Gray(t, k) \in On(t)
    BY DEF TarjanOrdered
  <2>3. QED BY <2>1, <2>2
<1>3. \A x \in Docs : t.indices[x] \in Int /\ t.low[x] \in Int
  BY DEF TarjanTyped
<1>4. On(t) \subseteq Seen(t) /\ Seen(t) \subseteq Docs /\ Shut(t) \subseteq Seen(t)
  <2>1. Seen(t) \subseteq Docs
    BY DEF Seen
  <2>2. QED BY <2>1 DEF TarjanOrdered
<1>5. \A x \in Seen(t) : t.indices[x] \in 0..(t.index - 1)
  BY DEF TarjanOrdered, Seen
<1>6. \A i \in 1..Len(t.stack) : t.stack[i] \in Docs
  BY DEF TarjanTyped
<1>7. ASSUME NEW j \in 1..Len(t.work), NEW k \in 1..Len(t.work), t.indices[Gray(t, j)] <= t.indices[Gray(t, k)]
      PROVE  j <= k
  <2>1. k < j => t.indices[Gray(t, k)] < t.indices[Gray(t, j)]
    BY DEF TarjanOrdered
  <2>2. t.indices[Gray(t, k)] \in Int /\ t.indices[Gray(t, j)] \in Int
    BY <1>2, <1>3
  <2>3. QED BY <1>1, <1>7, <2>1, <2>2
<1>8. QED BY <1>1, <1>2, <1>3, <1>4, <1>5, <1>6, <1>7

\* The part of the stack above a frame holds the document of no other frame.
LEMMA OneFrameWithin ==
  ASSUME Projected, NEW t, TarjanTyped(t), TarjanOrdered(t),
         NEW j \in 1..Len(t.work), NEW k \in 1..Len(t.work), Within(t, k, Gray(t, j))
  PROVE  j = k
<1> DEFINE n == Len(t.work)
<1>1. /\ n \in Nat /\ \A i \in 1..n : t.indices[Gray(t, i)] \in Int
      /\ \A a, b \in 1..n : t.indices[Gray(t, a)] <= t.indices[Gray(t, b)] => a <= b
  BY TarjanFacts
<1>2. k <= j
  BY <1>1 DEF Within
<1>3. ASSUME k # j PROVE FALSE
  <2>1. k < n /\ k + 1 \in 1..n /\ k + 1 <= j
    BY <1>1, <1>2, <1>3
  <2>2. t.indices[Gray(t, j)] < t.indices[Gray(t, k + 1)]
    BY <2>1 DEF Within
  <2>3. j <= k + 1
    BY <1>1, <2>1, <2>2
  <2>4. j = k + 1
    BY <1>1, <2>1, <2>3
  <2>5. QED BY <1>1, <2>2, <2>4
<1>4. QED BY <1>3

\* How a visit of w changes the search: the frames keep their documents, and
\* only the last of them looks at one link more, to w.
Visits(t, u, w) ==
  /\ w \in Docs /\ t.indices[w] = -1
  /\ u.index = t.index + 1 /\ u.sccs = t.sccs
  /\ u.indices = [t.indices EXCEPT ![w] = t.index]
  /\ u.low = [t.low EXCEPT ![w] = t.index]
  /\ u.stack = Append(t.stack, w)
  /\ u.work \in Seq(Call) /\ Len(u.work) = Len(t.work) + 1
  /\ u.work[Len(t.work) + 1] = [v |-> w, next |-> 1]
  /\ \A k \in 1..Len(t.work) :
       /\ Gray(u, k) = Gray(t, k) /\ u.work[k].next <= Cardinality(Out(Gray(u, k))) + 1
       /\ k < Len(t.work) => Taken(u.work[k]) = Taken(t.work[k])
       /\ Taken(u.work[k]) \subseteq Taken(t.work[k]) \union {w}
  /\ Len(t.work) > 0 => w \in Out(Gray(t, Len(t.work)))

\* A visited document is on the stack and at the top of the call stack, with nothing
\* taken; nothing else changes.
LEMMA VisitShape ==
  ASSUME Projected, NEW t, TarjanTyped(t), TarjanOrdered(t), NEW u, NEW w, Visits(t, u, w)
  PROVE  /\ On(u) = On(t) \union {w} /\ Seen(u) = Seen(t) \union {w} /\ Shut(u) = Shut(t)
         /\ w \notin Seen(t) /\ u.indices[w] = t.index /\ u.low[w] = t.index
         /\ \A x \in Docs \ {w} : u.indices[x] = t.indices[x] /\ u.low[x] = t.low[x]
         /\ Gray(u, Len(t.work) + 1) = w /\ Taken(u.work[Len(t.work) + 1]) = {}
         /\ TarjanTyped(u)
<1>1. w \in Docs /\ t.indices \in [Docs -> Int] /\ t.low \in [Docs -> Int] /\ t.index \in Nat
  BY DEF Visits, TarjanTyped
<1>2. /\ u.indices = [t.indices EXCEPT ![w] = t.index]
      /\ u.low = [t.low EXCEPT ![w] = t.index] /\ t.indices[w] = -1
  BY DEF Visits
<1>3. \A x \in Docs \ {w} : u.indices[x] = t.indices[x] /\ u.low[x] = t.low[x]
  BY <1>1, <1>2
<1>4. u.indices[w] = t.index /\ u.low[w] = t.index
  BY <1>1, <1>2
<1>5. Seen(u) = Seen(t) \union {w} /\ w \notin Seen(t)
  BY <1>1, <1>2, <1>3, <1>4 DEF Seen
<1>6. u.stack = Append(t.stack, w) /\ t.stack \in Seq(Docs)
  BY DEF Visits, TarjanTyped
<1>7. On(u) = On(t) \union {w}
  <2>1. /\ Len(t.stack) \in Nat /\ Len(u.stack) = Len(t.stack) + 1 /\ u.stack[Len(t.stack) + 1] = w
        /\ \A i \in 1..Len(t.stack) : u.stack[i] = t.stack[i]
    BY <1>6
  <2>2. 1..Len(u.stack) = 1..Len(t.stack) \union {Len(t.stack) + 1}
    BY <2>1
  <2>3. QED BY <2>1, <2>2 DEF On
<1>8. Gray(u, Len(t.work) + 1) = w /\ Taken(u.work[Len(t.work) + 1]) = {}
  <2>1. u.work[Len(t.work) + 1] = [v |-> w, next |-> 1]
    BY DEF Visits
  <2>2. [v |-> w, next |-> 1] \in Call
    BY <1>1 DEF Call
  <2>3. QED BY <2>1, <2>2, Taking DEF Gray
<1>9. Shut(u) = Shut(t)
  BY DEF Visits, Shut
<1>10. TarjanTyped(u)
  <2>1. u.indices \in [Docs -> Int] /\ u.low \in [Docs -> Int]
    BY <1>1, <1>2
  <2>2. u.stack \in Seq(Docs)
    BY <1>1, <1>6
  <2>3. QED BY <1>1, <2>1, <2>2 DEF Visits, TarjanTyped
<1>11. QED BY <1>3, <1>4, <1>5, <1>7, <1>8, <1>9, <1>10

\* A visit keeps stack and call stack in the order of their indices.
LEMMA VisitOrders ==
  ASSUME Projected, NEW t, TarjanTyped(t), TarjanOrdered(t), NEW u, NEW w, Visits(t, u, w)
  PROVE  TarjanOrdered(u)
<1> DEFINE n == Len(t.work)
<1>1. /\ On(u) = On(t) \union {w} /\ Seen(u) = Seen(t) \union {w} /\ Shut(u) = Shut(t)
      /\ w \notin Seen(t) /\ u.indices[w] = t.index
      /\ \A x \in Docs \ {w} : u.indices[x] = t.indices[x]
      /\ Gray(u, n + 1) = w
  BY VisitShape
<1>2. /\ n \in Nat /\ Len(t.stack) \in Nat
      /\ \A k \in 1..n : Gray(t, k) \in Docs /\ Gray(t, k) \in On(t)
      /\ \A i \in 1..Len(t.stack) : t.stack[i] \in Docs
      /\ On(t) \subseteq Seen(t) /\ Seen(t) \subseteq Docs /\ Shut(t) \subseteq Seen(t)
      /\ \A x \in Seen(t) : t.indices[x] \in 0..(t.index - 1)
  BY TarjanFacts
<1>3. w \in Docs /\ t.index \in Nat /\ u.index = t.index + 1 /\ Len(u.work) = n + 1
  BY DEF Visits, TarjanTyped
<1>4. \A d \in Docs : u.indices[d] = -1 \/ u.indices[d] \in 0..(u.index - 1)
  <2> SUFFICES ASSUME NEW d \in Docs, d # w PROVE u.indices[d] = -1 \/ u.indices[d] \in 0..(u.index - 1)
    BY <1>1, <1>3
  <2>1. t.indices[d] = -1 \/ t.indices[d] \in 0..(t.index - 1)
    BY DEF TarjanOrdered
  <2>2. QED BY <1>1, <1>3, <2>1
<1>5. \A x \in Seen(t) : x \in Docs /\ x # w /\ u.indices[x] = t.indices[x] /\ u.indices[x] < u.indices[w]
                         /\ u.indices[x] \in Int
  BY <1>1, <1>2, <1>3
<1>6. \A d, e \in Seen(u) : u.indices[d] = u.indices[e] => d = e
  <2>1. \A d, e \in Seen(t) : u.indices[d] = u.indices[e] => d = e
    BY <1>5 DEF TarjanOrdered
  <2>2. \A d \in Seen(t) : u.indices[d] # u.indices[w]
    BY <1>1, <1>3, <1>5
  <2>3. QED BY <1>1, <2>1, <2>2
<1>7. \A i, j \in 1..Len(u.stack) : i < j => u.indices[u.stack[i]] < u.indices[u.stack[j]]
  <2>1. /\ Len(u.stack) = Len(t.stack) + 1 /\ u.stack[Len(t.stack) + 1] = w
        /\ \A i \in 1..Len(t.stack) : u.stack[i] = t.stack[i] /\ t.stack[i] \in Seen(t)
    <3>1. u.stack = Append(t.stack, w) /\ t.stack \in Seq(Docs)
      BY DEF Visits, TarjanTyped
    <3>2. \A i \in 1..Len(t.stack) : t.stack[i] \in On(t)
      BY DEF On
    <3>3. QED BY <1>2, <3>1, <3>2
  <2> SUFFICES ASSUME NEW i \in 1..Len(u.stack), NEW j \in 1..Len(u.stack), i < j
               PROVE  u.indices[u.stack[i]] < u.indices[u.stack[j]]
    OBVIOUS
  <2>2. i \in 1..Len(t.stack)
    BY <1>2, <2>1
  <2>3. CASE j = Len(t.stack) + 1
    BY <1>5, <2>1, <2>2, <2>3
  <2>4. CASE j \in 1..Len(t.stack)
    <3>1. t.indices[t.stack[i]] < t.indices[t.stack[j]]
      BY <2>2, <2>4 DEF TarjanOrdered
    <3>2. QED BY <1>5, <2>1, <2>2, <2>4, <3>1
  <2>5. QED BY <1>2, <2>1, <2>3, <2>4
<1>8. \A k \in 1..n : Gray(u, k) = Gray(t, k) /\ u.work[k].next <= Cardinality(Out(Gray(u, k))) + 1
                      /\ Gray(u, k) \in Seen(t)
  BY <1>2 DEF Visits
<1>9. \A i, j \in 1..Len(u.work) : i < j => u.indices[Gray(u, i)] < u.indices[Gray(u, j)]
  <2> SUFFICES ASSUME NEW i \in 1..(n + 1), NEW j \in 1..(n + 1), i < j
               PROVE  u.indices[Gray(u, i)] < u.indices[Gray(u, j)]
    BY <1>3
  <2>1. i \in 1..n
    BY <1>2
  <2>2. CASE j = n + 1
    BY <1>1, <1>5, <1>8, <2>1, <2>2
  <2>3. CASE j \in 1..n
    <3>1. t.indices[Gray(t, i)] < t.indices[Gray(t, j)]
      BY <2>1, <2>3 DEF TarjanOrdered
    <3>2. QED BY <1>5, <1>8, <2>1, <2>3, <3>1
  <2>4. QED BY <1>2, <2>2, <2>3
<1>10. \A k \in 1..Len(u.work) :
         Gray(u, k) \in On(u) /\ u.work[k].next <= Cardinality(Out(Gray(u, k))) + 1
  <2>1. u.work[n + 1] = [v |-> w, next |-> 1]
    BY DEF Visits
  <2>2. Cardinality(Out(w)) \in Nat
    BY <1>3, FS_CardinalityType DEF Projected
  <2>3. u.work[n + 1].next <= Cardinality(Out(Gray(u, n + 1))) + 1
    BY <1>1, <2>1, <2>2
  <2>4. \A k \in 1..n : Gray(u, k) \in On(u)
    BY <1>1, <1>2, <1>8
  <2> SUFFICES ASSUME NEW k \in 1..(n + 1)
               PROVE  Gray(u, k) \in On(u) /\ u.work[k].next <= Cardinality(Out(Gray(u, k))) + 1
    BY <1>3
  <2>5. k = n + 1 \/ k \in 1..n
    BY <1>2
  <2>6. QED BY <1>1, <1>8, <2>3, <2>4, <2>5
<1>11. On(u) \union Shut(u) = Seen(u) /\ On(u) \intersect Shut(u) = {}
  BY <1>1, <1>2 DEF TarjanOrdered
<1>12. QED BY <1>4, <1>6, <1>7, <1>9, <1>10, <1>11 DEF TarjanOrdered

\* A visit keeps Tarjan's search right: a new document is reached from all that wait for
\* it.
LEMMA VisitRight ==
  ASSUME Projected, NEW t, TarjanRight(t), NEW u, NEW w, Visits(t, u, w)
  PROVE  TarjanRight(u)
<1> DEFINE n == Len(t.work)
<1>1. TarjanTyped(t) /\ TarjanOrdered(t) /\ TarjanShut(t) /\ TarjanMet(t) /\ TarjanStrong(t) /\ TarjanLow(t)
  BY DEF TarjanRight
<1>2. /\ On(u) = On(t) \union {w} /\ Seen(u) = Seen(t) \union {w} /\ Shut(u) = Shut(t)
      /\ w \notin Seen(t) /\ u.indices[w] = t.index /\ u.low[w] = t.index
      /\ \A x \in Docs \ {w} : u.indices[x] = t.indices[x] /\ u.low[x] = t.low[x]
      /\ Gray(u, n + 1) = w /\ Taken(u.work[n + 1]) = {}
      /\ TarjanTyped(u)
  BY <1>1, VisitShape
<1>3. TarjanOrdered(u)
  BY <1>1, VisitOrders
<1>4. /\ n \in Nat
      /\ \A k \in 1..n : Gray(t, k) \in Docs /\ Gray(t, k) \in On(t) /\ t.low[Gray(t, k)] \in Int
      /\ On(t) \subseteq Seen(t) /\ Seen(t) \subseteq Docs /\ Shut(t) \subseteq Seen(t)
      /\ \A x \in Seen(t) : t.indices[x] \in 0..(t.index - 1)
  BY <1>1, TarjanFacts
<1>5. w \in Docs /\ t.index \in Nat /\ Len(u.work) = n + 1 /\ u.sccs = t.sccs
  BY <1>1 DEF Visits, TarjanTyped
<1>6. \A k \in 1..n :
        /\ Gray(u, k) = Gray(t, k) /\ (k < n => Taken(u.work[k]) = Taken(t.work[k]))
        /\ Taken(u.work[k]) \subseteq Taken(t.work[k]) \union {w}
  BY DEF Visits
<1>7. n > 0 => w \in Out(Gray(t, n))
  BY DEF Visits
<1>8. \A x \in Seen(t) : /\ x \in Docs /\ x # w /\ u.indices[x] = t.indices[x] /\ u.low[x] = t.low[x]
                         /\ u.indices[x] < u.indices[w] /\ u.indices[x] \in Int
  BY <1>2, <1>4, <1>5
<1>9. \A k \in 1..(n + 1) : k = n + 1 \/ k \in 1..n
  BY <1>4
<1>10. n + 1 \in 1..(n + 1) /\ \A k \in 1..n : k \in 1..(n + 1) /\ k < n + 1
  BY <1>4
<1>11. \A k \in 1..n : Gray(t, k) \in Seen(t)
  BY <1>4
<1>12. t.index \in Int /\ w \in On(u)
  BY <1>2, <1>5
<1> HIDE DEF n
<1>20. TarjanShut(u)
  BY <1>1, <1>2, <1>5 DEF TarjanShut
<1>21. TarjanMet(u)
  <2>1. ASSUME NEW x \in On(u), \A k \in 1..(n + 1) : x # Gray(u, k) PROVE Out(x) \subseteq Seen(u)
    <3>1. x # w
      BY <1>2, <1>10, <2>1
    <3>2. x \in On(t) /\ \A k \in 1..n : x # Gray(t, k)
      BY <1>2, <1>6, <1>10, <2>1, <3>1
    <3>3. Out(x) \subseteq Seen(t)
      BY <1>1, <3>2 DEF TarjanMet, n
    <3>4. QED BY <1>2, <3>3
  <2>2. ASSUME NEW k \in 1..(n + 1) PROVE Taken(u.work[k]) \subseteq Seen(u)
    <3>1. CASE k = n + 1
      BY <1>2, <3>1
    <3>2. CASE k \in 1..n
      <4>1. Taken(t.work[k]) \subseteq Seen(t)
        BY <1>1, <3>2 DEF TarjanMet, n
      <4>2. QED BY <1>2, <1>6, <3>2, <4>1
    <3>3. QED BY <1>9, <3>1, <3>2
  <2>3. QED BY <1>5, <2>1, <2>2 DEF TarjanMet
<1>22. TarjanStrong(u)
  <2>1. ASSUME NEW x \in On(u)
        PROVE  \E k \in 1..(n + 1) : u.indices[Gray(u, k)] <= u.indices[x] /\ <<x, Gray(u, k)>> \in Reaches
    <3>1. CASE x = w
      <4>1. <<x, Gray(u, n + 1)>> \in Reaches
        BY <1>2, <1>5, <3>1, Reaching
      <4>2. u.indices[Gray(u, n + 1)] <= u.indices[x]
        BY <1>2, <1>12, <3>1
      <4>3. QED BY <1>10, <4>1, <4>2
    <3>2. CASE x \in On(t)
      <4>1. PICK k \in 1..n : t.indices[Gray(t, k)] <= t.indices[x] /\ <<x, Gray(t, k)>> \in Reaches
        BY <1>1, <3>2 DEF TarjanStrong, n
      <4>2. x \in Seen(t) /\ Gray(t, k) \in Seen(t)
        BY <1>4, <1>11, <3>2
      <4>3. u.indices[Gray(u, k)] <= u.indices[x] /\ <<x, Gray(u, k)>> \in Reaches
        BY <1>6, <1>8, <4>1, <4>2
      <4>4. QED BY <1>10, <4>3
    <3>3. QED BY <1>2, <3>1, <3>2
  <2>2. ASSUME NEW k \in 1..(n + 1), NEW x \in On(u), u.indices[Gray(u, k)] <= u.indices[x]
        PROVE  <<Gray(u, k), x>> \in Reaches
    <3>1. CASE k = n + 1
      <4>1. x = w
        <5> SUFFICES ASSUME x \in Seen(t) PROVE FALSE
          BY <1>2, <1>4
        <5>1. u.indices[x] < u.indices[w] /\ u.indices[w] <= u.indices[x] /\ u.indices[x] \in Int /\ u.indices[w] \in Int
          BY <1>2, <1>8, <1>12, <2>2, <3>1
        <5>2. QED BY <5>1
      <4>2. QED BY <1>2, <1>5, <3>1, <4>1, Reaching
    <3>2. CASE k \in 1..n /\ x \in On(t)
      <4>1. x \in Seen(t) /\ Gray(t, k) \in Seen(t) /\ Gray(u, k) = Gray(t, k)
        BY <1>4, <1>6, <1>11, <3>2
      <4>2. t.indices[Gray(t, k)] <= t.indices[x]
        BY <1>8, <2>2, <4>1
      <4>3. QED BY <1>1, <3>2, <4>1, <4>2 DEF TarjanStrong, n
    <3>3. CASE k \in 1..n /\ x = w
      <4>1. n \in 1..n /\ n > 0 /\ k <= n
        BY <1>4, <3>3
      <4>2. t.indices[Gray(t, k)] <= t.indices[Gray(t, n)]
        <5>1. k < n => t.indices[Gray(t, k)] < t.indices[Gray(t, n)]
          BY <1>1, <3>3, <4>1 DEF TarjanOrdered, n
        <5>2. t.indices[Gray(t, k)] \in Int /\ t.indices[Gray(t, n)] \in Int
          BY <1>4, <1>11, <3>3, <4>1
        <5>3. k = n \/ k < n
          BY <1>4, <3>3, <4>1
        <5>4. QED BY <5>1, <5>2, <5>3
      <4>3. <<Gray(t, k), Gray(t, n)>> \in Reaches
        BY <1>1, <1>4, <3>3, <4>1, <4>2 DEF TarjanStrong, n
      <4>4. <<Gray(t, n), w>> \in Reaches
        BY <1>4, <1>7, <4>1, Reaching
      <4>5. QED BY <1>4, <1>5, <1>6, <3>3, <4>1, <4>3, <4>4, Reaching
    <3>4. QED BY <1>2, <1>9, <3>1, <3>2, <3>3
  <2>3. QED BY <1>5, <2>1, <2>2 DEF TarjanStrong
<1>23. TarjanLow(u)
  <2>1. ASSUME NEW k \in 1..(n + 1)
        PROVE  \E y \in On(u) : /\ u.indices[y] = u.low[Gray(u, k)] /\ u.indices[y] <= u.indices[Gray(u, k)]
                                /\ <<Gray(u, k), y>> \in Reaches
    <3>1. CASE k = n + 1
      <4>1. <<w, w>> \in Reaches
        BY <1>5, Reaching
      <4>2. QED BY <1>2, <1>12, <3>1, <4>1
    <3>2. CASE k \in 1..n
      <4>1. PICK y \in On(t) : /\ t.indices[y] = t.low[Gray(t, k)] /\ t.indices[y] <= t.indices[Gray(t, k)]
                               /\ <<Gray(t, k), y>> \in Reaches
        BY <1>1, <3>2 DEF TarjanLow, n
      <4>2. y \in Seen(t) /\ Gray(t, k) \in Seen(t) /\ Gray(u, k) = Gray(t, k) /\ y \in On(u)
        BY <1>2, <1>4, <1>6, <1>11, <3>2
      <4>3. QED BY <1>8, <4>1, <4>2
    <3>3. QED BY <1>9, <3>1, <3>2
  <2>2. ASSUME NEW k \in 1..(n + 1), NEW x \in On(u), NEW z \in On(u), Within(u, k, x), z \in Out(x),
               x = Gray(u, k) => z \in Taken(u.work[k])
        PROVE  u.low[Gray(u, k)] <= u.indices[z]
    <3>1. u.indices[Gray(u, k)] <= u.indices[x] /\ (k < n + 1 => u.indices[x] < u.indices[Gray(u, k + 1)])
      BY <1>5, <2>2 DEF Within
    <3>2. CASE k = n + 1
      <4>1. x = w
        <5> SUFFICES ASSUME x \in Seen(t) PROVE FALSE
          BY <1>2, <1>4
        <5>1. u.indices[x] < u.indices[w] /\ u.indices[w] <= u.indices[x] /\ u.indices[x] \in Int /\ u.indices[w] \in Int
          BY <1>2, <1>8, <1>12, <3>1, <3>2
        <5>2. QED BY <5>1
      <4>2. QED BY <1>2, <2>2, <3>2, <4>1
    <3>3. CASE k \in 1..n
      <4>1. Gray(u, k) = Gray(t, k) /\ Gray(t, k) \in Seen(t) /\ k < n + 1 /\ k + 1 \in 1..(n + 1) /\ Gray(t, k) \in On(t)
        BY <1>4, <1>6, <1>10, <1>11, <3>3
      <4>2. x # w
        <5> SUFFICES ASSUME x = w PROVE FALSE
          OBVIOUS
        <5>1. k < n => Gray(u, k + 1) \in Seen(t)
          <6> SUFFICES ASSUME k < n PROVE Gray(u, k + 1) \in Seen(t)
            OBVIOUS
          <6>1. k + 1 \in 1..n
            BY <1>4, <3>3
          <6>2. QED BY <1>6, <1>11, <6>1
        <5>2. k < n => u.indices[Gray(u, k + 1)] < u.indices[w] /\ u.indices[Gray(u, k + 1)] \in Int
          BY <1>8, <5>1
        <5>3. u.indices[w] < u.indices[Gray(u, k + 1)] /\ u.indices[w] \in Int
          BY <1>2, <1>12, <3>1, <4>1
        <5>4. ~(k < n)
          BY <5>2, <5>3
        <5>5. k + 1 = n + 1
          BY <1>4, <3>3, <5>4
        <5>6. QED BY <1>2, <1>12, <5>3, <5>5
      <4>3. x \in On(t) /\ x \in Seen(t)
        BY <1>2, <1>4, <4>2
      <4>4. Within(t, k, x)
        <5>1. t.indices[Gray(t, k)] <= t.indices[x]
          BY <1>8, <3>1, <4>1, <4>3
        <5>2. ASSUME k < n PROVE t.indices[x] < t.indices[Gray(t, k + 1)]
          <6>1. k + 1 \in 1..n
            BY <1>4, <3>3, <5>2
          <6>2. QED BY <1>6, <1>8, <1>11, <3>1, <4>1, <4>3, <6>1
        <5>3. QED BY <4>3, <5>1, <5>2 DEF Within, n
      <4>5. Taken(t.work[k]) \subseteq Seen(t)
        BY <1>1, <3>3 DEF TarjanMet, n
      <4>6. CASE z = w
        <5>1. x = Gray(t, k)
          <6> SUFFICES ASSUME x # Gray(t, k) PROVE FALSE
            OBVIOUS
          <6>1. ASSUME NEW j \in 1..n, x = Gray(t, j) PROVE FALSE
            BY <1>1, <3>3, <4>4, <6>1, OneFrameWithin DEF n
          <6>2. Out(x) \subseteq Seen(t)
            BY <1>1, <4>3, <6>1 DEF TarjanMet, n
          <6>3. QED BY <1>2, <2>2, <4>6, <6>2
        <5>2. z \in Taken(u.work[k])
          BY <2>2, <4>1, <5>1
        <5>3. k = n
          <6> SUFFICES ASSUME k # n PROVE FALSE
            OBVIOUS
          <6>1. k < n
            BY <1>4, <3>3
          <6>2. QED BY <1>2, <1>6, <3>3, <4>5, <4>6, <5>2, <6>1
        <5>4. PICK y \in On(t) : t.indices[y] = t.low[Gray(t, k)]
          BY <1>1, <3>3 DEF TarjanLow, n
        <5>5. y \in Seen(t) /\ u.indices[y] < u.indices[w] /\ u.low[Gray(t, k)] = t.low[Gray(t, k)]
              /\ u.indices[y] = t.indices[y] /\ u.indices[y] \in Int /\ u.indices[w] \in Int
          BY <1>2, <1>4, <1>8, <1>12, <4>1, <5>4
        <5>6. QED BY <4>1, <4>6, <5>4, <5>5
      <4>7. CASE z # w
        <5>1. z \in On(t) /\ z \in Seen(t)
          BY <1>2, <1>4, <4>7
        <5>2. x = Gray(t, k) => z \in Taken(t.work[k])
          BY <1>6, <2>2, <3>3, <4>1, <4>7
        <5>3. t.low[Gray(t, k)] <= t.indices[z]
          BY <1>1, <2>2, <3>3, <4>3, <4>4, <5>1, <5>2 DEF TarjanLow, n
        <5>4. QED BY <1>8, <4>1, <5>1, <5>3
      <4>8. QED BY <4>6, <4>7
    <3>4. QED BY <1>9, <3>2, <3>3
  <2>3. QED BY <1>5, <2>1, <2>2 DEF TarjanLow
<1>30. QED BY <1>2, <1>3, <1>20, <1>21, <1>22, <1>23 DEF TarjanRight

\* How a look at a document that is met, w, changes the search: the last frame
\* has looked at it, and its low value takes account of it if it is on the stack.
Looks(t, u, w) ==
  /\ w \in Seen(t) /\ Len(t.work) > 0 /\ w \in Out(Gray(t, Len(t.work)))
  /\ u.index = t.index /\ u.sccs = t.sccs /\ u.indices = t.indices /\ u.stack = t.stack
  /\ u.low \in [Docs -> Int]
  /\ \A d \in Docs : d # Gray(t, Len(t.work)) => u.low[d] = t.low[d]
  /\ LET v == Gray(t, Len(t.work)) IN
     u.low[v] = IF w \in On(t) /\ t.indices[w] < t.low[v] THEN t.indices[w] ELSE t.low[v]
  /\ u.work \in Seq(Call) /\ Len(u.work) = Len(t.work)
  /\ \A k \in 1..Len(t.work) :
       /\ Gray(u, k) = Gray(t, k) /\ u.work[k].next <= Cardinality(Out(Gray(u, k))) + 1
       /\ k < Len(t.work) => Taken(u.work[k]) = Taken(t.work[k])
       /\ Taken(u.work[k]) \subseteq Taken(t.work[k]) \union {w}

\* So does a look at a neighbour visited before: lowered by it if it is on the stack.
LEMMA LookRight ==
  ASSUME Projected, NEW t, TarjanRight(t), NEW u, NEW w, Looks(t, u, w)
  PROVE  TarjanRight(u)
<1> DEFINE n == Len(t.work)
           v == Gray(t, n)
<1>1. TarjanTyped(t) /\ TarjanOrdered(t) /\ TarjanShut(t) /\ TarjanMet(t) /\ TarjanStrong(t) /\ TarjanLow(t)
  BY DEF TarjanRight
<1>2. On(u) = On(t) /\ Seen(u) = Seen(t) /\ Shut(u) = Shut(t)
  BY DEF Looks, On, Seen, Shut
<1>3. /\ w \in Seen(t) /\ n > 0 /\ w \in Out(v) /\ Len(u.work) = n
      /\ u.index = t.index /\ u.sccs = t.sccs /\ u.indices = t.indices /\ u.stack = t.stack
      /\ \A d \in Docs : d # v => u.low[d] = t.low[d]
      /\ u.low[v] = IF w \in On(t) /\ t.indices[w] < t.low[v] THEN t.indices[w] ELSE t.low[v]
  BY DEF Looks
<1>4. \A k \in 1..n :
        /\ Gray(u, k) = Gray(t, k) /\ u.work[k].next <= Cardinality(Out(Gray(u, k))) + 1
        /\ k < n => Taken(u.work[k]) = Taken(t.work[k])
        /\ Taken(u.work[k]) \subseteq Taken(t.work[k]) \union {w}
  BY DEF Looks
<1>5. /\ n \in Nat
      /\ \A k \in 1..n : Gray(t, k) \in Docs /\ Gray(t, k) \in On(t) /\ t.low[Gray(t, k)] \in Int
      /\ On(t) \subseteq Seen(t) /\ Seen(t) \subseteq Docs /\ Shut(t) \subseteq Seen(t)
      /\ \A x \in Docs : t.indices[x] \in Int
      /\ \A j, k \in 1..n : t.indices[Gray(t, j)] <= t.indices[Gray(t, k)] => j <= k
  BY <1>1, TarjanFacts
<1>6. n \in 1..n /\ v \in Docs /\ t.low[v] \in Int /\ v \in On(t) /\ w \in Docs /\ t.indices[w] \in Int
  BY <1>3, <1>5
<1>7. \A k \in 1..n : k = n \/ (k < n /\ Gray(t, k) # v)
  BY <1>5, <1>6
<1> HIDE DEF n, v
<1>20. TarjanTyped(u)
  BY <1>1, <1>2 DEF TarjanTyped, Looks
<1>21. TarjanOrdered(u)
  <2>1. /\ \A d \in Docs : t.indices[d] = -1 \/ t.indices[d] \in 0..(t.index - 1)
        /\ \A d, e \in Seen(t) : t.indices[d] = t.indices[e] => d = e
        /\ \A i, j \in 1..Len(t.stack) : i < j => t.indices[t.stack[i]] < t.indices[t.stack[j]]
        /\ \A i, j \in 1..n : i < j => t.indices[Gray(t, i)] < t.indices[Gray(t, j)]
        /\ On(t) \union Shut(t) = Seen(t) /\ On(t) \intersect Shut(t) = {}
    BY <1>1 DEF TarjanOrdered, n
  <2>2. \A i, j \in 1..n : i < j => u.indices[Gray(u, i)] < u.indices[Gray(u, j)]
    BY <1>3, <1>4, <2>1
  <2>3. \A k \in 1..n : Gray(u, k) \in On(u) /\ u.work[k].next <= Cardinality(Out(Gray(u, k))) + 1
    BY <1>2, <1>4, <1>5
  <2>4. QED BY <1>2, <1>3, <2>1, <2>2, <2>3 DEF TarjanOrdered
<1>22. TarjanShut(u)
  BY <1>1, <1>2, <1>3 DEF TarjanShut
<1>23. TarjanMet(u)
  <2>1. ASSUME NEW x \in On(u), \A k \in 1..n : x # Gray(u, k) PROVE Out(x) \subseteq Seen(u)
    BY <1>1, <1>2, <1>4, <2>1 DEF TarjanMet, n
  <2>2. ASSUME NEW k \in 1..n PROVE Taken(u.work[k]) \subseteq Seen(u)
    <3>1. Taken(t.work[k]) \subseteq Seen(t)
      BY <1>1 DEF TarjanMet, n
    <3>2. QED BY <1>2, <1>3, <1>4, <3>1
  <2>3. QED BY <1>3, <2>1, <2>2 DEF TarjanMet
<1>24. TarjanStrong(u)
  <2>1. ASSUME NEW x \in On(u)
        PROVE  \E k \in 1..n : u.indices[Gray(u, k)] <= u.indices[x] /\ <<x, Gray(u, k)>> \in Reaches
    <3>1. PICK k \in 1..n : t.indices[Gray(t, k)] <= t.indices[x] /\ <<x, Gray(t, k)>> \in Reaches
      BY <1>1, <1>2 DEF TarjanStrong, n
    <3>2. QED BY <1>3, <1>4, <3>1
  <2>2. ASSUME NEW k \in 1..n, NEW x \in On(u), u.indices[Gray(u, k)] <= u.indices[x]
        PROVE  <<Gray(u, k), x>> \in Reaches
    <3>1. t.indices[Gray(t, k)] <= t.indices[x]
      BY <1>3, <1>4, <2>2
    <3>2. <<Gray(t, k), x>> \in Reaches
      BY <1>1, <1>2, <3>1 DEF TarjanStrong, n
    <3>3. QED BY <1>4, <3>2
  <2>3. QED BY <1>3, <2>1, <2>2 DEF TarjanStrong
<1>25. TarjanLow(u)
  <2>1. ASSUME NEW k \in 1..n
        PROVE  \E y \in On(u) : /\ u.indices[y] = u.low[Gray(u, k)] /\ u.indices[y] <= u.indices[Gray(u, k)]
                                /\ <<Gray(u, k), y>> \in Reaches
    <3>1. PICK y \in On(t) : /\ t.indices[y] = t.low[Gray(t, k)] /\ t.indices[y] <= t.indices[Gray(t, k)]
                             /\ <<Gray(t, k), y>> \in Reaches
      BY <1>1 DEF TarjanLow, n
    <3>2. CASE k = n /\ w \in On(t) /\ t.indices[w] < t.low[v]
      <4>1. u.low[v] = t.indices[w] /\ Gray(u, k) = v /\ Gray(t, k) = v
        BY <1>3, <1>4, <3>2 DEF v
      <4>2. t.indices[w] <= t.indices[v]
        <5>1. t.indices[y] \in Int /\ t.indices[v] \in Int
          BY <1>5, <1>6
        <5>2. QED BY <1>6, <3>1, <3>2, <4>1, <5>1
      <4>3. <<v, w>> \in Reaches
        BY <1>3, <1>6, Reaching
      <4>4. QED BY <1>2, <1>3, <3>2, <4>1, <4>2, <4>3
    <3>3. CASE ~(k = n /\ w \in On(t) /\ t.indices[w] < t.low[v])
      <4>1. u.low[Gray(t, k)] = t.low[Gray(t, k)]
        BY <1>3, <1>5, <1>7, <3>3 DEF v
      <4>2. QED BY <1>2, <1>3, <1>4, <3>1, <4>1
    <3>4. QED BY <3>2, <3>3
  <2>2. ASSUME NEW k \in 1..n, NEW x \in On(u), NEW z \in On(u), Within(u, k, x), z \in Out(x),
               x = Gray(u, k) => z \in Taken(u.work[k])
        PROVE  u.low[Gray(u, k)] <= u.indices[z]
    <3>1. x \in On(t) /\ z \in On(t) /\ Gray(u, k) = Gray(t, k)
      BY <1>2, <1>4
    <3>2. Within(t, k, x)
      <4>1. x \in On(t) /\ t.indices[Gray(t, k)] <= t.indices[x]
        BY <1>3, <2>2, <3>1 DEF Within
      <4>2. ASSUME k < n PROVE t.indices[x] < t.indices[Gray(t, k + 1)]
        <5>1. k + 1 \in 1..n
          BY <1>5, <4>2
        <5>2. u.indices[x] < u.indices[Gray(u, k + 1)]
          BY <1>3, <2>2, <4>2 DEF Within
        <5>3. QED BY <1>3, <1>4, <5>1, <5>2
      <4>3. QED BY <4>1, <4>2 DEF Within, n
    <3>3. /\ t.low[Gray(t, k)] \in Int /\ t.indices[z] \in Int
          /\ u.low[Gray(t, k)] \in Int /\ u.low[Gray(t, k)] <= t.low[Gray(t, k)]
      <4>1. Gray(t, k) \in Docs /\ z \in Docs
        BY <1>5, <3>1
      <4>2. CASE Gray(t, k) = v
        BY <1>3, <1>5, <1>6, <4>1, <4>2
      <4>3. CASE Gray(t, k) # v
        BY <1>3, <1>5, <4>1, <4>3
      <4>4. QED BY <4>2, <4>3
    <3>4. CASE x = Gray(t, k) => z \in Taken(t.work[k])
      <4>1. t.low[Gray(t, k)] <= t.indices[z]
        BY <1>1, <2>2, <3>1, <3>2, <3>4 DEF TarjanLow, n
      <4>2. QED BY <1>3, <3>1, <3>3, <4>1
    <3>5. CASE x = Gray(t, k) /\ z \notin Taken(t.work[k])
      <4>1. z = w /\ k = n
        BY <1>4, <1>7, <2>2, <3>1, <3>5
      <4>2. u.low[v] <= t.indices[w]
        BY <1>3, <1>6, <3>1, <4>1
      <4>3. QED BY <1>3, <3>1, <4>1, <4>2 DEF v
    <3>6. QED BY <3>4, <3>5
  <2>3. QED BY <1>3, <2>1, <2>2 DEF TarjanLow
<1>30. QED BY <1>20, <1>21, <1>22, <1>23, <1>24, <1>25 DEF TarjanRight

\* How the end of the last frame changes the search: that frame is taken off, ...
Leaves(t, u) ==
  LET n == Len(t.work)
      v == Gray(t, n) IN
  /\ n > 0 /\ Out(v) \subseteq Taken(t.work[n])
  /\ u.index = t.index /\ u.indices = t.indices
  /\ u.work \in Seq(Call) /\ Len(u.work) = n - 1
  /\ \A k \in 1..(n - 1) : u.work[k] = t.work[k]

\* ... and either a component is closed, from its document up, ...
Closes(t, u) ==
  LET v == Gray(t, Len(t.work)) IN
  /\ Leaves(t, u)
  /\ t.low[v] = t.indices[v] /\ u.low = t.low
  /\ On(u) = {x \in On(t) : t.indices[x] < t.indices[v]}
  /\ u.stack \in Seq(Docs) /\ Len(u.stack) <= Len(t.stack)
  /\ \A i \in 1..Len(u.stack) : u.stack[i] = t.stack[i]
  /\ u.sccs = t.sccs \union {{x \in On(t) : t.indices[v] <= t.indices[x]}}

\* ... or the frame below takes its low value, if that is less.
HandsDown(t, u) ==
  LET n == Len(t.work)
      v == Gray(t, n)
      p == Gray(t, n - 1) IN
  /\ Leaves(t, u)
  /\ t.low[v] # t.indices[v]
  /\ u.stack = t.stack /\ u.sccs = t.sccs
  /\ u.low \in [Docs -> Int]
  /\ n > 1 => /\ u.low[p] = IF t.low[v] < t.low[p] THEN t.low[v] ELSE t.low[p]
              /\ \A d \in Docs : d # p => u.low[d] = t.low[d]

\* The part of the stack that is closed is a class, and no link leads out of it
\* but to what is closed before.
LEMMA ClosedIsClass ==
  ASSUME Projected, NEW t, TarjanRight(t), Len(t.work) > 0,
         NEW v, v = Gray(t, Len(t.work)), Out(v) \subseteq Taken(t.work[Len(t.work)]),
         t.low[v] = t.indices[v],
         NEW C, C = {x \in On(t) : t.indices[v] <= t.indices[x]}
  PROVE  /\ v \in C /\ C = Class(v)
         /\ \A x \in C : Out(x) \subseteq Shut(t) \union C
<1> DEFINE n == Len(t.work)
<1>1. TarjanTyped(t) /\ TarjanOrdered(t) /\ TarjanShut(t) /\ TarjanMet(t) /\ TarjanStrong(t) /\ TarjanLow(t)
  BY DEF TarjanRight
<1>2. /\ n \in Nat
      /\ \A k \in 1..n : Gray(t, k) \in Docs /\ Gray(t, k) \in On(t) /\ t.low[Gray(t, k)] \in Int
      /\ On(t) \subseteq Seen(t) /\ Seen(t) \subseteq Docs /\ Shut(t) \subseteq Seen(t)
      /\ \A x \in Docs : t.indices[x] \in Int
      /\ \A j, k \in 1..n : t.indices[Gray(t, j)] <= t.indices[Gray(t, k)] => j <= k
  BY <1>1, TarjanFacts
<1>3. n \in 1..n /\ v \in Docs /\ v \in On(t) /\ t.indices[v] \in Int
  BY <1>2
<1>4. v \in C
  BY <1>3
<1>5. On(t) \union Shut(t) = Seen(t) /\ On(t) \intersect Shut(t) = {}
  BY <1>1 DEF TarjanOrdered
<1>6. \A x \in C : x \in On(t) /\ x \in Docs /\ t.indices[v] <= t.indices[x] /\ t.indices[x] \in Int
  BY <1>2
<1>7. \A x \in On(t) : t.indices[v] <= t.indices[x] => x \in C
  OBVIOUS
<1> HIDE DEF n
<1>8. ASSUME NEW x \in C, NEW z \in Out(x) PROVE z \in Shut(t) \union C
  <2>1. Within(t, n, x)
    BY <1>6 DEF Within, n
  <2>2. z \in Seen(t) /\ (x = v => z \in Taken(t.work[n]))
    <3>1. CASE x = v
      <4>1. Taken(t.work[n]) \subseteq Seen(t)
        BY <1>1, <1>3 DEF TarjanMet, n
      <4>2. QED BY <1>8, <3>1, <4>1 DEF n
    <3>2. CASE x # v
      <4>1. ASSUME NEW j \in 1..n, x = Gray(t, j) PROVE FALSE
        <5>1. j = n
          BY <1>1, <1>3, <2>1, <4>1, OneFrameWithin DEF n
        <5>2. QED BY <3>2, <4>1, <5>1 DEF n
      <4>2. Out(x) \subseteq Seen(t)
        BY <1>1, <1>6, <4>1 DEF TarjanMet, n
      <4>3. QED BY <1>8, <3>2, <4>2
    <3>3. QED BY <3>1, <3>2
  <2>3. CASE z \in Shut(t)
    BY <2>3
  <2>4. CASE z \in On(t)
    <3>1. t.low[Gray(t, n)] <= t.indices[z]
      BY <1>1, <1>3, <1>6, <1>8, <2>1, <2>2, <2>4 DEF TarjanLow, n
    <3>2. t.indices[v] <= t.indices[z]
      BY <3>1 DEF n
    <3>3. QED BY <1>7, <2>4, <3>2
  <2>5. QED BY <1>5, <2>2, <2>3, <2>4
<1>9. ASSUME NEW x \in C PROVE <<v, x>> \in Reaches /\ <<x, v>> \in Reaches
  <2>1. <<v, x>> \in Reaches
    BY <1>1, <1>3, <1>6 DEF TarjanStrong, n
  <2>2. PICK k \in 1..n : t.indices[Gray(t, k)] <= t.indices[x] /\ <<x, Gray(t, k)>> \in Reaches
    BY <1>1, <1>6 DEF TarjanStrong, n
  <2>3. t.indices[Gray(t, k)] <= t.indices[v]
    <3>1. k = n \/ k < n
      BY <1>2
    <3>2. k < n => t.indices[Gray(t, k)] < t.indices[Gray(t, n)]
      BY <1>1, <1>3 DEF TarjanOrdered, n
    <3>3. t.indices[Gray(t, k)] \in Int
      BY <1>2
    <3>4. QED BY <1>3, <3>1, <3>2, <3>3 DEF n
  <2>4. <<Gray(t, k), v>> \in Reaches
    BY <1>1, <1>3, <2>3 DEF TarjanStrong, n
  <2>5. QED BY <1>2, <1>3, <1>6, <2>1, <2>2, <2>4, Reaching
<1>10. ASSUME NEW d \in Class(v) PROVE d \in C
  <2>1. d \in Docs /\ <<v, d>> \in Reaches /\ <<d, v>> \in Reaches
    BY DEF Class
  <2> DEFINE S == Shut(t) \union C
  <2>2. S \subseteq Docs /\ v \in S
    BY <1>2, <1>4, <1>6
  <2>3. \A x \in S : Out(x) \subseteq S
    BY <1>1, <1>8 DEF TarjanShut
  <2>4. d \in S
    <3> HIDE DEF S
    <3>1. QED BY <2>1, <2>2, <2>3, Reaching
  <2>5. d \notin Shut(t)
    <3> SUFFICES ASSUME d \in Shut(t) PROVE FALSE
      OBVIOUS
    <3>1. Shut(t) \in SUBSET Docs /\ \A x \in Shut(t) : Out(x) \subseteq Shut(t)
      BY <1>1, <1>2 DEF TarjanShut
    <3>2. v \in Shut(t)
      BY <1>3, <2>1, <3>1, Reaching
    <3>3. QED BY <1>3, <1>5, <3>2
  <2>6. QED BY <2>4, <2>5
<1>11. C = Class(v)
  BY <1>6, <1>9, <1>10 DEF Class
<1>12. QED BY <1>4, <1>8, <1>11

\* So does closing a component: what lies above a document whose low is its own index,
\* and nothing else, reaches it.
LEMMA CloseRight ==
  ASSUME Projected, NEW t, TarjanRight(t), NEW u, Closes(t, u)
  PROVE  TarjanRight(u)
<1> DEFINE n == Len(t.work)
           v == Gray(t, n)
           C == {x \in On(t) : t.indices[v] <= t.indices[x]}
<1>1. TarjanTyped(t) /\ TarjanOrdered(t) /\ TarjanShut(t) /\ TarjanMet(t) /\ TarjanStrong(t) /\ TarjanLow(t)
  BY DEF TarjanRight
<1>2. /\ n \in Nat /\ Len(t.stack) \in Nat
      /\ \A k \in 1..n : Gray(t, k) \in Docs /\ Gray(t, k) \in On(t) /\ t.low[Gray(t, k)] \in Int
      /\ On(t) \subseteq Seen(t) /\ Seen(t) \subseteq Docs /\ Shut(t) \subseteq Seen(t)
      /\ \A x \in Docs : t.indices[x] \in Int
      /\ \A j, k \in 1..n : t.indices[Gray(t, j)] <= t.indices[Gray(t, k)] => j <= k
  BY <1>1, TarjanFacts
<1>3. /\ n > 0 /\ Out(v) \subseteq Taken(t.work[n]) /\ t.low[v] = t.indices[v]
      /\ u.index = t.index /\ u.indices = t.indices /\ u.low = t.low /\ Len(u.work) = n - 1
      /\ On(u) = {x \in On(t) : t.indices[x] < t.indices[v]}
      /\ u.sccs = t.sccs \union {C}
  BY DEF Closes, Leaves
<1>4. \A k \in 1..(n - 1) : u.work[k] = t.work[k] /\ Gray(u, k) = Gray(t, k)
  BY DEF Closes, Leaves, Gray
<1>5. v \in C /\ C = Class(v) /\ \A x \in C : Out(x) \subseteq Shut(t) \union C
  <2>1. /\ v = Gray(t, Len(t.work)) /\ C = {x \in On(t) : t.indices[v] <= t.indices[x]}
        /\ Len(t.work) > 0 /\ Out(v) \subseteq Taken(t.work[Len(t.work)]) /\ t.low[v] = t.indices[v]
    BY <1>3
  <2> HIDE DEF n, v, C
  <2>2. QED BY <2>1, ClosedIsClass
<1>6. n \in 1..n /\ v \in Docs /\ v \in On(t) /\ t.indices[v] \in Int
  BY <1>2, <1>3
<1>7. Seen(u) = Seen(t) /\ Shut(u) = Shut(t) \union C
  <2>1. u.sccs = t.sccs \union {C} /\ u.indices = t.indices
    BY <1>3
  <2> HIDE DEF C
  <2>2. QED BY <2>1 DEF Seen, Shut
<1>8. \A x \in On(t) : (x \in On(u) \/ x \in C) /\ ~(x \in On(u) /\ x \in C)
  BY <1>2, <1>3, <1>6
<1>9. C \subseteq On(t) /\ On(u) \subseteq On(t) /\ \A x \in On(t) : x \in On(u) <=> t.indices[x] < t.indices[v]
  BY <1>3
<1>10. \A k \in 1..(n - 1) : /\ k \in 1..n /\ k < n /\ t.indices[Gray(t, k)] < t.indices[v] /\ Gray(t, k) \in On(u)
                             /\ Gray(t, k) \in Docs
  <2>1. \A k \in 1..(n - 1) : k \in 1..n /\ k < n
    BY <1>2
  <2>2. \A k \in 1..(n - 1) : t.indices[Gray(t, k)] < t.indices[v]
    BY <1>1, <1>6, <2>1 DEF TarjanOrdered
  <2>3. QED BY <1>2, <1>9, <2>1, <2>2
<1>11. \A k \in 1..n : k = n \/ k \in 1..(n - 1)
  BY <1>2
<1>12. \A x \in On(u) : x # v
  BY <1>6, <1>9
<1> HIDE DEF n, v, C
<1>20. TarjanTyped(u)
  <2>1. C \subseteq Docs
    BY <1>2, <1>9
  <2>2. u.sccs \subseteq SUBSET Docs
    BY <1>1, <1>3, <2>1 DEF TarjanTyped
  <2>3. u.stack \in Seq(Docs) /\ u.work \in Seq(Call)
    BY DEF Closes, Leaves
  <2>4. QED BY <1>1, <1>3, <2>2, <2>3 DEF TarjanTyped
<1>21. TarjanOrdered(u)
  <2>1. /\ \A d \in Docs : t.indices[d] = -1 \/ t.indices[d] \in 0..(t.index - 1)
        /\ \A d, e \in Seen(t) : t.indices[d] = t.indices[e] => d = e
        /\ \A i, j \in 1..Len(t.stack) : i < j => t.indices[t.stack[i]] < t.indices[t.stack[j]]
        /\ \A i, j \in 1..n : i < j => t.indices[Gray(t, i)] < t.indices[Gray(t, j)]
        /\ \A k \in 1..n : t.work[k].next <= Cardinality(Out(Gray(t, k))) + 1
        /\ On(t) \union Shut(t) = Seen(t) /\ On(t) \intersect Shut(t) = {}
    BY <1>1 DEF TarjanOrdered, n
  <2>2. \A i, j \in 1..(n - 1) : i < j => u.indices[Gray(u, i)] < u.indices[Gray(u, j)]
    BY <1>3, <1>4, <1>10, <2>1
  <2>3. \A k \in 1..(n - 1) : Gray(u, k) \in On(u) /\ u.work[k].next <= Cardinality(Out(Gray(u, k))) + 1
    BY <1>4, <1>10, <2>1
  <2>4. \A i, j \in 1..Len(u.stack) : i < j => u.indices[u.stack[i]] < u.indices[u.stack[j]]
    <3>1. /\ Len(u.stack) \in Nat /\ Len(u.stack) <= Len(t.stack)
          /\ \A i \in 1..Len(u.stack) : u.stack[i] = t.stack[i]
      BY DEF Closes
    <3>2. \A i \in 1..Len(u.stack) : i \in 1..Len(t.stack)
      BY <1>2, <3>1
    <3>3. QED BY <1>3, <2>1, <3>1, <3>2
  <2>5. On(u) \union Shut(u) = Seen(u) /\ On(u) \intersect Shut(u) = {}
    BY <1>7, <1>8, <1>9, <2>1
  <2>6. QED BY <1>3, <1>7, <2>1, <2>2, <2>3, <2>4, <2>5 DEF TarjanOrdered
<1>22. TarjanShut(u)
  BY <1>1, <1>3, <1>5, <1>7 DEF TarjanShut
<1>23. TarjanMet(u)
  <2>1. ASSUME NEW x \in On(u), \A k \in 1..(n - 1) : x # Gray(u, k) PROVE Out(x) \subseteq Seen(u)
    <3>1. \A k \in 1..n : x # Gray(t, k)
      BY <1>4, <1>11, <1>12, <2>1 DEF v
    <3>2. QED BY <1>1, <1>7, <1>9, <3>1 DEF TarjanMet, n
  <2>2. ASSUME NEW k \in 1..(n - 1) PROVE Taken(u.work[k]) \subseteq Seen(u)
    BY <1>1, <1>4, <1>7, <1>10 DEF TarjanMet, n
  <2>3. QED BY <1>3, <2>1, <2>2 DEF TarjanMet
<1>24. TarjanStrong(u)
  <2>1. ASSUME NEW x \in On(u)
        PROVE  \E k \in 1..(n - 1) : u.indices[Gray(u, k)] <= u.indices[x] /\ <<x, Gray(u, k)>> \in Reaches
    <3>1. PICK k \in 1..n : t.indices[Gray(t, k)] <= t.indices[x] /\ <<x, Gray(t, k)>> \in Reaches
      BY <1>1, <1>9 DEF TarjanStrong, n
    <3>2. k # n
      <4>1. x \in Docs /\ t.indices[x] \in Int /\ t.indices[x] < t.indices[v]
        BY <1>2, <1>9
      <4>2. QED BY <1>6, <3>1, <4>1 DEF v
    <3>3. k \in 1..(n - 1)
      BY <1>11, <3>2
    <3>4. QED BY <1>3, <1>4, <3>1, <3>3
  <2>2. ASSUME NEW k \in 1..(n - 1), NEW x \in On(u), u.indices[Gray(u, k)] <= u.indices[x]
        PROVE  <<Gray(u, k), x>> \in Reaches
    <3>1. x \in On(t) /\ k \in 1..n /\ t.indices[Gray(t, k)] <= t.indices[x]
      BY <1>3, <1>4, <1>9, <1>10, <2>2
    <3>2. <<Gray(t, k), x>> \in Reaches
      BY <1>1, <3>1 DEF TarjanStrong, n
    <3>3. QED BY <1>4, <3>2
  <2>3. QED BY <1>3, <2>1, <2>2 DEF TarjanStrong
<1>25. TarjanLow(u)
  <2>1. ASSUME NEW k \in 1..(n - 1)
        PROVE  \E y \in On(u) : /\ u.indices[y] = u.low[Gray(u, k)] /\ u.indices[y] <= u.indices[Gray(u, k)]
                                /\ <<Gray(u, k), y>> \in Reaches
    <3>1. PICK y \in On(t) : /\ t.indices[y] = t.low[Gray(t, k)] /\ t.indices[y] <= t.indices[Gray(t, k)]
                             /\ <<Gray(t, k), y>> \in Reaches
      BY <1>1, <1>10 DEF TarjanLow, n
    <3>2. t.indices[y] < t.indices[v]
      <4>1. t.indices[y] \in Int /\ t.indices[Gray(t, k)] \in Int /\ t.indices[Gray(t, k)] < t.indices[v]
        BY <1>2, <1>10
      <4>2. QED BY <1>6, <3>1, <4>1
    <3>3. y \in On(u)
      BY <1>9, <3>2
    <3>4. QED BY <1>3, <1>4, <3>1, <3>3
  <2>2. ASSUME NEW k \in 1..(n - 1), NEW x \in On(u), NEW z \in On(u), Within(u, k, x), z \in Out(x),
               x = Gray(u, k) => z \in Taken(u.work[k])
        PROVE  u.low[Gray(u, k)] <= u.indices[z]
    <3>1. x \in On(t) /\ z \in On(t) /\ Gray(u, k) = Gray(t, k) /\ u.work[k] = t.work[k] /\ k \in 1..n
      BY <1>4, <1>9, <1>10
    <3>2. Within(t, k, x)
      <4>1. x \in On(t) /\ t.indices[Gray(t, k)] <= t.indices[x]
        BY <1>3, <2>2, <3>1 DEF Within
      <4>2. ASSUME k < n PROVE t.indices[x] < t.indices[Gray(t, k + 1)]
        <5>1. CASE k < n - 1
          <6>1. k + 1 \in 1..(n - 1)
            BY <1>2, <5>1
          <6>2. u.indices[x] < u.indices[Gray(u, k + 1)]
            BY <1>3, <2>2, <5>1 DEF Within
          <6>3. QED BY <1>3, <1>4, <6>1, <6>2
        <5>2. CASE k = n - 1
          <6>1. k + 1 = n
            BY <1>2, <5>2
          <6>2. QED BY <1>9, <6>1 DEF v
        <5>3. QED BY <1>2, <4>2, <5>1, <5>2
      <4>3. QED BY <4>1, <4>2 DEF Within, n
    <3>3. t.low[Gray(t, k)] <= t.indices[z]
      BY <1>1, <2>2, <3>1, <3>2 DEF TarjanLow, n
    <3>4. QED BY <1>3, <3>1, <3>3
  <2>3. QED BY <1>3, <2>1, <2>2 DEF TarjanLow
<1>30. QED BY <1>20, <1>21, <1>22, <1>23, <1>24, <1>25 DEF TarjanRight

\* So does handing the low of a finished document to the one that called it.
LEMMA HandDownRight ==
  ASSUME Projected, NEW t, TarjanRight(t), NEW u, HandsDown(t, u)
  PROVE  TarjanRight(u)
<1> DEFINE n == Len(t.work)
           v == Gray(t, n)
           p == Gray(t, n - 1)
<1>1. TarjanTyped(t) /\ TarjanOrdered(t) /\ TarjanShut(t) /\ TarjanMet(t) /\ TarjanStrong(t) /\ TarjanLow(t)
  BY DEF TarjanRight
<1>2. /\ n \in Nat
      /\ \A k \in 1..n : Gray(t, k) \in Docs /\ Gray(t, k) \in On(t) /\ t.low[Gray(t, k)] \in Int
      /\ On(t) \subseteq Seen(t) /\ Seen(t) \subseteq Docs /\ Shut(t) \subseteq Seen(t)
      /\ \A x \in Docs : t.indices[x] \in Int
      /\ \A j, k \in 1..n : t.indices[Gray(t, j)] <= t.indices[Gray(t, k)] => j <= k
  BY <1>1, TarjanFacts
<1>3. /\ n > 0 /\ Out(v) \subseteq Taken(t.work[n]) /\ t.low[v] # t.indices[v]
      /\ u.index = t.index /\ u.indices = t.indices /\ Len(u.work) = n - 1
      /\ u.stack = t.stack /\ u.sccs = t.sccs
      /\ n > 1 => /\ u.low[p] = IF t.low[v] < t.low[p] THEN t.low[v] ELSE t.low[p]
                  /\ \A d \in Docs : d # p => u.low[d] = t.low[d]
  BY DEF HandsDown, Leaves
<1>4. \A k \in 1..(n - 1) : u.work[k] = t.work[k] /\ Gray(u, k) = Gray(t, k)
  BY DEF HandsDown, Leaves, Gray
<1>5. Seen(u) = Seen(t) /\ Shut(u) = Shut(t) /\ On(u) = On(t)
  BY <1>3 DEF Seen, Shut, On
<1>6. n \in 1..n /\ v \in Docs /\ v \in On(t) /\ t.indices[v] \in Int
  BY <1>2, <1>3
<1>10. \A k \in 1..(n - 1) : /\ k \in 1..n /\ k < n /\ t.indices[Gray(t, k)] < t.indices[v]
                             /\ Gray(t, k) \in Docs /\ t.indices[Gray(t, k)] \in Int
  <2>1. \A k \in 1..(n - 1) : k \in 1..n /\ k < n
    BY <1>2
  <2>2. \A k \in 1..(n - 1) : t.indices[Gray(t, k)] < t.indices[v]
    BY <1>1, <1>6, <2>1 DEF TarjanOrdered
  <2>3. QED BY <1>2, <2>1, <2>2
<1>11. \A k \in 1..n : k = n \/ k \in 1..(n - 1)
  BY <1>2
<1> HIDE DEF n, v, p
\* The low value of the frame names a document below it, so there is a frame below.
<1>12. PICK y \in On(t) : t.indices[y] = t.low[v] /\ t.indices[y] < t.indices[v] /\ <<v, y>> \in Reaches
  <2>1. PICK y \in On(t) : /\ t.indices[y] = t.low[Gray(t, n)] /\ t.indices[y] <= t.indices[Gray(t, n)]
                           /\ <<Gray(t, n), y>> \in Reaches
    BY <1>1, <1>6 DEF TarjanLow, n
  <2>2. t.indices[y] \in Int
    BY <1>2
  <2>3. t.indices[y] < t.indices[v]
    BY <1>3, <1>6, <2>1, <2>2 DEF v
  <2>4. QED BY <2>1, <2>3 DEF v
<1>13. y \in Docs /\ t.indices[y] \in Int
  BY <1>2
<1>14. PICK j \in 1..(n - 1) : t.indices[Gray(t, j)] <= t.indices[y] /\ <<v, Gray(t, j)>> \in Reaches
  <2>1. PICK j \in 1..n : t.indices[Gray(t, j)] <= t.indices[y] /\ <<y, Gray(t, j)>> \in Reaches
    BY <1>1 DEF TarjanStrong, n
  <2>2. j # n
    BY <1>6, <1>12, <1>13, <2>1 DEF v
  <2>3. <<v, Gray(t, j)>> \in Reaches
    BY <1>2, <1>6, <1>12, <1>13, <2>1, Reaching
  <2>4. QED BY <1>11, <2>1, <2>2, <2>3
<1>15. n > 1 /\ n - 1 \in 1..(n - 1) /\ p \in Docs /\ p \in On(t) /\ t.low[p] \in Int /\ t.low[v] \in Int
  <2>1. n > 1 /\ n - 1 \in 1..(n - 1) /\ n - 1 \in 1..n
    BY <1>2, <1>14
  <2>2. QED BY <1>2, <1>6, <2>1 DEF v, p
<1>16. /\ u.low[p] = IF t.low[v] < t.low[p] THEN t.low[v] ELSE t.low[p]
       /\ \A d \in Docs : d # p => u.low[d] = t.low[d]
  BY <1>3, <1>15
<1>20. TarjanTyped(u)
  BY <1>1, <1>3 DEF TarjanTyped, HandsDown, Leaves
<1>21. TarjanOrdered(u)
  <2>1. /\ \A d \in Docs : t.indices[d] = -1 \/ t.indices[d] \in 0..(t.index - 1)
        /\ \A d, e \in Seen(t) : t.indices[d] = t.indices[e] => d = e
        /\ \A a, b \in 1..Len(t.stack) : a < b => t.indices[t.stack[a]] < t.indices[t.stack[b]]
        /\ \A a, b \in 1..n : a < b => t.indices[Gray(t, a)] < t.indices[Gray(t, b)]
        /\ \A k \in 1..n : t.work[k].next <= Cardinality(Out(Gray(t, k))) + 1
        /\ On(t) \union Shut(t) = Seen(t) /\ On(t) \intersect Shut(t) = {}
    BY <1>1 DEF TarjanOrdered, n
  <2>2. \A a, b \in 1..(n - 1) : a < b => u.indices[Gray(u, a)] < u.indices[Gray(u, b)]
    BY <1>3, <1>4, <1>10, <2>1
  <2>3. \A k \in 1..(n - 1) : Gray(u, k) \in On(u) /\ u.work[k].next <= Cardinality(Out(Gray(u, k))) + 1
    BY <1>2, <1>4, <1>5, <1>10, <2>1
  <2>4. QED BY <1>3, <1>5, <2>1, <2>2, <2>3 DEF TarjanOrdered
<1>22. TarjanShut(u)
  BY <1>1, <1>3, <1>5 DEF TarjanShut
<1>23. TarjanMet(u)
  <2>1. ASSUME NEW x \in On(u), \A k \in 1..(n - 1) : x # Gray(u, k) PROVE Out(x) \subseteq Seen(u)
    <3>1. CASE x = v
      <4>1. Taken(t.work[n]) \subseteq Seen(t)
        BY <1>1, <1>6 DEF TarjanMet, n
      <4>2. QED BY <1>3, <1>5, <3>1, <4>1
    <3>2. CASE x # v
      <4>1. \A k \in 1..n : x # Gray(t, k)
        BY <1>4, <1>11, <2>1, <3>2 DEF v
      <4>2. QED BY <1>1, <1>5, <4>1 DEF TarjanMet, n
    <3>3. QED BY <3>1, <3>2
  <2>2. ASSUME NEW k \in 1..(n - 1) PROVE Taken(u.work[k]) \subseteq Seen(u)
    BY <1>1, <1>4, <1>5, <1>10 DEF TarjanMet, n
  <2>3. QED BY <1>3, <2>1, <2>2 DEF TarjanMet
<1>24. TarjanStrong(u)
  <2>1. ASSUME NEW x \in On(u)
        PROVE  \E k \in 1..(n - 1) : u.indices[Gray(u, k)] <= u.indices[x] /\ <<x, Gray(u, k)>> \in Reaches
    <3>1. PICK k \in 1..n : t.indices[Gray(t, k)] <= t.indices[x] /\ <<x, Gray(t, k)>> \in Reaches
      BY <1>1, <1>5 DEF TarjanStrong, n
    <3>2. CASE k = n
      <4>1. x \in Docs /\ t.indices[x] \in Int /\ t.indices[v] <= t.indices[x] /\ <<x, v>> \in Reaches
        BY <1>2, <1>5, <3>1, <3>2 DEF v
      <4>2. t.indices[Gray(t, j)] <= t.indices[x]
        BY <1>6, <1>10, <4>1
      <4>3. <<x, Gray(t, j)>> \in Reaches
        BY <1>6, <1>10, <1>14, <4>1, Reaching
      <4>4. QED BY <1>3, <1>4, <4>2, <4>3
    <3>3. CASE k \in 1..(n - 1)
      BY <1>3, <1>4, <3>1, <3>3
    <3>4. QED BY <1>11, <3>2, <3>3
  <2>2. ASSUME NEW k \in 1..(n - 1), NEW x \in On(u), u.indices[Gray(u, k)] <= u.indices[x]
        PROVE  <<Gray(u, k), x>> \in Reaches
    <3>1. x \in On(t) /\ k \in 1..n /\ t.indices[Gray(t, k)] <= t.indices[x]
      BY <1>3, <1>4, <1>5, <1>10, <2>2
    <3>2. <<Gray(t, k), x>> \in Reaches
      BY <1>1, <3>1 DEF TarjanStrong, n
    <3>3. QED BY <1>4, <3>2
  <2>3. QED BY <1>3, <2>1, <2>2 DEF TarjanStrong
<1>25. TarjanLow(u)
  <2>0. \A k \in 1..(n - 1) : k = n - 1 \/ (k < n - 1 /\ Gray(t, k) # p)
    <3> SUFFICES ASSUME NEW k \in 1..(n - 1), k # n - 1 PROVE k < n - 1 /\ Gray(t, k) # p
      OBVIOUS
    <3>1. k < n - 1 /\ n - 1 \in 1..n /\ k \in 1..n
      BY <1>2
    <3>2. t.indices[Gray(t, k)] < t.indices[p]
      BY <1>1, <3>1 DEF TarjanOrdered, n, p
    <3>3. t.indices[p] \in Int
      BY <1>2, <1>15
    <3>4. QED BY <3>1, <3>2, <3>3
  <2>1. ASSUME NEW k \in 1..(n - 1)
        PROVE  \E z \in On(u) : /\ u.indices[z] = u.low[Gray(u, k)] /\ u.indices[z] <= u.indices[Gray(u, k)]
                                /\ <<Gray(u, k), z>> \in Reaches
    <3>1. PICK z \in On(t) : /\ t.indices[z] = t.low[Gray(t, k)] /\ t.indices[z] <= t.indices[Gray(t, k)]
                             /\ <<Gray(t, k), z>> \in Reaches
      BY <1>1, <1>10 DEF TarjanLow, n
    <3>2. CASE k = n - 1 /\ t.low[v] < t.low[p]
      <4>1. Gray(u, k) = p /\ Gray(t, k) = p /\ u.low[p] = t.low[v]
        BY <1>4, <1>16, <3>2 DEF p
      <4>2. t.indices[y] <= t.indices[p]
        <5>1. t.indices[z] \in Int /\ t.indices[p] \in Int
          BY <1>2, <1>15
        <5>2. QED BY <1>12, <1>13, <1>15, <3>1, <3>2, <4>1, <5>1
      <4>3. <<p, v>> \in Reaches
        <5>1. t.indices[p] <= t.indices[v]
          BY <1>6, <1>10, <3>2, <4>1
        <5>2. QED BY <1>1, <1>6, <1>10, <4>1, <5>1 DEF TarjanStrong, n
      <4>4. <<p, y>> \in Reaches
        BY <1>6, <1>12, <1>13, <1>15, <4>3, Reaching
      <4>5. QED BY <1>3, <1>5, <1>12, <4>1, <4>2, <4>4
    <3>3. CASE ~(k = n - 1 /\ t.low[v] < t.low[p])
      <4>1. u.low[Gray(t, k)] = t.low[Gray(t, k)]
        BY <1>10, <1>16, <2>0, <3>3 DEF p
      <4>2. QED BY <1>3, <1>4, <1>5, <3>1, <4>1
    <3>4. QED BY <3>2, <3>3
  <2>2. ASSUME NEW k \in 1..(n - 1), NEW x \in On(u), NEW z \in On(u), Within(u, k, x), z \in Out(x),
               x = Gray(u, k) => z \in Taken(u.work[k])
        PROVE  u.low[Gray(u, k)] <= u.indices[z]
    <3>1. /\ x \in On(t) /\ z \in On(t) /\ Gray(u, k) = Gray(t, k) /\ u.work[k] = t.work[k] /\ k \in 1..n
          /\ x \in Docs /\ t.indices[x] \in Int /\ z \in Docs /\ t.indices[z] \in Int
      BY <1>2, <1>4, <1>5, <1>10
    <3>2. t.indices[Gray(t, k)] <= t.indices[x]
      BY <1>3, <2>2, <3>1 DEF Within
    <3>3. /\ t.low[Gray(t, k)] \in Int /\ u.low[Gray(t, k)] \in Int /\ u.low[Gray(t, k)] <= t.low[Gray(t, k)]
      <4>1. Gray(t, k) \in Docs /\ t.low[Gray(t, k)] \in Int
        BY <1>2, <3>1
      <4>2. CASE Gray(t, k) = p
        BY <1>15, <1>16, <4>1, <4>2
      <4>3. CASE Gray(t, k) # p
        BY <1>16, <4>1, <4>3
      <4>4. QED BY <4>2, <4>3
    <3>4. CASE k = n - 1 /\ t.indices[v] <= t.indices[x]
      <4>1. Within(t, n, x)
        BY <3>1, <3>4 DEF Within, n, v
      <4>2. x = v => z \in Taken(t.work[n])
        BY <1>3, <2>2
      <4>3. t.low[v] <= t.indices[z]
        BY <1>1, <1>6, <2>2, <3>1, <4>1, <4>2 DEF TarjanLow, n, v
      <4>4. u.low[p] <= t.low[v] /\ Gray(t, k) = p
        BY <1>15, <1>16, <3>4 DEF p
      <4>5. QED BY <1>3, <1>15, <3>1, <3>3, <4>3, <4>4
    <3>5. CASE ~(k = n - 1 /\ t.indices[v] <= t.indices[x])
      <4>1. Within(t, k, x)
        <5>1. ASSUME k < n PROVE t.indices[x] < t.indices[Gray(t, k + 1)]
          <6>1. CASE k < n - 1
            <7>1. k + 1 \in 1..(n - 1)
              BY <1>2, <6>1
            <7>2. u.indices[x] < u.indices[Gray(u, k + 1)]
              BY <1>3, <2>2, <6>1 DEF Within
            <7>3. QED BY <1>3, <1>4, <7>1, <7>2
          <6>2. CASE k = n - 1
            <7>1. k + 1 = n
              BY <1>2, <6>2
            <7>2. QED BY <1>6, <3>1, <3>5, <6>2, <7>1 DEF v
          <6>3. QED BY <1>2, <5>1, <6>1, <6>2
        <5>2. QED BY <3>1, <3>2, <5>1 DEF Within, n
      <4>2. t.low[Gray(t, k)] <= t.indices[z]
        BY <1>1, <2>2, <3>1, <4>1 DEF TarjanLow, n
      <4>3. QED BY <1>3, <3>1, <3>3, <4>2
    <3>6. QED BY <3>4, <3>5
  <2>3. QED BY <1>3, <2>1, <2>2 DEF TarjanLow
<1>30. QED BY <1>20, <1>21, <1>22, <1>23, <1>24, <1>25 DEF TarjanRight

IsTarjan(t) ==
  t = [index |-> t.index, indices |-> t.indices, low |-> t.low, stack |-> t.stack,
       work |-> t.work, sccs |-> t.sccs]

\* A visit, field by field.
LEMMA VisitIs ==
  ASSUME NEW t, IsTarjan(t), NEW w
  PROVE  Visit(t, w) = [index |-> t.index + 1, indices |-> [t.indices EXCEPT ![w] = t.index],
                        low |-> [t.low EXCEPT ![w] = t.index], stack |-> Append(t.stack, w),
                        work |-> Append(t.work, [v |-> w, next |-> 1]), sccs |-> t.sccs]
<1> DEFINE i == t.index
           a == t.indices
           l == t.low
           s == t.stack
           k == t.work
           c == t.sccs
<1>1. t = [index |-> i, indices |-> a, low |-> l, stack |-> s, work |-> k, sccs |-> c]
  BY DEF IsTarjan
<1>2. Visit(t, w) = [t EXCEPT !.indices = [a EXCEPT ![w] = i], !.low = [l EXCEPT ![w] = i], !.index = i + 1,
                              !.stack = Append(s, w), !.work = Append(k, [v |-> w, next |-> 1])]
  BY <1>1 DEF Visit
<1> HIDE DEF i, a, l, s, k, c
<1>3. Visit(t, w) = [index |-> i + 1, indices |-> [a EXCEPT ![w] = i], low |-> [l EXCEPT ![w] = i],
                     stack |-> Append(s, w), work |-> Append(k, [v |-> w, next |-> 1]), sccs |-> c]
  BY <1>1, <1>2
<1>4. QED BY <1>3 DEF i, a, l, s, k, c

\* A lowering, field by field.
LEMMA LowerIs ==
  ASSUME NEW t, IsTarjan(t), NEW v \in Docs, t.low \in [Docs -> Int], NEW i
  PROVE  Lower(t, v, i) = [index |-> t.index, indices |-> t.indices,
                           low |-> [t.low EXCEPT ![v] = IF i < t.low[v] THEN i ELSE t.low[v]],
                           stack |-> t.stack, work |-> t.work, sccs |-> t.sccs]
<1> DEFINE x == t.index
           a == t.indices
           l == t.low
           s == t.stack
           k == t.work
           c == t.sccs
<1>1. t = [index |-> x, indices |-> a, low |-> l, stack |-> s, work |-> k, sccs |-> c]
  BY DEF IsTarjan
<1>2. Lower(t, v, i) = [t EXCEPT !.low = [l EXCEPT ![v] = IF i < l[v] THEN i ELSE l[v]]]
  BY <1>1 DEF Lower
<1> HIDE DEF x, a, l, s, k, c
<1>3. Lower(t, v, i) = [index |-> x, indices |-> a, low |-> [l EXCEPT ![v] = IF i < l[v] THEN i ELSE l[v]],
                        stack |-> s, work |-> k, sccs |-> c]
  BY <1>1, <1>2
<1>4. QED BY <1>3 DEF x, a, l, s, k, c

\* The frames when the last of them has looked at one link more.
Onward(work) ==
  LET f == work[Len(work)] IN [work EXCEPT ![Len(work)] = [v |-> f.v, next |-> f.next + 1]]

\* The frame at the top, and the search after it has taken one more neighbour.
LEMMA TopIs ==
  ASSUME Projected, IsTarjan(tarjan), TarjanTyped(tarjan), tarjan.work # <<>>
  PROVE  /\ Len(tarjan.work) \in Nat \ {0} /\ Len(tarjan.work) \in 1..Len(tarjan.work)
         /\ Top = tarjan.work[Len(tarjan.work)] /\ Top \in Call /\ Top.v = Gray(tarjan, Len(tarjan.work))
         /\ Top.v \in Docs /\ Top.next \in Nat \ {0}
         /\ Advanced = [index |-> tarjan.index, indices |-> tarjan.indices, low |-> tarjan.low,
                        stack |-> tarjan.stack, sccs |-> tarjan.sccs, work |-> Onward(tarjan.work)]
<1> DEFINE W == tarjan.work
           n == Len(W)
           f == W[n]
           g == [v |-> f.v, next |-> f.next + 1]
<1>1. W \in Seq(Call)
  BY DEF TarjanTyped
<1>2. n \in Nat \ {0} /\ n \in 1..n /\ f \in Call /\ Top = f /\ n \in DOMAIN W
  BY <1>1 DEF Top, Last
<1>3. f.v \in Docs /\ f.next \in Nat \ {0} /\ f = [v |-> f.v, next |-> f.next]
  BY <1>2 DEF Call
<1>4. Gray(tarjan, n) = f.v
  BY DEF Gray
<1>5. [W EXCEPT ![n].next = @ + 1] = [W EXCEPT ![n] = g]
  <2>1. [W EXCEPT ![n].next = @ + 1] = [W EXCEPT ![n] = [f EXCEPT !.next = @ + 1]]
    BY <1>2
  <2>2. [f EXCEPT !.next = @ + 1] = g
    <3> DEFINE fv == f.v
               fn == f.next
    <3>1. f = [v |-> fv, next |-> fn]
      BY <1>3
    <3> HIDE DEF f, fv, fn
    <3>2. [f EXCEPT !.next = @ + 1] = [v |-> fv, next |-> fn + 1]
      BY <3>1
    <3>3. QED BY <3>2 DEF fv, fn
  <2> HIDE DEF f, g
  <2>3. QED BY <2>1, <2>2
<1>6. Advanced = [tarjan EXCEPT !.work = [W EXCEPT ![n] = g]]
  <2>1. Advanced = [tarjan EXCEPT !.work[n].next = @ + 1]
    BY DEF Advanced
  <2>2. [tarjan EXCEPT !.work[n].next = @ + 1] = [tarjan EXCEPT !.work = [W EXCEPT ![n].next = @ + 1]]
    <3>1. tarjan = [index |-> tarjan.index, indices |-> tarjan.indices, low |-> tarjan.low,
                    stack |-> tarjan.stack, work |-> W, sccs |-> tarjan.sccs]
      BY DEF IsTarjan
    <3>2. QED BY <3>1
  <2> HIDE DEF W, n, g
  <2>3. QED BY <1>5, <2>1, <2>2
<1>7. Advanced = [index |-> tarjan.index, indices |-> tarjan.indices, low |-> tarjan.low,
                  stack |-> tarjan.stack, sccs |-> tarjan.sccs, work |-> [W EXCEPT ![n] = g]]
  <2> DEFINE w == [W EXCEPT ![n] = g]
  <2> HIDE DEF w
  <2>1. [tarjan EXCEPT !.work = w] =
          [index |-> tarjan.index, indices |-> tarjan.indices, low |-> tarjan.low,
           stack |-> tarjan.stack, sccs |-> tarjan.sccs, work |-> w]
    BY DEF IsTarjan
  <2>2. Advanced = [tarjan EXCEPT !.work = w]
    BY <1>6 DEF w
  <2>3. QED BY <2>1, <2>2 DEF w
<1>8. Onward(tarjan.work) = [W EXCEPT ![n] = g]
  BY DEF Onward
<1> HIDE DEF g
<1>9. QED BY <1>2, <1>3, <1>4, <1>7, <1>8

\* The frames when the last of them has looked at one link more, to w.
LEMMA AdvancedFrames ==
  ASSUME Projected, NEW t, TarjanTyped(t), TarjanOrdered(t), Len(t.work) \in Nat \ {0},
         t.work[Len(t.work)].next <= Cardinality(Out(t.work[Len(t.work)].v))
  PROVE  LET n == Len(t.work)
             f == t.work[n]
             w == Sorted(Out(f.v))[f.next]
             W == Onward(t.work) IN
         /\ W \in Seq(Call) /\ Len(W) = n /\ w \in Out(f.v) /\ w \in Docs
         /\ \A k \in 1..n : /\ W[k].v = Gray(t, k) /\ W[k].next <= Cardinality(Out(Gray(t, k))) + 1
                            /\ k < n => W[k] = t.work[k]
                            /\ Taken(W[k]) \subseteq Taken(t.work[k]) \union {w}
<1> DEFINE n == Len(t.work)
           f == t.work[n]
           w == Sorted(Out(f.v))[f.next]
           W == Onward(t.work)
           g == [v |-> f.v, next |-> f.next + 1]
<1>1. t.work \in Seq(Call) /\ n \in 1..n
  BY DEF TarjanTyped
<1>2. f \in Call /\ f.v \in Docs /\ f.next \in Nat \ {0}
  <2>1. f \in Call
    BY <1>1
  <2>2. QED BY <2>1 DEF Call
<1>3. g \in Call /\ g.v = f.v /\ g.next = f.next + 1
  BY <1>2 DEF Call
<1>0. W = [t.work EXCEPT ![n] = g]
  BY DEF Onward
<1> HIDE DEF g, W
<1>4. W \in Seq(Call) /\ Len(W) = n /\ W[n] = g /\ \A k \in 1..n : k # n => W[k] = t.work[k]
  BY <1>0, <1>1, <1>3
<1>5. w \in Out(f.v) /\ Taken(g) = Taken(f) \union {w} /\ Cardinality(Out(f.v)) \in Nat
  BY <1>2, <1>3, Taking
<1>6. w \in Docs
  BY <1>2, <1>5 DEF Projected
<1>7. ASSUME NEW k \in 1..n
      PROVE  /\ W[k].v = Gray(t, k) /\ W[k].next <= Cardinality(Out(Gray(t, k))) + 1
             /\ k < n => W[k] = t.work[k]
             /\ Taken(W[k]) \subseteq Taken(t.work[k]) \union {w}
  <2>1. CASE k = n
    <3>1. Gray(t, k) = f.v /\ t.work[k] = f /\ W[k] = g
      BY <1>4, <2>1 DEF Gray
    <3>2. g.next <= Cardinality(Out(f.v)) + 1
      BY <1>2, <1>3, <1>5
    <3>3. QED BY <1>3, <1>5, <2>1, <3>1, <3>2
  <2>2. CASE k # n
    <3>1. W[k] = t.work[k]
      BY <1>4, <2>2
    <3>2. W[k].v = Gray(t, k)
      BY <3>1 DEF Gray
    <3>3. t.work[k].next <= Cardinality(Out(Gray(t, k))) + 1
      BY DEF TarjanOrdered
    <3>4. QED BY <3>1, <3>2, <3>3
  <2>3. QED BY <2>1, <2>2
<1>8. QED BY <1>4, <1>5, <1>6, <1>7 DEF W

\* A new search from a document none has seen keeps Tarjan's search right.
LEMMA ConnectStep ==
  ASSUME Projected, IsTarjan(tarjan), TarjanRight(tarjan), StrongConnect
  PROVE  IsTarjan(tarjan') /\ TarjanRight(tarjan')
<1> DEFINE t == tarjan
<1>1. TarjanTyped(t) /\ TarjanOrdered(t)
  BY DEF TarjanRight
<1>2. PICK w \in Docs : Unset(w) /\ tarjan' = Visit(t, w) /\ t.work = <<>>
  BY DEF StrongConnect
<1> DEFINE u == tarjan'
           f == [v |-> w, next |-> 1]
<1>3. u = [index |-> t.index + 1, indices |-> [t.indices EXCEPT ![w] = t.index],
           low |-> [t.low EXCEPT ![w] = t.index], stack |-> Append(t.stack, w),
           work |-> Append(t.work, f), sccs |-> t.sccs]
  BY <1>2, VisitIs
<1> HIDE DEF f
<1>4. /\ IsTarjan(u)
      /\ u.index = t.index + 1 /\ u.sccs = t.sccs /\ u.indices = [t.indices EXCEPT ![w] = t.index]
      /\ u.low = [t.low EXCEPT ![w] = t.index] /\ u.stack = Append(t.stack, w)
      /\ u.work = Append(t.work, f)
  <2> HIDE DEF t, u
  <2>1. QED BY <1>3 DEF IsTarjan
<1>5. f \in Call
  BY DEF f, Call
<1>6. Len(t.work) = 0 /\ u.work \in Seq(Call) /\ Len(u.work) = 1 /\ u.work[1] = f
  BY <1>2, <1>4, <1>5
<1>7. t.indices[w] = -1
  BY <1>2 DEF Unset
<1>8. Visits(t, u, w)
  <2> HIDE DEF t, u
  <2>1. \A k \in 1..Len(t.work) : FALSE
    BY <1>6
  <2>2. Len(u.work) = Len(t.work) + 1 /\ u.work[Len(t.work) + 1] = [v |-> w, next |-> 1] /\ ~(Len(t.work) > 0)
    BY <1>6 DEF f
  <2>3. QED BY <1>4, <1>6, <1>7, <2>1, <2>2 DEF Visits
<1>9. TarjanRight(u)
  <2> HIDE DEF u
  <2>1. QED BY <1>8, VisitRight
<1>10. QED BY <1>4, <1>9

\* So does descending to an unvisited neighbour.
LEMMA DescendStep ==
  ASSUME Projected, IsTarjan(tarjan), TarjanRight(tarjan), Descend
  PROVE  IsTarjan(tarjan') /\ TarjanRight(tarjan')
<1> DEFINE t == tarjan
           n == Len(t.work)
           w == Neighbour
           W == Onward(t.work)
           u == tarjan'
           f == [v |-> w, next |-> 1]
<1>1. TarjanTyped(t) /\ TarjanOrdered(t)
  BY DEF TarjanRight
<1>2. t.work # <<>> /\ Top.next <= Cardinality(Out(Top.v)) /\ t.indices[w] = -1 /\ u = Visit(Advanced, w)
  BY DEF Descend, Unset
<1>3. /\ n \in Nat \ {0} /\ n \in 1..n /\ Top = t.work[n] /\ Top.v = Gray(t, n)
      /\ Advanced = [index |-> t.index, indices |-> t.indices, low |-> t.low,
                     stack |-> t.stack, sccs |-> t.sccs, work |-> W]
  BY <1>1, <1>2, TopIs
<1>4. w = Sorted(Out(Top.v))[Top.next]
  BY DEF Neighbour
<1> HIDE DEF w
<1>5. /\ W \in Seq(Call) /\ Len(W) = n /\ w \in Out(Top.v) /\ w \in Docs
      /\ \A k \in 1..n : /\ W[k].v = Gray(t, k) /\ W[k].next <= Cardinality(Out(Gray(t, k))) + 1
                         /\ k < n => W[k] = t.work[k]
                         /\ Taken(W[k]) \subseteq Taken(t.work[k]) \union {w}
  <2>1. n = Len(t.work) /\ Top = t.work[n] /\ n \in Nat \ {0} /\ W = Onward(t.work)
    BY <1>3
  <2>2. t.work[n].next <= Cardinality(Out(t.work[n].v)) /\ w = Sorted(Out(t.work[n].v))[t.work[n].next]
    BY <1>2, <1>3, <1>4
  <2> HIDE DEF t, n, W, u, f
  <2>3. QED BY <1>1, <2>1, <2>2, AdvancedFrames
<1> HIDE DEF W, f
<1>6. u = [index |-> t.index + 1, indices |-> [t.indices EXCEPT ![w] = t.index],
           low |-> [t.low EXCEPT ![w] = t.index], stack |-> Append(t.stack, w),
           work |-> Append(W, f), sccs |-> t.sccs]
  <2> DEFINE a == Advanced
  <2>1. /\ IsTarjan(a) /\ a.index = t.index /\ a.indices = t.indices /\ a.low = t.low
        /\ a.stack = t.stack /\ a.sccs = t.sccs /\ a.work = W
    BY <1>3 DEF IsTarjan
  <2> HIDE DEF a
  <2>2. Visit(a, w) = [index |-> a.index + 1, indices |-> [a.indices EXCEPT ![w] = a.index],
                       low |-> [a.low EXCEPT ![w] = a.index], stack |-> Append(a.stack, w),
                       work |-> Append(a.work, f), sccs |-> a.sccs]
    BY <2>1, VisitIs DEF f
  <2>3. QED BY <1>2, <2>1, <2>2 DEF a
<1>7. /\ IsTarjan(u)
      /\ u.index = t.index + 1 /\ u.sccs = t.sccs /\ u.indices = [t.indices EXCEPT ![w] = t.index]
      /\ u.low = [t.low EXCEPT ![w] = t.index] /\ u.stack = Append(t.stack, w)
      /\ u.work = Append(W, f)
  <2> HIDE DEF t, u
  <2>1. QED BY <1>6 DEF IsTarjan
<1> HIDE DEF u, t
<1>8. f \in Call
  BY <1>5 DEF f, Call
<1>9. /\ u.work \in Seq(Call) /\ Len(u.work) = n + 1 /\ u.work[n + 1] = f
      /\ \A k \in 1..n : u.work[k] = W[k]
  BY <1>3, <1>5, <1>7, <1>8
<1>10. \A k \in 1..n : Gray(u, k) = Gray(t, k)
  BY <1>5, <1>9 DEF Gray
<1>11. Visits(t, u, w)
  <2>1. ASSUME NEW k \in 1..n
        PROVE  /\ Gray(u, k) = Gray(t, k) /\ u.work[k].next <= Cardinality(Out(Gray(u, k))) + 1
               /\ k < n => Taken(u.work[k]) = Taken(t.work[k])
               /\ Taken(u.work[k]) \subseteq Taken(t.work[k]) \union {w}
    <3>1. u.work[k] = W[k] /\ Gray(u, k) = Gray(t, k)
      BY <1>9, <1>10
    <3>2. QED BY <1>5, <3>1
  <2>2. w \in Out(Gray(t, n))
    BY <1>3, <1>5
  <2>3. u.work[n + 1] = [v |-> w, next |-> 1]
    BY <1>9 DEF f
  <2>4. QED BY <1>2, <1>5, <1>7, <1>9, <2>1, <2>2, <2>3 DEF Visits
<1>12. TarjanRight(u)
  BY <1>11, VisitRight DEF t
<1>13. QED BY <1>7, <1>12 DEF u

\* So does looking at a visited one.
LEMMA BackStep ==
  ASSUME Projected, IsTarjan(tarjan), TarjanRight(tarjan), BackEdge
  PROVE  IsTarjan(tarjan') /\ TarjanRight(tarjan')
<1> DEFINE t == tarjan
           n == Len(t.work)
           w == Neighbour
           W == Onward(t.work)
           v == Top.v
           u == tarjan'
           l == [t.low EXCEPT ![v] = IF w \in On(t) /\ t.indices[w] < t.low[v] THEN t.indices[w] ELSE t.low[v]]
<1>1. TarjanTyped(t) /\ TarjanOrdered(t)
  BY DEF TarjanRight
<1>2. /\ t.work # <<>> /\ Top.next <= Cardinality(Out(Top.v)) /\ t.indices[w] # -1
      /\ u = IF w \in On(t) THEN Lower(Advanced, v, t.indices[w]) ELSE Advanced
  BY DEF BackEdge, Unset, Contains, On
<1>3. /\ n \in Nat \ {0} /\ n \in 1..n /\ Top = t.work[n] /\ v = Gray(t, n) /\ v \in Docs
      /\ Advanced = [index |-> t.index, indices |-> t.indices, low |-> t.low,
                     stack |-> t.stack, sccs |-> t.sccs, work |-> W]
  BY <1>1, <1>2, TopIs
<1>4. w = Sorted(Out(Top.v))[Top.next]
  BY DEF Neighbour
<1> HIDE DEF w
<1>5. /\ W \in Seq(Call) /\ Len(W) = n /\ w \in Out(v) /\ w \in Docs
      /\ \A k \in 1..n : /\ W[k].v = Gray(t, k) /\ W[k].next <= Cardinality(Out(Gray(t, k))) + 1
                         /\ k < n => W[k] = t.work[k]
                         /\ Taken(W[k]) \subseteq Taken(t.work[k]) \union {w}
  <2>1. n = Len(t.work) /\ Top = t.work[n] /\ n \in Nat \ {0} /\ W = Onward(t.work) /\ v = Top.v
    BY <1>3
  <2>2. t.work[n].next <= Cardinality(Out(t.work[n].v)) /\ w = Sorted(Out(t.work[n].v))[t.work[n].next]
    BY <1>2, <1>3, <1>4
  <2> HIDE DEF t, n, W, u, l, v
  <2>3. QED BY <1>1, <2>1, <2>2, AdvancedFrames
<1>6. t.low \in [Docs -> Int] /\ t.indices \in [Docs -> Int]
  BY <1>1 DEF TarjanTyped
<1> HIDE DEF W
<1>7. u = [index |-> t.index, indices |-> t.indices, low |-> l, stack |-> t.stack, work |-> W, sccs |-> t.sccs]
  <2>1. CASE w \in On(t)
    <3> DEFINE a == Advanced
    <3>1. /\ IsTarjan(a) /\ a.index = t.index /\ a.indices = t.indices /\ a.low = t.low
          /\ a.stack = t.stack /\ a.sccs = t.sccs /\ a.work = W
      BY <1>3 DEF IsTarjan
    <3> HIDE DEF a, v
    <3>2. Lower(a, v, t.indices[w]) =
            [index |-> a.index, indices |-> a.indices,
             low |-> [a.low EXCEPT ![v] = IF t.indices[w] < a.low[v] THEN t.indices[w] ELSE a.low[v]],
             stack |-> a.stack, work |-> a.work, sccs |-> a.sccs]
      BY <1>3, <1>6, <3>1, LowerIs
    <3>3. [a.low EXCEPT ![v] = IF t.indices[w] < a.low[v] THEN t.indices[w] ELSE a.low[v]] = l
      BY <2>1, <3>1
    <3> HIDE DEF l
    <3>4. u = Lower(a, v, t.indices[w])
      BY <1>2, <2>1 DEF a
    <3>5. QED BY <3>1, <3>2, <3>3, <3>4
  <2>2. CASE w \notin On(t)
    <3>1. l = t.low
      BY <1>3, <1>6, <2>2
    <3> HIDE DEF l, v
    <3>2. QED BY <1>2, <1>3, <2>2, <3>1
  <2>3. QED BY <2>1, <2>2
<1>8. /\ l \in [Docs -> Int] /\ \A d \in Docs : d # v => l[d] = t.low[d]
      /\ l[v] = IF w \in On(t) /\ t.indices[w] < t.low[v] THEN t.indices[w] ELSE t.low[v]
  <2> HIDE DEF v
  <2>1. QED BY <1>3, <1>5, <1>6
<1> HIDE DEF l, v
<1>9. /\ IsTarjan(u)
      /\ u.index = t.index /\ u.sccs = t.sccs /\ u.indices = t.indices
      /\ u.low = l /\ u.stack = t.stack /\ u.work = W
  <2> HIDE DEF t, u
  <2>1. QED BY <1>7 DEF IsTarjan
<1> HIDE DEF u, t
<1>10. \A k \in 1..n : Gray(u, k) = Gray(t, k)
  BY <1>5, <1>9 DEF Gray
<1>11. Looks(t, u, w)
  <2>1. ASSUME NEW k \in 1..n
        PROVE  /\ Gray(u, k) = Gray(t, k) /\ u.work[k].next <= Cardinality(Out(Gray(u, k))) + 1
               /\ k < n => Taken(u.work[k]) = Taken(t.work[k])
               /\ Taken(u.work[k]) \subseteq Taken(t.work[k]) \union {w}
    <3>1. u.work[k] = W[k] /\ Gray(u, k) = Gray(t, k)
      BY <1>9, <1>10
    <3>2. QED BY <1>5, <3>1
  <2>2. w \in Seen(t) /\ n > 0 /\ w \in Out(Gray(t, n))
    BY <1>2, <1>3, <1>5 DEF Seen
  <2>3. /\ u.work \in Seq(Call) /\ Len(u.work) = n /\ u.low \in [Docs -> Int]
        /\ \A d \in Docs : d # Gray(t, n) => u.low[d] = t.low[d]
        /\ u.low[Gray(t, n)] = IF w \in On(t) /\ t.indices[w] < t.low[Gray(t, n)]
                               THEN t.indices[w] ELSE t.low[Gray(t, n)]
    BY <1>3, <1>5, <1>8, <1>9
  <2>4. QED BY <1>9, <2>1, <2>2, <2>3 DEF Looks
<1>12. TarjanRight(u)
  BY <1>11, LookRight DEF t
<1>13. QED BY <1>9, <1>12 DEF u

\* The stack without the component that starts with v.
LEMMA PopIs ==
  ASSUME Projected, NEW t, IsTarjan(t), TarjanTyped(t), TarjanOrdered(t), NEW v, v \in On(t)
  PROVE  LET p == PopSCC(t, v) IN
         /\ p = [index |-> t.index, indices |-> t.indices, low |-> t.low, stack |-> p.stack,
                 work |-> t.work, sccs |-> t.sccs \union {{x \in On(t) : t.indices[v] <= t.indices[x]}}]
         /\ On(p) = {x \in On(t) : t.indices[x] < t.indices[v]}
         /\ p.stack \in Seq(Docs) /\ Len(p.stack) <= Len(t.stack)
         /\ \A i \in 1..Len(p.stack) : p.stack[i] = t.stack[i]
<1> DEFINE s == t.stack
           at == CHOOSE i \in DOMAIN s : s[i] = v
           S == SubSeq(s, 1, at - 1)
           C == {s[i] : i \in at..Len(s)}
           D == {x \in On(t) : t.indices[v] <= t.indices[x]}
           p == PopSCC(t, v)
<1>1. s \in Seq(Docs) /\ Len(s) \in Nat /\ DOMAIN s = 1..Len(s)
  BY DEF TarjanTyped
<1>2. at \in 1..Len(s) /\ s[at] = v
  <2>1. \E i \in DOMAIN s : s[i] = v
    BY <1>1 DEF On
  <2>2. at \in DOMAIN s /\ s[at] = v
    BY <2>1
  <2> HIDE DEF at
  <2>3. QED BY <1>1, <2>2
<1> HIDE DEF at
<1>3. S \in Seq(Docs) /\ Len(S) = at - 1 /\ \A i \in 1..(at - 1) : S[i] = s[i] /\ i \in 1..Len(s)
  BY <1>1, <1>2
<1>4. \A i, j \in 1..Len(s) : i < j => t.indices[s[i]] < t.indices[s[j]]
  BY DEF TarjanOrdered
<1>5. \A i \in 1..Len(s) : t.indices[s[i]] \in Int
  BY <1>1 DEF TarjanTyped
<1>6. \A i \in 1..Len(s) : (t.indices[v] <= t.indices[s[i]] <=> at <= i) /\ (t.indices[s[i]] < t.indices[v] <=> i < at)
  <2> SUFFICES ASSUME NEW i \in 1..Len(s)
               PROVE  (t.indices[v] <= t.indices[s[i]] <=> at <= i) /\ (t.indices[s[i]] < t.indices[v] <=> i < at)
    OBVIOUS
  <2>1. i < at => t.indices[s[i]] < t.indices[v]
    BY <1>2, <1>4
  <2>2. at < i => t.indices[v] < t.indices[s[i]]
    BY <1>2, <1>4
  <2>3. t.indices[s[i]] \in Int /\ t.indices[v] \in Int
    BY <1>2, <1>5
  <2>4. QED BY <1>1, <1>2, <2>1, <2>2, <2>3
<1>7. C = D
  <2>1. ASSUME NEW x \in C PROVE x \in D
    <3>1. PICK i \in at..Len(s) : x = s[i]
      OBVIOUS
    <3>2. i \in 1..Len(s) /\ at <= i
      BY <1>1, <1>2
    <3>3. QED BY <1>6, <3>1, <3>2 DEF On
  <2>2. ASSUME NEW x \in D PROVE x \in C
    <3>1. PICK i \in 1..Len(s) : x = s[i]
      BY DEF On
    <3>2. at <= i
      BY <1>6, <2>2, <3>1
    <3>3. i \in at..Len(s)
      BY <1>1, <1>2, <3>2
    <3>4. QED BY <3>1, <3>3
  <2>3. QED BY <2>1, <2>2
<1>8. p = [index |-> t.index, indices |-> t.indices, low |-> t.low, stack |-> S,
           work |-> t.work, sccs |-> t.sccs \union {D}]
  <2>1. p = [t EXCEPT !.stack = S, !.sccs = t.sccs \union {C}]
    <3>1. t = [index |-> t.index, indices |-> t.indices, low |-> t.low, stack |-> s,
               work |-> t.work, sccs |-> t.sccs]
      BY DEF IsTarjan
    <3>2. QED BY <3>1 DEF PopSCC, at
  <2> DEFINE c == t.sccs \union {C}
  <2> HIDE DEF S, C, D, p, c
  <2>2. p = [t EXCEPT !.stack = S, !.sccs = c]
    BY <2>1 DEF c
  <2>3. p = [index |-> t.index, indices |-> t.indices, low |-> t.low, stack |-> S,
             work |-> t.work, sccs |-> c]
    BY <2>2 DEF IsTarjan
  <2>4. QED BY <1>7, <2>3 DEF c
<1> HIDE DEF D, S, p
<1>9. p.stack = S
  BY <1>8
<1>10. On(p) = {x \in On(t) : t.indices[x] < t.indices[v]}
  <2>1. ASSUME NEW x \in On(p) PROVE x \in On(t) /\ t.indices[x] < t.indices[v]
    <3>1. PICK i \in 1..(at - 1) : x = s[i]
      BY <1>3, <1>9 DEF On
    <3>2. i \in 1..Len(s) /\ i < at
      BY <1>2, <1>3
    <3>3. QED BY <1>6, <3>1, <3>2 DEF On
  <2>2. ASSUME NEW x \in On(t), t.indices[x] < t.indices[v] PROVE x \in On(p)
    <3>1. PICK i \in 1..Len(s) : x = s[i]
      BY DEF On
    <3>2. i < at
      BY <1>6, <2>2, <3>1
    <3>3. i \in 1..(at - 1)
      BY <1>1, <1>2, <3>2
    <3>4. QED BY <1>3, <1>9, <3>1, <3>3 DEF On
  <2>3. QED BY <2>1, <2>2
<1>11. Len(S) <= Len(s)
  BY <1>1, <1>2, <1>3
<1>12. \A i \in 1..Len(S) : S[i] = s[i]
  BY <1>3
<1>13. p = [index |-> t.index, indices |-> t.indices, low |-> t.low, stack |-> p.stack,
            work |-> t.work, sccs |-> t.sccs \union {{x \in On(t) : t.indices[v] <= t.indices[x]}}]
  BY <1>8, <1>9 DEF D
<1>14. p.stack \in Seq(Docs) /\ Len(p.stack) <= Len(s) /\ \A i \in 1..Len(p.stack) : p.stack[i] = s[i]
  BY <1>3, <1>9, <1>11, <1>12
<1> HIDE DEF s
<1>15. QED BY <1>10, <1>13, <1>14 DEF p, s

\* What Return makes of the search: without the last frame, c having been closed
\* or not, and with the low value handed to the frame below.
Handed(c, i) ==
  LET q == [c EXCEPT !.work = Front(@)] IN IF q.work = <<>> THEN q ELSE Lower(q, Last(q.work).v, i)

\* A frame that returns, field by field.
LEMMA ReturnIs ==
  ASSUME NEW c, IsTarjan(c), c.work \in Seq(Call), c.work # <<>>, c.low \in [Docs -> Int], NEW i \in Int
  PROVE  LET p == Gray(c, Len(c.work) - 1)
             u == Handed(c, i) IN
         /\ IsTarjan(u)
         /\ u.index = c.index /\ u.indices = c.indices /\ u.stack = c.stack /\ u.sccs = c.sccs
         /\ u.work \in Seq(Call) /\ Len(u.work) = Len(c.work) - 1
         /\ \A k \in 1..(Len(c.work) - 1) : u.work[k] = c.work[k]
         /\ u.low \in [Docs -> Int]
         /\ Len(c.work) = 1 => u.low = c.low
         /\ Len(c.work) > 1 => /\ u.low[p] = IF i < c.low[p] THEN i ELSE c.low[p]
                               /\ \A d \in Docs : d # p => u.low[d] = c.low[d]
<1> DEFINE p == Gray(c, Len(c.work) - 1)
           u == Handed(c, i)
           n == Len(c.work)
           F == Front(c.work)
           q == [c EXCEPT !.work = Front(@)]
<1>1. n \in Nat \ {0}
  OBVIOUS
<1>2. F \in Seq(Call) /\ Len(F) = n - 1 /\ \A k \in 1..(n - 1) : F[k] = c.work[k]
  BY <1>1 DEF Front
<1> HIDE DEF F
<1>3. q = [index |-> c.index, indices |-> c.indices, low |-> c.low, stack |-> c.stack,
           work |-> F, sccs |-> c.sccs]
  <2>1. q = [c EXCEPT !.work = F]
    <3>1. c = [index |-> c.index, indices |-> c.indices, low |-> c.low, stack |-> c.stack,
               work |-> c.work, sccs |-> c.sccs]
      BY DEF IsTarjan
    <3>2. QED BY <3>1 DEF F
  <2> HIDE DEF q
  <2>2. QED BY <2>1 DEF IsTarjan
<1>u. u = IF q.work = <<>> THEN q ELSE Lower(q, Last(q.work).v, i)
  BY DEF Handed
<1>p. p = Gray(c, n - 1)
  OBVIOUS
<1> HIDE DEF q, n, u, p
<1>4. /\ IsTarjan(q) /\ q.index = c.index /\ q.indices = c.indices /\ q.low = c.low
      /\ q.stack = c.stack /\ q.sccs = c.sccs /\ q.work = F
  BY <1>3 DEF IsTarjan
<1>5. CASE n = 1
  <2>1. F = <<>>
    BY <1>2, <1>5
  <2>2. u = q
    BY <1>4, <1>u, <2>1
  <2>3. /\ IsTarjan(u) /\ u.index = c.index /\ u.indices = c.indices /\ u.low = c.low
        /\ u.stack = c.stack /\ u.sccs = c.sccs /\ u.work = F
    BY <1>4, <2>2
  <2>4. n - 1 = 0 /\ ~(n > 1)
    BY <1>5
  <2>5. QED BY <1>2, <2>3, <2>4 DEF n, u, p
<1>6. CASE n > 1
  <2>1. F # <<>> /\ Last(F) = c.work[n - 1] /\ n - 1 \in 1..n
    BY <1>1, <1>2, <1>6 DEF Last
  <2>2. p \in Docs /\ Last(F).v = p
    <3>1. c.work[n - 1] \in Call
      BY <2>1 DEF n
    <3>2. QED BY <1>p, <2>1, <3>1 DEF Gray, Call
  <2>3. u = Lower(q, p, i)
    BY <1>4, <1>u, <2>1, <2>2
  <2>4. u = [index |-> q.index, indices |-> q.indices,
             low |-> [q.low EXCEPT ![p] = IF i < q.low[p] THEN i ELSE q.low[p]],
             stack |-> q.stack, work |-> q.work, sccs |-> q.sccs]
    BY <1>4, <2>2, <2>3, LowerIs
  <2> DEFINE l == [c.low EXCEPT ![p] = IF i < c.low[p] THEN i ELSE c.low[p]]
  <2>5. [q.low EXCEPT ![p] = IF i < q.low[p] THEN i ELSE q.low[p]] = l
    BY <1>4
  <2>6. /\ l \in [Docs -> Int] /\ l[p] = IF i < c.low[p] THEN i ELSE c.low[p]
        /\ \A d \in Docs : d # p => l[d] = c.low[d]
    BY <2>2
  <2> HIDE DEF l
  <2>7. /\ IsTarjan(u) /\ u.index = c.index /\ u.indices = c.indices /\ u.low = l
        /\ u.stack = c.stack /\ u.sccs = c.sccs /\ u.work = F
    BY <1>4, <2>4, <2>5 DEF IsTarjan
  <2>8. QED BY <1>2, <1>6, <2>6, <2>7 DEF n, u, p
<1>7. QED BY <1>1, <1>5, <1>6 DEF u, p

\* A frame that returns, with its component or without, keeps Tarjan's search right.
LEMMA ReturnStep ==
  ASSUME Projected, IsTarjan(tarjan), TarjanRight(tarjan), Return
  PROVE  IsTarjan(tarjan') /\ TarjanRight(tarjan')
<1> DEFINE t == tarjan
           n == Len(t.work)
           v == Top.v
           c == IF t.low[v] = t.indices[v] THEN PopSCC(t, v) ELSE t
           u == tarjan'
           p == Gray(t, n - 1)
<1>1. TarjanTyped(t) /\ TarjanOrdered(t)
  BY DEF TarjanRight
<1>2. t.work # <<>> /\ Top.next > Cardinality(Out(v))
  BY DEF Return
<1>3. u = Handed(c, t.low[v])
  BY DEF Return, Handed
<1>4. n \in Nat \ {0} /\ n \in 1..n /\ Top = t.work[n] /\ v = Gray(t, n) /\ v \in Docs /\ Top \in Call
  BY <1>1, <1>2, TopIs
<1>5. Out(v) \subseteq Taken(t.work[n])
  BY <1>2, <1>4, Taking
<1>6. /\ \A k \in 1..n : Gray(t, k) \in Docs /\ Gray(t, k) \in On(t) /\ t.low[Gray(t, k)] \in Int
      /\ \A x \in Docs : t.indices[x] \in Int
      /\ t.low \in [Docs -> Int] /\ t.work \in Seq(Call)
  BY <1>1, TarjanFacts DEF TarjanTyped
<1>7. v \in On(t)
  BY <1>4, <1>6
<1> DEFINE C == {x \in On(t) : t.indices[v] <= t.indices[x]}
<1>8. /\ IsTarjan(c) /\ c.index = t.index /\ c.indices = t.indices /\ c.low = t.low /\ c.work = t.work
      /\ t.low[v] # t.indices[v] => c.stack = t.stack /\ c.sccs = t.sccs
      /\ t.low[v] = t.indices[v] =>
           /\ On(c) = {x \in On(t) : t.indices[x] < t.indices[v]}
           /\ c.stack \in Seq(Docs) /\ Len(c.stack) <= Len(t.stack)
           /\ \A i \in 1..Len(c.stack) : c.stack[i] = t.stack[i]
           /\ c.sccs = t.sccs \union {C}
  <2>1. CASE t.low[v] = t.indices[v]
    <3> DEFINE r == PopSCC(t, v)
    <3>1. /\ r = [index |-> t.index, indices |-> t.indices, low |-> t.low, stack |-> r.stack,
                 work |-> t.work, sccs |-> t.sccs \union {C}]
          /\ On(r) = {x \in On(t) : t.indices[x] < t.indices[v]}
          /\ r.stack \in Seq(Docs) /\ Len(r.stack) <= Len(t.stack)
          /\ \A i \in 1..Len(r.stack) : r.stack[i] = t.stack[i]
      <4> HIDE DEF t, v
      <4>1. IsTarjan(t)
        BY DEF t
      <4>2. QED BY <1>1, <1>7, <4>1, PopIs
    <3>2. c = r
      BY <2>1
    <3> HIDE DEF r, c, C
    <3>3. IsTarjan(r) /\ r.index = t.index /\ r.indices = t.indices /\ r.low = t.low /\ r.work = t.work
          /\ r.sccs = t.sccs \union {C}
      BY <3>1 DEF IsTarjan
    <3>4. QED BY <2>1, <3>1, <3>2, <3>3
  <2>2. CASE t.low[v] # t.indices[v]
    BY <2>2
  <2>3. QED BY <2>1, <2>2
<1> HIDE DEF c, C
<1>9. /\ IsTarjan(u)
      /\ u.index = c.index /\ u.indices = c.indices /\ u.stack = c.stack /\ u.sccs = c.sccs
      /\ u.work \in Seq(Call) /\ Len(u.work) = n - 1 /\ \A k \in 1..(n - 1) : u.work[k] = c.work[k]
      /\ u.low \in [Docs -> Int]
      /\ n = 1 => u.low = c.low
      /\ n > 1 => /\ u.low[p] = IF t.low[v] < c.low[p] THEN t.low[v] ELSE c.low[p]
                  /\ \A d \in Docs : d # p => u.low[d] = c.low[d]
  <2>1. p = Gray(c, Len(c.work) - 1)
    BY <1>8 DEF Gray
  <2>2. c.work \in Seq(Call) /\ c.work # <<>> /\ c.low \in [Docs -> Int] /\ Len(c.work) = n
    BY <1>2, <1>6, <1>8
  <2>3. t.low[v] \in Int /\ IsTarjan(c)
    BY <1>4, <1>6, <1>8
  <2> DEFINE i == t.low[v]
  <2>4. u = Handed(c, i) /\ i \in Int
    BY <1>3, <2>3
  <2> HIDE DEF n, t, p, v, u, i
  <2>5. /\ IsTarjan(u)
        /\ u.index = c.index /\ u.indices = c.indices /\ u.stack = c.stack /\ u.sccs = c.sccs
        /\ u.work \in Seq(Call) /\ Len(u.work) = Len(c.work) - 1
        /\ \A k \in 1..(Len(c.work) - 1) : u.work[k] = c.work[k]
        /\ u.low \in [Docs -> Int]
        /\ Len(c.work) = 1 => u.low = c.low
        /\ Len(c.work) > 1 => /\ u.low[p] = IF i < c.low[p] THEN i ELSE c.low[p]
                              /\ \A d \in Docs : d # p => u.low[d] = c.low[d]
    <3>1. /\ c.work \in Seq(Call) /\ c.work # <<>> /\ c.low \in [Docs -> Int] /\ i \in Int /\ IsTarjan(c)
          /\ u = Handed(c, i) /\ p = Gray(c, Len(c.work) - 1)
      BY <2>1, <2>2, <2>3, <2>4
    <3> HIDE DEF c
    <3>2. QED BY <3>1, ReturnIs, Zenon
  <2>6. QED BY <2>2, <2>5 DEF i
<1> HIDE DEF u
<1>10. Leaves(t, u)
  <2> HIDE DEF t, n, v
  <2>1. Out(Gray(t, n)) \subseteq Taken(t.work[n]) /\ n > 0
    BY <1>4, <1>5
  <2>2. QED BY <1>8, <1>9, <2>1 DEF Leaves, n
<1>11. n > 1 => p \in Docs /\ t.low[p] \in Int
  <2>1. n > 1 => n - 1 \in 1..n
    BY <1>4
  <2>2. QED BY <1>6, <2>1
<1> HIDE DEF p
<1>12. CASE t.low[v] = t.indices[v]
  <2>1. u.low = t.low
    <3>1. CASE n = 1
      BY <1>8, <1>9, <3>1
    <3>2. CASE n > 1
      <4>1. n - 1 \in 1..n /\ n - 1 < n
        BY <1>4, <3>2
      <4>2. t.indices[p] < t.indices[v]
        BY <1>1, <1>4, <4>1 DEF TarjanOrdered, p
      <4>3. PICK y \in On(t) : t.indices[y] = t.low[p] /\ t.indices[y] <= t.indices[p]
        BY <4>1 DEF TarjanRight, TarjanLow, p
      <4>4. ~(t.low[v] < t.low[p])
        <5>1. t.indices[p] \in Int /\ t.indices[v] \in Int /\ t.low[p] \in Int
          BY <1>4, <1>6, <1>11, <3>2
        <5>2. QED BY <1>12, <4>2, <4>3, <5>1
      <4>5. \A d \in Docs : u.low[d] = t.low[d]
        BY <1>8, <1>9, <3>2, <4>4
      <4>6. QED BY <1>6, <1>9, <4>5
    <3> HIDE DEF n
    <3>3. QED BY <1>4, <3>1, <3>2
  <2>2. On(u) = On(c)
    BY <1>9 DEF On
  <2>3. Closes(t, u)
    <3> HIDE DEF t, n, v
    <3>1. v = Gray(t, Len(t.work))
      BY <1>4 DEF n
    <3>2. QED BY <1>8, <1>9, <1>10, <1>12, <2>1, <2>2, <3>1 DEF Closes, C
  <2>4. TarjanRight(u)
    <3> HIDE DEF v, n
    <3>1. QED BY <2>3, CloseRight
  <2>5. QED BY <1>9, <2>4 DEF u
<1>13. CASE t.low[v] # t.indices[v]
  <2>1. HandsDown(t, u)
    <3>1. n > 1 => /\ u.low[p] = IF t.low[v] < t.low[p] THEN t.low[v] ELSE t.low[p]
                   /\ \A d \in Docs : d # p => u.low[d] = t.low[d]
      BY <1>8, <1>9
    <3> HIDE DEF t, n, v
    <3>2. v = Gray(t, Len(t.work)) /\ n = Len(t.work) /\ p = Gray(t, n - 1)
      BY <1>4 DEF n, p
    <3>3. QED BY <1>8, <1>9, <1>10, <1>13, <3>1, <3>2 DEF HandsDown
  <2>2. TarjanRight(u)
    <3> HIDE DEF v, n
    <3>1. QED BY <2>1, HandDownRight
  <2>3. QED BY <1>9, <2>2 DEF u
<1>14. QED BY <1>12, <1>13

\* From the stage that starts it on, Tarjan's search is right; and at its end it is done.
TarjanInv ==
  /\ stage \notin Early => IsTarjan(tarjan) /\ TarjanRight(tarjan)
  /\ stage \notin Early \union {"weak", "strong"} => TarjanDone

\* A built graph is one the search may run on.
LEMMA BuiltProjected ==
  ASSUME IsBuilt
  PROVE  Projected
<1>1. Docs \in SUBSET Nat /\ IsFiniteSet(Docs)
  BY CorpusFacts DEF IsBuilt
<1>2. \A d \in Docs : Out(d) \subseteq Docs
  BY OutAndIn
<1>3. \A d \in Docs : IsFiniteSet(Out(d))
  BY <1>1, <1>2, FS_Subset
<1>4. QED BY <1>1, <1>2, <1>3 DEF Projected

\* What a right search is depends on inputs and graph.
LEMMA SameTarjan ==
  ASSUME given' = given, graph' = graph
  PROVE  NewTarjan' = NewTarjan /\ \A t : TarjanRight(t)' = TarjanRight(t)
<1>1. Docs' = Docs /\ Links' = Links /\ \A d : Out(d)' = Out(d)
  BY DEF given, Docs, Links, Out
<1>2. NewTarjan' = NewTarjan
  BY <1>1 DEF NewTarjan
<1>3. Reaches' = Reaches
  BY <1>1 DEF Reaches, Reachable, Closed
<1>4. \A f : Taken(f)' = Taken(f)
  BY <1>1 DEF Taken
<1>5. \A t : Seen(t)' = Seen(t)
  BY <1>1 DEF Seen
<1>6. \A d : Class(d)' = Class(d)
  BY <1>1, <1>3 DEF Class
<1>7. \A t : TarjanTyped(t)' = TarjanTyped(t)
  BY <1>1 DEF TarjanTyped, Call
<1>8. \A t : TarjanOrdered(t)' = TarjanOrdered(t)
  BY <1>1, <1>5 DEF TarjanOrdered
<1>9. \A t : TarjanShut(t)' = TarjanShut(t)
  BY <1>1, <1>6 DEF TarjanShut
<1>10. \A t : TarjanMet(t)' = TarjanMet(t)
  BY <1>1, <1>4, <1>5 DEF TarjanMet
<1>11. \A t : TarjanStrong(t)' = TarjanStrong(t)
  BY <1>3 DEF TarjanStrong
<1>12. ASSUME NEW t PROVE TarjanLow(t)' <=> TarjanLow(t)
  <2> DEFINE Leads(k) == \E y \in On(t) : /\ t.indices[y] = t.low[Gray(t, k)] /\ t.indices[y] <= t.indices[Gray(t, k)]
                                          /\ <<Gray(t, k), y>> \in Reaches
             Looked(k, x, w) == Within(t, k, x) /\ w \in Out(x) /\ (x = Gray(t, k) => w \in Taken(t.work[k]))
                                => t.low[Gray(t, k)] <= t.indices[w]
  <2>1. \A k : Leads(k)' <=> Leads(k)
    BY <1>3
  <2>2. \A k, x, w : Looked(k, x, w)' <=> Looked(k, x, w)
    BY <1>1, <1>4
  <2>3. TarjanLow(t) <=> \A k \in 1..Len(t.work) : Leads(k) /\ \A x \in On(t), w \in On(t) : Looked(k, x, w)
    BY DEF TarjanLow
  <2>4. TarjanLow(t)' <=> \A k \in 1..Len(t.work) : Leads(k)' /\ \A x \in On(t), w \in On(t) : Looked(k, x, w)'
    BY DEF TarjanLow
  <2> HIDE DEF Leads, Looked
  <2>5. QED BY <2>1, <2>2, <2>3, <2>4
<1>13. QED BY <1>2, <1>7, <1>8, <1>9, <1>10, <1>11, <1>12 DEF TarjanRight

\* A new search is right.
LEMMA TarjanStarts ==
  IsTarjan(NewTarjan) /\ TarjanRight(NewTarjan)
<1> DEFINE t == NewTarjan
           none == [d \in Docs |-> -1]
<1>1. t = [index |-> 0, indices |-> none, low |-> none, stack |-> <<>>, work |-> <<>>, sccs |-> {}]
  BY DEF NewTarjan
<1>2. none \in [Docs -> Int] /\ \A d \in Docs : none[d] = -1
  OBVIOUS
<1> HIDE DEF none, t
<1>3. /\ IsTarjan(t) /\ t.index = 0 /\ t.indices = none /\ t.low = none /\ t.stack = <<>>
      /\ t.work = <<>> /\ t.sccs = {}
  BY <1>1 DEF IsTarjan
<1>4. Len(t.work) = 0 /\ Len(t.stack) = 0 /\ 1..0 = {}
  BY <1>3
<1>5. On(t) = {} /\ Seen(t) = {} /\ Shut(t) = {}
  BY <1>2, <1>3, <1>4 DEF On, Seen, Shut
<1>6. TarjanTyped(t)
  BY <1>2, <1>3 DEF TarjanTyped
<1>7. TarjanOrdered(t)
  <2>1. \A d \in Docs : t.indices[d] = -1
    BY <1>2, <1>3
  <2>2. /\ \A k \in 1..Len(t.work) : FALSE
        /\ \A k \in 1..Len(t.stack) : FALSE
    BY <1>4
  <2>3. QED BY <1>5, <2>1, <2>2 DEF TarjanOrdered
<1>8. TarjanShut(t) /\ TarjanMet(t) /\ TarjanStrong(t) /\ TarjanLow(t)
  BY <1>3, <1>4, <1>5 DEF TarjanShut, TarjanMet, TarjanStrong, TarjanLow
<1>9. QED BY <1>3, <1>6, <1>7, <1>8 DEF TarjanRight, t

\* Tarjan's search is right in every step of a run.
LEMMA TarjanInvStep ==
  ASSUME BaseInv, TarjanInv, [Next]_vars
  PROVE  TarjanInv'
<1>1. given' = given
  BY DEF Next, vars, ResolveReferences, BuildGraph, StartComponents, WeakStep, WeakDone,
    StrongStep, StrongDone, SearchDistances, SearchPaths, Measure, CriticalSteps, CriticalEnds,
    PageRank, TrailStep, TrailsEnd, Terminating
<1>2. CASE ResolveReferences \/ BuildGraph
  BY <1>2 DEF TarjanInv, Early, ResolveReferences, BuildGraph
<1>3. CASE StartComponents
  <2>1. graph' = graph /\ tarjan' = NewTarjan /\ stage' = "weak"
    BY <1>3 DEF StartComponents
  <2>2. IsTarjan(tarjan') /\ TarjanRight(tarjan')
    BY <2>1, TarjanStarts
  <2>3. QED BY <1>1, <2>1, <2>2, SameTarjan DEF TarjanInv, IsTarjan
<1>4. CASE StrongStep
  <2>1. stage = "strong" /\ stage' = "strong" /\ graph' = graph /\ (StrongConnect \/ Descend \/ BackEdge \/ Return)
    BY <1>4 DEF StrongStep
  <2>2. IsTarjan(tarjan) /\ TarjanRight(tarjan)
    BY <2>1 DEF TarjanInv, Early
  <2>3. Projected
    BY <2>1, BuiltGraph, BuiltProjected
  <2>4. IsTarjan(tarjan') /\ TarjanRight(tarjan')
    BY <2>1, <2>2, <2>3, ConnectStep, DescendStep, BackStep, ReturnStep
  <2>5. QED BY <1>1, <2>1, <2>4, SameTarjan DEF TarjanInv, IsTarjan
<1>5. CASE ~(ResolveReferences \/ BuildGraph \/ StartComponents \/ StrongStep)
  <2>1. /\ tarjan' = tarjan /\ graph' = graph
        /\ stage' \notin Early => stage \notin Early
        /\ stage' \notin Early \union {"weak", "strong"} =>
             stage \notin Early \union {"weak", "strong"} \/ TarjanDone
    <3>1. CASE UNCHANGED vars
      BY <3>1 DEF vars, search
    <3>2. CASE WeakStep
      BY <3>2 DEF WeakStep, Union, Early
    <3>3. CASE WeakDone \/ StrongDone
      BY <3>3 DEF WeakDone, StrongDone, search, Early
    <3>4. CASE SearchDistances \/ SearchPaths \/ Measure \/ CriticalSteps \/ CriticalEnds
               \/ PageRank \/ TrailStep \/ TrailsEnd \/ Terminating
      BY <3>4 DEF Early, vars, search, SearchDistances, SearchPaths, Measure, CriticalSteps,
        CriticalEnds, PageRank, TrailStep, TrailsEnd, Terminating
    <3>5. QED BY <1>5, <3>1, <3>2, <3>3, <3>4 DEF Next
  <2>2. stage' \notin Early => IsTarjan(tarjan') /\ TarjanRight(tarjan')
    BY <2>1 DEF TarjanInv
  <2>3. TarjanDone => TarjanDone'
    BY <1>1, <2>1 DEF TarjanDone, Unset, Docs, given
  <2>4. QED BY <1>1, <2>1, <2>2, <2>3, SameTarjan DEF TarjanInv, IsTarjan
<1>6. QED BY <1>2, <1>3, <1>4, <1>5

\* What a search from some documents finds is the least set that holds them and
\* that no link leads out of: as many rounds as there are documents are enough,
\* because every round that finds something new finds one document at least.
LEMMA BfsIsLeast ==
  ASSUME IsFiniteSet(Docs), NEW adj, \A d \in Docs : adj[d] \subseteq Docs, NEW seeds \in SUBSET Docs
  PROVE  LET found == BfsFrom(seeds, adj) IN
         /\ found \in SUBSET Docs /\ seeds \subseteq found /\ \A x \in found : adj[x] \subseteq found
         /\ \A s \in SUBSET Docs : seeds \subseteq s /\ (\A x \in s : adj[x] \subseteq s) => found \subseteq s
<1> DEFINE n == Cardinality(Docs)
           ball == Ball(adj, seeds)
           found == BfsFrom(seeds, adj)
           IsShut(s) == \A x \in s : adj[x] \subseteq s
<1>1. /\ n \in Nat /\ ball \in [0..n -> SUBSET Docs] /\ ball[0] = seeds
      /\ \A k \in 1..n : ball[k] = ball[k - 1] \union UNION {adj[d] : d \in ball[k - 1]}
  BY BallOf
<1>2. found = ball[n]
  BY DEF BfsFrom, Ball
<1> HIDE DEF ball, found
<1>3. \A k \in 1..n : /\ k - 1 \in 0..n /\ k \in 0..n /\ ball[k - 1] \in SUBSET Docs /\ ball[k] \in SUBSET Docs
                      /\ ball[k - 1] \subseteq ball[k]
  BY <1>1
<1>4. \A k \in 0..n : ball[k] \in SUBSET Docs /\ IsFiniteSet(ball[k]) /\ Cardinality(ball[k]) \in Nat
  BY <1>1, FS_Subset, FS_CardinalityType
<1> DEFINE P == {k \in 0..n : seeds \subseteq ball[k] /\ (IsShut(ball[k]) \/ k <= Cardinality(ball[k]))}
<1>5. P \in SUBSET Nat /\ 0 \in P
  BY <1>1, <1>4
<1>6. ASSUME NEW k \in 1..n, k - 1 \in P PROVE k \in P
  <2> DEFINE A == ball[k - 1]
             B == ball[k]
  <2>1. B = A \union UNION {adj[d] : d \in A} /\ A \subseteq B /\ seeds \subseteq A
        /\ (IsShut(A) \/ k - 1 <= Cardinality(A))
    BY <1>1, <1>3, <1>6
  <2>2. /\ IsFiniteSet(B) /\ Cardinality(A) \in Nat /\ Cardinality(B) \in Nat
    BY <1>3, <1>4
  <2> HIDE DEF A, B
  <2>3. CASE A = B
    <3>1. IsShut(B)
      BY <2>1, <2>3
    <3>2. QED BY <1>3, <2>1, <3>1 DEF B
  <2>4. CASE A # B
    <3>1. ~IsShut(A)
      BY <2>1, <2>4
    <3>2. Cardinality(A) < Cardinality(B)
      <4>1. Cardinality(A) <= Cardinality(B) /\ Cardinality(A) # Cardinality(B)
        BY <2>1, <2>2, <2>4, FS_Subset
      <4>2. QED BY <2>2, <4>1
    <3>3. k <= Cardinality(B)
      BY <1>1, <2>1, <2>2, <3>1, <3>2
    <3>4. QED BY <1>3, <2>1, <3>3 DEF B
  <2>5. QED BY <2>3, <2>4
<1>7. n \in P
  <2>1. n \in Nat /\ P \in SUBSET Nat /\ 0 \in P /\ \A k \in 1..n : k - 1 \in P => k \in P
    BY <1>1, <1>5, <1>6
  <2> HIDE DEF P, n, IsShut
  <2>2. 0..n \subseteq P
    BY <2>1, Upward
  <2>3. n \in 0..n
    BY <2>1
  <2>4. QED BY <2>2, <2>3
<1>8. IsShut(found) /\ seeds \subseteq found /\ found \in SUBSET Docs
  <2>1. n \in 0..n
    BY <1>1
  <2>2. CASE n <= Cardinality(found)
    <3>1. found \in SUBSET Docs /\ Cardinality(found) <= n
      BY <1>2, <1>4, <2>1, FS_Subset
    <3>2. Cardinality(found) = Cardinality(Docs)
      BY <1>1, <1>2, <1>4, <2>1, <2>2, <3>1
    <3>3. found = Docs
      BY <3>1, <3>2, FS_Subset
    <3>4. QED BY <1>2, <1>7, <3>3
  <2>3. CASE ~(n <= Cardinality(found))
    BY <1>2, <1>4, <1>7, <2>1, <2>3
  <2>4. QED BY <2>2, <2>3
<1>9. ASSUME NEW s \in SUBSET Docs, seeds \subseteq s, IsShut(s) PROVE found \subseteq s
  <2> DEFINE Q == {k \in 0..n : ball[k] \subseteq s}
  <2>1. Q \in SUBSET Nat /\ 0 \in Q
    BY <1>1, <1>9
  <2>2. \A k \in 1..n : k - 1 \in Q => k \in Q
    BY <1>1, <1>3, <1>9
  <2>3. n \in Nat /\ n \in 0..n
    BY <1>1
  <2> HIDE DEF Q, n, IsShut
  <2>4. 0..n \subseteq Q
    BY <2>1, <2>2, <2>3, Upward
  <2>5. n \in Q
    BY <2>3, <2>4
  <2>6. QED BY <1>2, <2>5 DEF Q
<1>10. QED BY <1>8, <1>9 DEF found

\* The bow-tie's two searches from a class, and the class itself.
LEMMA BowTie ==
  ASSUME IsBuilt, NEW m \in Docs
  PROVE  \A d \in Docs : /\ d \in BfsFrom(Class(m), graph.out) <=> <<m, d>> \in Reaches
                         /\ d \in BfsFrom(Class(m), graph.in) <=> <<d, m>> \in Reaches
<1>1. Projected /\ IsFiniteSet(Docs)
  BY BuiltProjected, CorpusFacts DEF IsBuilt
<1> DEFINE core == Class(m)
<1>2. m \in core /\ core \in SUBSET Docs
  BY <1>1, Reaching DEF Class
<1>3. \A x \in core : <<m, x>> \in Reaches /\ <<x, m>> \in Reaches
  BY DEF Class
<1> HIDE DEF core
<1>4. ASSUME NEW d \in Docs PROVE d \in BfsFrom(core, graph.out) <=> <<m, d>> \in Reaches
  <2> DEFINE B == BfsFrom(core, graph.out)
             s == {y \in Docs : <<m, y>> \in Reaches}
  <2>1. \A x \in Docs : graph.out[x] \subseteq Docs /\ graph.out[x] = Out(x)
    BY OutAndIn DEF Out
  <2>2. /\ B \in SUBSET Docs /\ core \subseteq B /\ \A x \in B : Out(x) \subseteq B
        /\ \A z \in SUBSET Docs : core \subseteq z /\ (\A x \in z : Out(x) \subseteq z) => B \subseteq z
    <3> DEFINE adj == graph.out
    <3>1. \A x \in Docs : adj[x] \subseteq Docs /\ adj[x] = Out(x)
      BY <2>1
    <3>2. B = BfsFrom(core, adj)
      OBVIOUS
    <3> HIDE DEF adj, B
    <3>3. /\ B \in SUBSET Docs /\ core \subseteq B /\ \A x \in B : adj[x] \subseteq B
          /\ \A z \in SUBSET Docs : core \subseteq z /\ (\A x \in z : adj[x] \subseteq z) => B \subseteq z
      BY <1>1, <1>2, <3>1, <3>2, BfsIsLeast
    <3>4. QED BY <3>1, <3>3
  <2> HIDE DEF B
  <2>3. s \in SUBSET Docs /\ core \subseteq s
    BY <1>2, <1>3
  <2>4. \A x \in s : Out(x) \subseteq s
    BY <1>1, Reaching DEF Projected
  <2>5. d \in B => <<m, d>> \in Reaches
    <3>1. B \subseteq s
      <4> HIDE DEF s
      <4>1. QED BY <2>2, <2>3, <2>4
    <3>2. QED BY <3>1
  <2>6. <<m, d>> \in Reaches => d \in B
    BY <1>1, <1>2, <2>2, Reaching
  <2>7. QED BY <2>5, <2>6 DEF B
<1>5. ASSUME NEW d \in Docs PROVE d \in BfsFrom(core, graph.in) <=> <<d, m>> \in Reaches
  <2> DEFINE B == BfsFrom(core, graph.in)
             s == {y \in Docs : <<y, m>> \in Reaches}
             T == Docs \ B
  <2>1. \A x \in Docs : graph.in[x] \subseteq Docs /\ graph.in[x] = In(x)
    BY OutAndIn DEF In
  <2>2. /\ B \in SUBSET Docs /\ core \subseteq B /\ \A x \in B : In(x) \subseteq B
        /\ \A z \in SUBSET Docs : core \subseteq z /\ (\A x \in z : In(x) \subseteq z) => B \subseteq z
    <3> DEFINE adj == graph.in
    <3>1. \A x \in Docs : adj[x] \subseteq Docs /\ adj[x] = In(x)
      BY <2>1
    <3>2. B = BfsFrom(core, adj)
      OBVIOUS
    <3> HIDE DEF adj, B
    <3>3. /\ B \in SUBSET Docs /\ core \subseteq B /\ \A x \in B : adj[x] \subseteq B
          /\ \A z \in SUBSET Docs : core \subseteq z /\ (\A x \in z : adj[x] \subseteq z) => B \subseteq z
      BY <1>1, <1>2, <3>1, <3>2, BfsIsLeast
    <3>4. QED BY <3>1, <3>3
  <2> HIDE DEF B
  <2>3. s \in SUBSET Docs /\ core \subseteq s
    BY <1>2, <1>3
  <2>4. ASSUME NEW x \in s, NEW y \in In(x) PROVE y \in s
    <3>1. y \in Docs /\ x \in Docs /\ x \in Out(y) /\ <<x, m>> \in Reaches
      BY <2>4, OutAndIn
    <3>2. QED BY <1>1, <3>1, Reaching
  <2>5. d \in B => <<d, m>> \in Reaches
    <3>1. B \subseteq s
      <4>1. \A x \in s : In(x) \subseteq s
        BY <2>4
      <4> HIDE DEF s
      <4>2. QED BY <2>2, <2>3, <4>1
    <3>2. QED BY <3>1
  <2>6. ASSUME NEW x \in T, NEW y \in Out(x) PROVE y \in T
    <3>1. x \in Docs /\ y \in Docs /\ x \in In(y)
      BY OutAndIn
    <3>2. y \in B => x \in B
      BY <2>2, <3>1
    <3>3. QED BY <2>6, <3>1, <3>2
  <2>7. <<d, m>> \in Reaches => d \in B
    <3> SUFFICES ASSUME <<d, m>> \in Reaches, d \in T PROVE FALSE
      OBVIOUS
    <3>1. T \in SUBSET Docs /\ \A x \in T : Out(x) \subseteq T
      BY <2>6
    <3>2. m \notin T
      BY <1>2, <2>2
    <3> HIDE DEF T
    <3>3. QED BY <1>1, <3>1, <3>2, Reaching
  <2>8. QED BY <2>5, <2>7 DEF B
<1>6. QED BY <1>4, <1>5 DEF core

\* When Tarjan's search is done, what it closed are the classes of reachability.
LEMMA StrongExact ==
  ASSUME Projected, TarjanRight(tarjan), TarjanDone
  PROVE  /\ SCC = {Class(d) : d \in Docs}
         /\ SCC = Classes(Docs, {p \in Reaches : <<p[2], p[1]>> \in Reaches})
<1>1. \A k \in 1..Len(tarjan.work) : FALSE
  BY DEF TarjanDone
<1>2. On(tarjan) = {}
  BY <1>1 DEF TarjanRight, TarjanStrong
<1>3. Shut(tarjan) = Docs
  BY <1>2 DEF TarjanRight, TarjanOrdered, TarjanDone, Unset, Seen
<1>4. \A c \in SCC : c \in SUBSET Docs /\ \E d \in c : c = Class(d)
  BY DEF TarjanRight, TarjanShut, TarjanTyped, SCC
<1>5. ASSUME NEW d \in Docs PROVE Class(d) \in SCC
  <2>1. PICK c \in SCC : d \in c
    BY <1>3 DEF Shut, SCC
  <2>2. PICK e \in c : c = Class(e)
    BY <1>4
  <2>3. d \in Docs /\ e \in Docs /\ <<e, d>> \in Reaches /\ <<d, e>> \in Reaches
    BY <1>4, <2>1, <2>2 DEF Class
  <2>4. ASSUME NEW x \in Docs PROVE x \in Class(d) <=> x \in Class(e)
    BY <2>3, <2>4, Reaching DEF Class
  <2>5. Class(d) = Class(e)
    BY <2>4 DEF Class
  <2>6. QED BY <2>1, <2>2, <2>5
<1>6. SCC = {Class(d) : d \in Docs}
  BY <1>4, <1>5
<1>7. ASSUME NEW d \in Docs
      PROVE  Class(d) = {e \in Docs : <<d, e>> \in {p \in Reaches : <<p[2], p[1]>> \in Reaches}}
  <2>1. \A e \in Docs : <<d, e>>[1] = d /\ <<d, e>>[2] = e
    OBVIOUS
  <2>2. \A e \in Docs : <<d, e>> \in {p \in Reaches : <<p[2], p[1]>> \in Reaches}
                          <=> <<d, e>> \in Reaches /\ <<e, d>> \in Reaches
    BY <2>1
  <2>3. QED BY <2>2 DEF Class
<1>8. QED BY <1>6, <1>7 DEF Classes

\* A class holds those it shares a document with, and no others.
LEMMA ClassOf ==
  ASSUME Projected
  PROVE  /\ \A d \in Docs : d \in Class(d) /\ Class(d) \in SUBSET Docs
         /\ \A d, e \in Docs : e \in Class(d) => Class(e) = Class(d)
<1>1. \A d \in Docs : d \in Class(d) /\ Class(d) \in SUBSET Docs
  BY Reaching DEF Class
<1>2. ASSUME NEW d \in Docs, NEW e \in Docs, e \in Class(d) PROVE Class(e) = Class(d)
  <2>1. <<e, d>> \in Reaches /\ <<d, e>> \in Reaches
    BY <1>2 DEF Class
  <2>2. ASSUME NEW x \in Docs PROVE x \in Class(d) <=> x \in Class(e)
    BY <2>1, <2>2, Reaching DEF Class
  <2>3. QED BY <2>2 DEF Class
<1>3. QED BY <1>1, <1>2

\* The representative of a component stands for it.
LEMMA RepOf ==
  ASSUME Projected, SCC = {Class(d) : d \in Docs}
  PROVE  /\ \A c \in SCC : c \in SUBSET Docs /\ c # {} /\ Min(c) \in c /\ Min(c) \in Docs /\ c = Class(Min(c))
         /\ \A d \in Docs : ComponentOf(SCC, d) = Class(d)
<1>1. ASSUME NEW c \in SCC
      PROVE  c \in SUBSET Docs /\ c # {} /\ Min(c) \in c /\ Min(c) \in Docs /\ c = Class(Min(c))
  <2>1. PICK d \in Docs : c = Class(d)
    BY <1>1
  <2>2. c \in SUBSET Docs /\ c # {} /\ c \in SUBSET Nat
    BY <2>1, ClassOf DEF Projected
  <2>3. Min(c) \in c
    BY <2>2, MinOf
  <2>4. QED BY <2>1, <2>2, <2>3, ClassOf
<1>2. ASSUME NEW d \in Docs PROVE ComponentOf(SCC, d) = Class(d)
  <2>1. Class(d) \in SCC /\ d \in Class(d)
    BY ClassOf
  <2>2. \A c \in SCC : d \in c => c = Class(d)
    BY ClassOf
  <2>3. QED BY <2>1, <2>2 DEF ComponentOf
<1>3. QED BY <1>1, <1>2

\* The condensation has no cycle: a component does not reach the one it is linked from.
LEMMA CondensationIsAcyclic ==
  ASSUME IsBuilt, SCC = {Class(d) : d \in Docs}
  PROVE  \A c \in SCC : \A r \in CondAdj(Min(c)) : <<r, Min(c)>> \notin Reaches
<1>1. Projected
  BY BuiltProjected
<1> SUFFICES ASSUME NEW c \in SCC, NEW r \in CondAdj(Min(c)), <<r, Min(c)>> \in Reaches PROVE FALSE
  OBVIOUS
<1> DEFINE m == Min(c)
<1>2. c \in SUBSET Docs /\ m \in c /\ m \in Docs /\ c = Class(m) /\ ComponentOf(SCC, m) = c
  BY <1>1, RepOf
<1>3. r # m /\ \E e \in Links : e[1] \in c /\ r = Min(ComponentOf(SCC, e[2]))
  BY <1>2 DEF CondAdj
<1>4. PICK e \in Links : e[1] \in c /\ r = Min(ComponentOf(SCC, e[2]))
  BY <1>3
<1>5. e[1] \in Docs /\ e[2] \in Docs /\ e[2] \in Out(e[1])
  BY <1>1 DEF Links, Projected
<1>6. Class(e[2]) \in SCC /\ r = Min(Class(e[2])) /\ r \in Class(e[2]) /\ r \in Docs
  BY <1>1, <1>4, <1>5, RepOf
<1>7. <<m, e[1]>> \in Reaches /\ <<e[1], e[2]>> \in Reaches /\ <<e[2], r>> \in Reaches
  BY <1>1, <1>2, <1>4, <1>5, <1>6, Reaching DEF Class
<1>8. <<m, r>> \in Reaches
  <2> DEFINE a == e[1]
             b == e[2]
  <2>1. /\ m \in Docs /\ a \in Docs /\ b \in Docs /\ r \in Docs
        /\ <<m, a>> \in Reaches /\ <<a, b>> \in Reaches /\ <<b, r>> \in Reaches
    BY <1>2, <1>5, <1>6, <1>7
  <2>2. \A x, y, z \in Docs : <<x, y>> \in Reaches /\ <<y, z>> \in Reaches => <<x, z>> \in Reaches
    BY <1>1, Reaching
  <2> HIDE DEF m, a, b
  <2>3. QED BY <2>1, <2>2
<1>9. r \in Class(m)
  BY <1>6, <1>8 DEF Class
<1>10. Class(e[2]) = Class(m)
  BY <1>1, <1>2, <1>5, <1>6, <1>9, ClassOf
<1>11. QED BY <1>2, <1>3, <1>6, <1>10

\* The order of pickGiantSCC has a first.
LEMMA GiantIsLargest ==
  ASSUME IsBuilt, SCC = {Class(d) : d \in Docs}, Docs # {}
  PROVE  GiantSCC \in SCC /\ \A c \in SCC : Cardinality(c) <= Cardinality(GiantSCC)
<1>1. Projected /\ IsFiniteSet(Docs)
  BY BuiltProjected, CorpusFacts DEF IsBuilt
<1> DEFINE size(c) == Cardinality(c)
           Larger(o, c) == size(o) > size(c) \/ (size(o) = size(c) /\ Min(o) < Min(c))
           R == {p \in SCC \X SCC : Larger(p[1], p[2])}
<1>2. \A c \in SCC : size(c) \in Nat /\ Min(c) \in Nat /\ c = Class(Min(c))
  BY <1>1, RepOf, FS_Subset, FS_CardinalityType DEF Projected
<1>3. \A o, c \in SCC : <<o, c>> \in R <=> Larger(o, c)
  OBVIOUS
<1>4. \A o, c \in SCC : o # c => Larger(o, c) \/ Larger(c, o)
  BY <1>2
<1>5. Irreflexive(R) /\ Transitive(SCC, R)
  <2>1. \A x, y : <<x, y>> \in R => x \in SCC /\ y \in SCC
    OBVIOUS
  <2>2. \A x \in SCC : ~Larger(x, x)
    BY <1>2
  <2>3. \A x, y, z \in SCC : Larger(x, y) /\ Larger(y, z) => Larger(x, z)
    BY <1>2
  <2> HIDE DEF R, Larger
  <2>4. QED BY <1>3, <2>1, <2>2, <2>3 DEF Irreflexive, Transitive
<1>6. IsFiniteSet(SCC) /\ SCC # {}
  <2>1. SCC \subseteq SUBSET Docs
    BY <1>1, RepOf
  <2>2. IsFiniteSet(SUBSET Docs)
    BY <1>1, FS_SUBSET
  <2>3. QED BY <2>1, <2>2, FS_Subset
<1>7. PICK x \in SCC : \A y \in SCC : <<y, x>> \notin R
  <2> HIDE DEF R
  <2>1. QED BY <1>5, <1>6, FirstOne
<1>8. \A o \in SCC \ {x} : size(o) < size(x) \/ (size(o) = size(x) /\ Min(x) < Min(o))
  BY <1>2, <1>3, <1>4, <1>7
<1>9. /\ GiantSCC \in SCC
      /\ \A o \in SCC \ {GiantSCC} :
           size(o) < size(GiantSCC) \/ (size(o) = size(GiantSCC) /\ Min(GiantSCC) < Min(o))
  BY <1>8 DEF GiantSCC
<1>10. QED BY <1>2, <1>9

\* The roots of union-find are the classes of being connected.
LEMMA WeakExact ==
  ASSUME IsBuilt, Unites, uf.todo = {}
  PROVE  /\ \A a, b \in Docs : Find(uf.parent, a) = Find(uf.parent, b)
                                 <=> <<a, b>> \in Reachable(Docs, Both(Links))
         /\ WCC = Classes(Docs, Reachable(Docs, Both(Links)))
         /\ \A d \in Docs : ComponentOf(WCC, d) = {e \in Docs : <<e, d>> \in Reachable(Docs, Both(Links))}
<1> DEFINE F(d) == Find(uf.parent, d)
           touches == Reachable(Docs, Both(Links))
<1>1. Given /\ IsFiniteSet(Docs) /\ IsForest(uf.parent)
  BY CorpusFacts DEF IsBuilt, Unites
<1>2. \A d \in Docs : F(d) \in Docs /\ uf.parent[F(d)] = F(d)
  BY <1>1, FindOf
<1>3. \A a, b \in Docs : F(a) = F(b) <=> <<a, b>> \in touches
  BY <1>1, SharedRoot
<1>4. ASSUME NEW r \in Docs, uf.parent[r] = r PROVE F(r) = r
  <2>1. F(r) \in {r}
    <3> DEFINE U == {r}
    <3>1. r \in U /\ \A y \in Docs : y \in U => uf.parent[y] \in U
      BY <1>4
    <3> HIDE DEF U
    <3>2. F(r) \in U
      BY <1>1, <3>1, FindOf
    <3>3. QED BY <3>2 DEF U
  <2>2. QED BY <2>1
<1> DEFINE Class2(d) == {e \in Docs : <<d, e>> \in touches}
           Under2(r) == {d \in Docs : F(d) = r}
<1> HIDE DEF F, touches
<1>5. \A d \in Docs : Class2(d) = Under2(F(d))
  BY <1>3
<1>6. WCC = {Under2(r) : r \in {d \in Docs : uf.parent[d] = d}}
  BY DEF WCC, F
<1>7. WCC = {Class2(d) : d \in Docs}
  <2> DEFINE roots == {d \in Docs : uf.parent[d] = d}
  <2>1. \A r \in roots : r \in Docs /\ F(r) = r
    BY <1>4
  <2>2. \A d \in Docs : F(d) \in roots
    BY <1>2
  <2>3. WCC = {Under2(r) : r \in roots}
    BY <1>6
  <2> HIDE DEF roots, Under2, Class2
  <2>4. QED BY <1>5, <2>1, <2>2, <2>3
<1>8. ASSUME NEW d \in Docs PROVE ComponentOf(WCC, d) = {e \in Docs : <<e, d>> \in touches}
  <2>1. Class2(d) \in WCC /\ d \in Class2(d)
    BY <1>3, <1>7
  <2>2. ASSUME NEW c \in WCC, d \in c PROVE c = Class2(d)
    <3>1. PICK x \in Docs : c = Class2(x)
      BY <1>7
    <3>2. <<x, d>> \in touches
      BY <2>2, <3>1
    <3>3. QED BY <1>3, <3>1, <3>2
  <2>3. ComponentOf(WCC, d) = Class2(d)
    BY <2>1, <2>2 DEF ComponentOf
  <2>4. Class2(d) = {e \in Docs : <<e, d>> \in touches}
    BY <1>3
  <2>5. QED BY <2>3, <2>4
<1>9. QED BY <1>3, <1>7, <1>8 DEF Classes, F, touches

\* The bow-tie is that of the components, once it is read off them.
BowtieInv == stage \in {"critical", "rank", "trails"} => report.bowtie = ClassifyBowtie

\* The bow-tie depends on inputs, graph and components.
LEMMA SameBowtie ==
  ASSUME given' = given, graph' = graph, uf' = uf, tarjan' = tarjan
  PROVE  ClassifyBowtie' = ClassifyBowtie
<1>1. Docs' = Docs /\ SCC' = SCC
  BY DEF given, Docs, SCC
<1>2. WCC' = WCC
  BY SMT, <1>1 DEF WCC, Find, Way
<1>3. GiantSCC' = GiantSCC
  BY <1>1 DEF GiantSCC
<1>4. \A s, adj : BfsFrom(s, adj)' = BfsFrom(s, adj)
  BY <1>1 DEF BfsFrom
<1>5. \A d : ComponentOf(WCC, d)' = ComponentOf(WCC, d)
  BY <1>2 DEF ComponentOf
<1>6. BfsFrom(GiantSCC, graph.in)' = BfsFrom(GiantSCC, graph.in)
      /\ BfsFrom(GiantSCC, graph.out)' = BfsFrom(GiantSCC, graph.out)
  BY <1>1, <1>3 DEF BfsFrom
<1>7. ComponentOf(WCC, Min(GiantSCC))' = ComponentOf(WCC, Min(GiantSCC))
  BY <1>2, <1>3 DEF ComponentOf
<1>8. QED BY SMT, <1>1, <1>3, <1>6, <1>7 DEF ClassifyBowtie

\* The bow-tie of the report is that of the components.
LEMMA BowtieStep ==
  ASSUME BowtieInv, [Next]_vars
  PROVE  BowtieInv'
<1>1. CASE Measure
  <2>1. /\ report'.bowtie = ClassifyBowtie
        /\ given' = given /\ graph' = graph /\ uf' = uf /\ tarjan' = tarjan
    BY <1>1 DEF Measure
  <2>2. QED BY <2>1, SameBowtie DEF BowtieInv
<1>2. CASE ~Measure
  <2>1. CASE stage' \in {"critical", "rank", "trails"}
    <3>1. /\ stage \in {"critical", "rank", "trails"} /\ report' = report
          /\ given' = given /\ graph' = graph /\ uf' = uf /\ tarjan' = tarjan
      BY <1>2, <2>1 DEF Next, vars, search, ResolveReferences, BuildGraph, StartComponents, WeakStep,
        WeakDone, StrongStep, StrongDone, SearchDistances, SearchPaths, CriticalSteps,
        CriticalEnds, PageRank, TrailStep, TrailsEnd, Terminating
    <3>2. QED BY <3>1, SameBowtie DEF BowtieInv
  <2>2. QED BY <2>1 DEF BowtieInv
<1>3. QED BY <1>1, <1>2

\* Whatever the order of links, the two searches find the components of reachability,
\* and the bow-tie the documents of each side of the largest.
LEMMA ComponentsHold ==
  ASSUME BaseInv, UfInv, TarjanInv, BowtieInv
  PROVE  ComponentsAreExact
<1> SUFFICES ASSUME Measured PROVE ComponentsAreExact
  BY DEF ComponentsAreExact
<1> DEFINE touches == Reachable(Docs, Both(Links))
           core    == GiantSCC
           m       == Min(core)
<1>1. stage = "rank"
  BY DEF Measured
<1>2. IsBuilt /\ Unites /\ uf.todo = {} /\ TarjanRight(tarjan) /\ TarjanDone /\ report.bowtie = ClassifyBowtie
  BY <1>1, BuiltGraph DEF UfInv, TarjanInv, BowtieInv, Early
<1>3. Projected
  BY <1>2, BuiltProjected
<1>4. SCC = {Class(d) : d \in Docs} /\ SCC = Classes(Docs, {p \in Reaches : <<p[2], p[1]>> \in Reaches})
  BY <1>2, <1>3, StrongExact
<1>5. WCC = Classes(Docs, touches)
  BY <1>2, WeakExact
<1>6. \A c \in SCC : \A r \in CondAdj(Min(c)) : <<r, Min(c)>> \notin Reaches
  BY <1>2, <1>4, CondensationIsAcyclic
<1>7. Docs # {} => core \in SCC /\ \A c \in SCC : Cardinality(c) <= Cardinality(core)
  BY <1>2, <1>4, GiantIsLargest
<1>8. \A c \in SCC : Cardinality(c) <= Cardinality(core)
  BY <1>4, <1>7
<1>9. ASSUME NEW d \in Docs
      PROVE  LET to   == <<d, m>> \in Reaches
                 from == <<m, d>> \in Reaches IN
             report.bowtie[d] =
               CASE to /\ from   -> "core"
                 [] to /\ ~from  -> "in"
                 [] ~to /\ from  -> "out"
                 [] ~to /\ ~from -> IF <<d, m>> \in touches THEN "tendril" ELSE "disconnected"
  <2> DEFINE to   == <<d, m>> \in Reaches
             from == <<m, d>> \in Reaches
  <2>1. m \in Docs /\ core = Class(m)
    BY <1>3, <1>4, <1>7, RepOf
  <2>2. d \in core <=> to /\ from
    BY <2>1 DEF Class
  <2>3. (d \in BfsFrom(core, graph.in) <=> to) /\ (d \in BfsFrom(core, graph.out) <=> from)
    <3> HIDE DEF m, core
    <3>1. QED BY <1>2, <2>1, BowTie
  <2>4. d \in ComponentOf(WCC, m) <=> <<d, m>> \in touches
    <3> HIDE DEF m, core
    <3>1. QED BY <1>2, <2>1, WeakExact
  <2>5. report.bowtie[d] =
          IF d \in core THEN "core"
          ELSE IF d \in BfsFrom(core, graph.in) THEN "in"
          ELSE IF d \in BfsFrom(core, graph.out) THEN "out"
          ELSE IF d \in ComponentOf(WCC, m) THEN "tendril" ELSE "disconnected"
    BY <1>2 DEF ClassifyBowtie
  <2> HIDE DEF to, from, core, m, touches
  <2>6. QED BY <2>2, <2>3, <2>4, <2>5 DEF to, from
<1>10. QED BY <1>4, <1>5, <1>6, <1>8, <1>9 DEF ComponentsAreExact
=============================================================================
