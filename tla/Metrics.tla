------------------------------ MODULE Metrics -------------------------------
(***************************************************************************)
(* The measures that are functions of the projection: suggested links      *)
(* (linkprediction.go), navigability (navigability.go) and betweenness     *)
(* (apsp.go, centrality.go).  A float is the exact fraction it stands for, *)
(* as a numerator and a denominator, or as a multiple of 1/Scale.          *)
(***************************************************************************)
EXTENDS ReferenceGraph

CONSTANTS
  MaxFanout,  \* a document with more neighbours is no common neighbour
  MaxSuggestedLinks,
  Weight,     \* number of neighbours -> one over its logarithm, as a multiple
  Scale       \* a multiple of all divisors met: path counts, k(k - 1)

VARIABLE bfs  \* source -> what its search found: dist, around, sigma

\* The number of documents.
Size == Cardinality(Docs)

-----------------------------------------------------------------------------
(* PredictLinks.                                                           *)

Hubs == {c \in Docs : Cardinality(Neighbours(c)) > MaxFanout}

Linked(a, b) == b \in graph.out[a] \/ a \in graph.out[b]

\* The documents that count a and b as a pair of theirs.
Shared(a, b) == {c \in Docs \ Hubs : {a, b} \subseteq Neighbours(c)}

Suggestion(a, b) ==
  [a |-> a, b |-> b, shared |-> Cardinality(Shared(a, b)),
   adamicAdar |-> SumFunction([c \in Shared(a, b) |-> Weight[Cardinality(Neighbours(c))]]),
   coupling   |-> Cardinality(graph.out[a] \intersect graph.out[b]),
   cocitation |-> Cardinality(graph.in[a] \intersect graph.in[b])]

Candidates ==
  {Suggestion(p[1], p[2]) :
     p \in {q \in Docs \X Docs : /\ q[1] < q[2] /\ ~Linked(q[1], q[2])
                                 /\ Cardinality(Shared(q[1], q[2])) >= config.minShared}}

\* The rank: by score, common neighbours, then the pair.
Above(s, t) ==
  \/ s.adamicAdar > t.adamicAdar
  \/ /\ s.adamicAdar = t.adamicAdar
     /\ \/ s.shared > t.shared
        \/ /\ s.shared = t.shared
           /\ (s.a < t.a \/ (s.a = t.a /\ s.b < t.b))

PredictLinks ==
  LET all == Candidates IN
  [suggestions |-> {s \in all : Cardinality({t \in all : Above(t, s)}) < MaxSuggestedLinks},
   truncated   |-> Hubs # {} \/ Cardinality(all) > MaxSuggestedLinks]

-----------------------------------------------------------------------------
(* ForEachSourceDistances and ForEachSourceBFS: a search from every source.*)

\* From one source: the distance of every document it reaches, itself included.
Distances(adj, src) ==
  LET ball[k \in 0..Size] ==
        IF k = 0 THEN {src}
        ELSE LET last == ball[k - 1] IN last \union UNION {adj[d] : d \in last}
  IN  [d \in ball[Size] |-> Min({k \in 0..Size : d \in ball[k]})]

\* Along links, and in either direction.
ForEachSourceDistances ==
  /\ bfs' = [dist   |-> [s \in Docs |-> Distances(graph.out, s)],
             around |-> LET adj == [d \in Docs |-> Neighbours(d)] IN
                        [s \in Docs |-> Distances(adj, s)],
             sigma  |-> <<>>]

Preds(src, w) ==
  {v \in DOMAIN bfs.dist[src] : v \in graph.in[w] /\ bfs.dist[src][w] = bfs.dist[src][v] + 1}

\* The number of shortest paths from the source.
Sigma(src) ==
  LET sigma[v \in DOMAIN bfs.dist[src]] ==
        IF v = src THEN 1 ELSE MapThenSumSet(LAMBDA u : sigma[u], Preds(src, v))
  IN  sigma

ForEachSourceBFS == bfs' = [bfs EXCEPT !.sigma = [s \in Docs |-> Sigma(s)]]

-----------------------------------------------------------------------------
(* ComputeNavigability.                                                    *)

\* The sum over ordered pairs of different documents, a pair without a path
\* being charged so much.
SumDistances(pairs, charge) ==
  MapThenSumSet(LAMBDA p : IF p[2] \in DOMAIN bfs.dist[p[1]] THEN bfs.dist[p[1]][p[2]] ELSE charge,
                {p \in pairs : p[1] # p[2]})

Abs(x) == IF x < 0 THEN -x ELSE x

Compactness ==
  LET pairs == Size * Size - Size IN
  [num |-> pairs * Size - SumDistances(Docs \X Docs, Size), den |-> pairs * (Size - 1)]

\* In-status less out-status over the pairs with a path, and the cap at one.
Stratum ==
  LET Status(d) == SumDistances(Docs \X {d}, 0) - SumDistances({d} \X Docs, 0)
      ap  == MapThenSumSet(LAMBDA d : Abs(Status(d)), Docs)
      lap == (Size * Size) \div 2 IN
  [num |-> IF ap > lap THEN lap ELSE ap, den |-> lap]

\* How many ordered pairs are d apart, whatever the direction of links.
Histogram ==
  [d \in 1..Size |->
     MapThenSumSet(LAMBDA s : Cardinality({t \in DOMAIN bfs.around[s] : bfs.around[s][t] = d}),
                   Docs)]

\* The distance of the pair of that rank.
RankDistance(counts, rank) ==
  Min({d \in DOMAIN counts : MapThenSumSet(LAMBDA k : counts[k], 1..d) >= rank})

PathLengths ==
  LET counts == Histogram
      total  == MapThenSumSet(LAMBDA d : counts[d], DOMAIN counts) IN
  IF total = 0 THEN [weighted |-> 0, twiceMedian |-> 0, diameter |-> 0, reachable |-> 0]
  ELSE [weighted    |-> MapThenSumSet(LAMBDA d : d * counts[d], DOMAIN counts),
        twiceMedian |-> RankDistance(counts, (total + 1) \div 2)
                        + RankDistance(counts, total \div 2 + 1),
        diameter    |-> Max({d \in DOMAIN counts : counts[d] > 0}),
        reachable   |-> total]

\* The sum of the local coefficients, times Scale, and how many there are.
Clustering ==
  LET counted == {v \in Docs : Cardinality(Neighbours(v)) >= 2}
      Local(v) ==
        LET nv == Neighbours(v)
            k  == Cardinality(nv) IN
        (Scale * MapThenSumSet(LAMBDA u : Cardinality(Neighbours(u) \intersect nv), nv))
          \div (k * (k - 1))
  IN  [sum |-> MapThenSumSet(Local, counted), counted |-> Cardinality(counted)]

-----------------------------------------------------------------------------
(* ComputeBetweenness: Brandes' accumulation, from the farthest documents  *)
(* of a search back to its source; times Scale, before normalization.      *)

\* Mutant of Dependency: a path is counted for the documents inside it only.
DependencyInside(src) ==
  LET sigma == bfs.sigma[src]
      delta[v \in DOMAIN sigma] ==
        MapThenSumSet(LAMBDA w : (sigma[v] * delta[w]) \div sigma[w],
                      {w \in DOMAIN sigma : v \in Preds(src, w)})
  IN  delta

Dependency(src) ==
  LET sigma == bfs.sigma[src]
      delta[v \in DOMAIN sigma] ==
        MapThenSumSet(LAMBDA w : (sigma[v] * (Scale + delta[w])) \div sigma[w],
                      {w \in DOMAIN sigma : v \in Preds(src, w)})
  IN  delta

Betweenness ==
  LET delta == [s \in Docs |-> Dependency(s)] IN
  [v \in Docs |->
     IF Size < 3 THEN 0
     ELSE MapThenSumSet(LAMBDA s : IF v \in DOMAIN delta[s] THEN delta[s][v] ELSE 0,
                        Docs \ {v})]
=============================================================================
