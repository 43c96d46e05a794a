----------------------------- MODULE Components -----------------------------
(***************************************************************************)
(* Weak components by union-find, strong components by Tarjan's algorithm  *)
(* on an explicit stack (components.go), and what is read off them: the    *)
(* condensation, the bow-tie (bowtie.go) and the gaps (gaps.go).           *)
(*                                                                         *)
(* A component is the set of its members; its ID is the least of them.     *)
(***************************************************************************)
EXTENDS ReferenceGraph

CONSTANT MaxGaps  \* the cap of gaps.go

VARIABLES
  uf,     \* union-find: parent, size, and the links not yet looked at
  tarjan  \* index, indices, low (-1 is unset), stack, work, sccs

Out(d) == graph.out[d]
In(d)  == graph.in[d]
Links  == {e \in Docs \X Docs : e[2] \in Out(e[1])}

-----------------------------------------------------------------------------
(* WeaklyConnectedComponents.                                              *)

NewUnionFind ==
  [parent |-> [d \in Docs |-> d], size |-> [d \in Docs |-> 1], todo |-> Links]

\* The documents on the way from x to the root of its tree.
Way(parent, x) ==
  LET way[i \in 0..Cardinality(Docs)] == IF i = 0 THEN x ELSE parent[way[i - 1]] IN
  {way[i] : i \in DOMAIN way}

Find(parent, x) == CHOOSE r \in Way(parent, x) : parent[r] = r

\* Links are looked at in the order of their documents.
FirstLink(links) ==
  CHOOSE e \in links :
    \A f \in links : e[1] < f[1] \/ (e[1] = f[1] /\ e[2] <= f[2])

\* The second loop of find, for both ends: all on the way point to the root.
Compressed(a, b) ==
  LET way == Way(uf.parent, a) \union Way(uf.parent, b) IN
  [d \in Docs |-> IF d \in way THEN Find(uf.parent, d) ELSE uf.parent[d]]

\* Mutant of Union: a link inside a component is not marked as seen.
UnionRepeats ==
  /\ uf.todo # {}
  /\ LET e  == FirstLink(uf.todo)
         ra == Find(uf.parent, e[1])
         rb == Find(uf.parent, e[2]) IN
     uf' = IF ra = rb THEN uf
           ELSE [parent |-> [Compressed(e[1], e[2]) EXCEPT ![rb] = ra],
                 size   |-> [uf.size EXCEPT ![ra] = @ + uf.size[rb]],
                 todo   |-> uf.todo \ {e}]
  /\ UNCHANGED tarjan

\* One link: union by size, below the lesser root where sizes are equal.
Union ==
  /\ uf.todo # {}
  /\ LET e     == FirstLink(uf.todo)
         ra    == Find(uf.parent, e[1])
         rb    == Find(uf.parent, e[2])
         keepB == uf.size[ra] < uf.size[rb] \/ (uf.size[ra] = uf.size[rb] /\ rb < ra)
         root  == IF keepB THEN rb ELSE ra
         child == IF keepB THEN ra ELSE rb IN
     uf' = [parent |-> [Compressed(e[1], e[2]) EXCEPT ![child] = root],
            size   |-> IF ra = rb THEN uf.size
                       ELSE [uf.size EXCEPT ![root] = @ + uf.size[child]],
            todo   |-> uf.todo \ {e}]
  /\ UNCHANGED tarjan

WCC ==
  {{d \in Docs : Find(uf.parent, d) = r} : r \in {d \in Docs : uf.parent[d] = d}}

-----------------------------------------------------------------------------
(* StronglyConnectedComponents.                                            *)

NewTarjan ==
  [index |-> 0, indices |-> [d \in Docs |-> -1], low |-> [d \in Docs |-> -1],
   stack |-> <<>>, work |-> <<>>, sccs |-> {}]

Unset(v) == tarjan.indices[v] = -1

Visit(t, v) ==
  [t EXCEPT !.indices[v] = t.index, !.low[v] = t.index, !.index = @ + 1,
            !.stack = Append(@, v), !.work = Append(@, [v |-> v, next |-> 1])]

Lower(t, v, i) == [t EXCEPT !.low[v] = IF i < @ THEN i ELSE @]

Top == Last(tarjan.work)
Advanced == [tarjan EXCEPT !.work[Len(tarjan.work)].next = @ + 1]
Neighbour == Sorted(Out(Top.v))[Top.next]

\* The sorted driver takes the next document no search has seen.
StrongConnect ==
  /\ tarjan.work = <<>>
  /\ \E v \in Docs :
       /\ Unset(v) /\ \A u \in Docs : u < v => ~Unset(u)
       /\ tarjan' = Visit(tarjan, v)
  /\ UNCHANGED uf

Descend ==
  /\ tarjan.work # <<>> /\ Top.next <= Cardinality(Out(Top.v)) /\ Unset(Neighbour)
  /\ tarjan' = Visit(Advanced, Neighbour)
  /\ UNCHANGED uf

\* A visited neighbour matters only while it is on the stack.
BackEdge ==
  /\ tarjan.work # <<>> /\ Top.next <= Cardinality(Out(Top.v)) /\ ~Unset(Neighbour)
  /\ tarjan' = IF Contains(tarjan.stack, Neighbour)
               THEN Lower(Advanced, Top.v, tarjan.indices[Neighbour]) ELSE Advanced
  /\ UNCHANGED uf

PopSCC(t, v) ==
  LET at == CHOOSE i \in DOMAIN t.stack : t.stack[i] = v IN
  [t EXCEPT !.stack = SubSeq(@, 1, at - 1),
            !.sccs = @ \union {{t.stack[i] : i \in at..Len(t.stack)}}]

\* All neighbours seen: close the component, and hand low to the parent.
Return ==
  /\ tarjan.work # <<>> /\ Top.next > Cardinality(Out(Top.v))
  /\ LET v      == Top.v
         closed == IF tarjan.low[v] = tarjan.indices[v] THEN PopSCC(tarjan, v) ELSE tarjan
         popped == [closed EXCEPT !.work = Front(@)] IN
     tarjan' = IF popped.work = <<>> THEN popped
               ELSE Lower(popped, Last(popped.work).v, tarjan.low[v])
  /\ UNCHANGED uf

TarjanDone == tarjan.work = <<>> /\ \A v \in Docs : ~Unset(v)

SCC == tarjan.sccs

ComponentOf(comps, d) == CHOOSE c \in comps : d \in c

-----------------------------------------------------------------------------
(* Condensation, ClassifyBowtie, DetectGaps.                               *)

\* The successors of a strong component, by their representatives.
CondAdj(rep) ==
  {Min(ComponentOf(SCC, e[2])) : e \in {f \in Links : f[1] \in ComponentOf(SCC, rep)}} \ {rep}

\* pickGiantSCC: the largest, of those the one of the least ID.
GiantSCC ==
  CHOOSE c \in SCC : \A o \in SCC \ {c} :
    Cardinality(o) < Cardinality(c) \/ (Cardinality(o) = Cardinality(c) /\ Min(c) < Min(o))

\* bfsFrom: what the seeds reach.
BfsFrom(seeds, adj) ==
  LET reached[k \in 0..Cardinality(Docs)] ==
        IF k = 0 THEN seeds
        ELSE LET last == reached[k - 1] IN last \union UNION {adj[d] : d \in last}
  IN  reached[Cardinality(Docs)]

ClassifyBowtie ==
  LET core == GiantSCC IN
  [d \in Docs |->
     IF d \in core THEN "core"
     ELSE IF d \in BfsFrom(core, graph.in) THEN "in"
     ELSE IF d \in BfsFrom(core, graph.out) THEN "out"
     ELSE IF d \in ComponentOf(WCC, Min(core)) THEN "tendril" ELSE "disconnected"]

\* Pairs of components that are large enough, the first MaxGaps in order.
DetectGaps(minSize) ==
  LET kept  == {c \in WCC : Cardinality(c) >= IF minSize < 2 THEN 2 ELSE minSize}
      pairs == {<<Min(a), Min(b)>> : a, b \in kept}
      gaps  == {p \in pairs : p[1] < p[2]}
      Before(p) == {q \in gaps : q[1] < p[1] \/ (q[1] = p[1] /\ q[2] < p[2])}
  IN  [gaps |-> {p \in gaps : Cardinality(Before(p)) < MaxGaps},
       truncated |-> Cardinality(gaps) > MaxGaps]
=============================================================================
