------------------------------- MODULE Trails -------------------------------
(***************************************************************************)
(* ComputeTrails (trails.go): for each weak component a reading order, a   *)
(* priority-first topological order of its strong components.  PageRank is *)
(* any assignment of scores: the order must not depend on how it came to   *)
(* be, and ties must not matter.                                           *)
(***************************************************************************)
EXTENDS Components

VARIABLES
  rank,  \* document -> PageRank score
  trail  \* the component at work: indeg, frontier, order; and trails done

\* By score, the highest first; the lesser identity where scores are equal.
Before(a, b) == rank[a] > rank[b] \/ (rank[a] = rank[b] /\ a < b)

\* sortByPageRankDesc.
ByRank(S) ==
  [i \in 1..Cardinality(S) |-> CHOOSE x \in S : Cardinality({y \in S : Before(y, x)}) = i - 1]

HighestPageRank(S) == ByRank(S)[1]

\* maxMemberPageRank of the component a representative stands for.
MaxRank(rep) == Max({rank[m] : m \in ComponentOf(SCC, rep)})

Reps(comp) == {Min(c) : c \in {s \in SCC : s \subseteq comp}}

Trailed == {t.comp : t \in trail.done}

NewTrail == [comp |-> {}, indeg |-> <<>>, frontier |-> {}, order |-> <<>>, done |-> {}]

TrailStarts ==
  /\ trail.comp = {} /\ WCC # Trailed
  /\ \E comp \in WCC \ Trailed :
       /\ \A c \in WCC \ Trailed : Min(comp) <= Min(c)
       /\ LET reps  == Reps(comp)
              indeg == [r \in reps |-> Cardinality({s \in reps : r \in CondAdj(s)})] IN
          trail' = [trail EXCEPT !.comp = comp, !.indeg = indeg, !.order = <<>>,
                                 !.frontier = {r \in reps : indeg[r] = 0}]

\* The head of the sorted frontier.
FirstOf(frontier) ==
  CHOOSE r \in frontier : \A s \in frontier \ {r} :
    MaxRank(r) > MaxRank(s) \/ (MaxRank(r) = MaxRank(s) /\ r < s)

\* Mutant of TrailTakes: a successor is free as soon as it was seen once.
TrailTakesEarly ==
  /\ trail.frontier # {}
  /\ LET rep == FirstOf(trail.frontier)
         free == {s \in CondAdj(rep) : trail.indeg[s] > 0} IN
     trail' = [trail EXCEPT
       !.order    = @ \o ByRank(ComponentOf(SCC, rep)),
       !.indeg    = [s \in DOMAIN @ |-> IF s \in free THEN 0 ELSE @[s]],
       !.frontier = (@ \ {rep}) \union free]

TrailTakes ==
  /\ trail.frontier # {}
  /\ LET rep   == FirstOf(trail.frontier)
         indeg == [s \in DOMAIN trail.indeg |->
                     trail.indeg[s] - IF s \in CondAdj(rep) THEN 1 ELSE 0] IN
     trail' = [trail EXCEPT
       !.order    = @ \o ByRank(ComponentOf(SCC, rep)),
       !.indeg    = indeg,
       !.frontier = (@ \ {rep}) \union {s \in CondAdj(rep) : indeg[s] = 0}]

TrailEnds ==
  /\ trail.comp # {} /\ trail.frontier = {}
  /\ trail' = [trail EXCEPT
       !.comp = {}, !.indeg = <<>>, !.order = <<>>,
       !.done = @ \union {[comp |-> trail.comp, order |-> trail.order,
                           root |-> HighestPageRank(trail.comp)]}]

TrailsDone == trail.comp = {} /\ Trailed = WCC
=============================================================================
