------------------------- MODULE CriticalStructure --------------------------
(***************************************************************************)
(* ComputeCriticalStructure (articulation.go): documents and links without *)
(* which the undirected graph falls apart, by one depth-first search per   *)
(* component on an explicit stack.                                         *)
(***************************************************************************)
EXTENDS ReferenceGraph

VARIABLE ab  \* disc, low (-1 is unset), counter, work, aps, bridges

NewCritical ==
  [disc |-> [d \in Docs |-> -1], low |-> [d \in Docs |-> -1], counter |-> 0,
   work |-> <<>>, aps |-> {}, bridges |-> {}]

\* The parent is skipped once: 0 is no parent, or one already skipped.
AbFrame(v, parent) == [v |-> v, parent |-> parent, next |-> 1, children |-> 0]

Discover(s, v, parent) ==
  [s EXCEPT !.disc[v] = s.counter, !.low[v] = s.counter, !.counter = @ + 1,
            !.work = Append(@, AbFrame(v, parent))]

AbTop  == Last(ab.work)
AbNext == Sorted(Neighbours(AbTop.v))[AbTop.next]
AbMore == ab.work # <<>> /\ AbTop.next <= Cardinality(Neighbours(AbTop.v))
AbAdvanced == [ab EXCEPT !.work[Len(ab.work)].next = @ + 1]

AbRoot ==
  /\ ab.work = <<>>
  /\ \E v \in Docs :
       /\ ab.disc[v] = -1 /\ \A u \in Docs : u < v => ab.disc[u] # -1
       /\ ab' = Discover(ab, v, 0)

\* Mutant of AbSkipParent: the link to the parent counts as a back edge.
AbSeeParent ==
  /\ AbMore /\ AbNext = AbTop.parent
  /\ ab' = [AbAdvanced EXCEPT !.low[AbTop.v] = ab.disc[AbNext]]

AbSkipParent ==
  /\ AbMore /\ AbNext = AbTop.parent
  /\ ab' = [AbAdvanced EXCEPT !.work[Len(ab.work)].parent = 0]

AbDescend ==
  /\ AbMore /\ AbNext # AbTop.parent /\ ab.disc[AbNext] = -1
  /\ ab' = Discover([AbAdvanced EXCEPT !.work[Len(ab.work)].children = @ + 1], AbNext, AbTop.v)

AbBackEdge ==
  /\ AbMore /\ AbNext # AbTop.parent /\ ab.disc[AbNext] # -1
  /\ ab' = [AbAdvanced EXCEPT !.low[AbTop.v] =
                                IF ab.disc[AbNext] < @ THEN ab.disc[AbNext] ELSE @]

AbReturnRoot ==
  /\ Len(ab.work) = 1 /\ ~AbMore
  /\ ab' = [ab EXCEPT !.work = <<>>,
                      !.aps = IF AbTop.children >= 2 THEN @ \union {AbTop.v} ELSE @]

\* The finished frame hands low to its parent p; p cuts it off if nothing below
\* reaches above p, and a bridge leads to it if nothing reaches p itself.
AbReturn ==
  /\ Len(ab.work) > 1 /\ ~AbMore
  /\ LET work == Front(ab.work)
         v    == AbTop.v
         p    == Last(work).v IN
     ab' = [ab EXCEPT
       !.work    = work,
       !.low[p]  = IF ab.low[v] < @ THEN ab.low[v] ELSE @,
       !.aps     = IF Len(work) > 1 /\ ab.low[v] >= ab.disc[p] THEN @ \union {p} ELSE @,
       !.bridges = IF ab.low[v] > ab.disc[p] THEN @ \union {{p, v}} ELSE @]

CriticalStep ==
  AbRoot \/ AbSkipParent \/ AbDescend \/ AbBackEdge \/ AbReturnRoot \/ AbReturn

CriticalDone == ab.work = <<>> /\ \A v \in Docs : ab.disc[v] # -1
=============================================================================
