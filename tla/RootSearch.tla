----------------------------- MODULE RootSearch -----------------------------
(***************************************************************************)
(* The search both reachability and hop distances are read from, and the   *)
(* classification that follows it: rootDistances, ComputeReachability,     *)
(* ComputeHopsFromRoot and DetectOrphans                                   *)
(* (internal/domain/graphmodel: hops.go, orphans.go, roots.go).            *)
(*                                                                         *)
(* Documents are numbers in DocumentID order.  The projection is any graph *)
(* without self-loops, which is what buildProjection leaves.               *)
(***************************************************************************)
EXTENDS Integers, Sequences, FiniteSets

CONSTANTS
  Docs,                  \* the sorted documents of the frozen corpus
  RootSets,              \* root sets ResolveRootSet may return
  IntentionalSets,       \* sets of documents marked orphan-intentional
  InboundThreshold,      \* OrphanOptions.InboundThreshold as configured
  FarThreshold,          \* FarFromRootThreshold as configured
  DefaultInbound,        \* DefaultInboundThreshold (3 in the code)
  DefaultFar             \* DefaultFarFromRootThreshold (6 in the code)

ASSUME RootSearchAssumption ==
  /\ Docs \subseteq Nat /\ IsFiniteSet(Docs)
  /\ RootSets \subseteq SUBSET Docs /\ IntentionalSets \subseteq SUBSET Docs
  /\ {InboundThreshold, FarThreshold} \subseteq Int
  /\ {DefaultInbound, DefaultFar} \subseteq Nat \ {0}

VARIABLES
  links,        \* the edges of the document projection
  roots,        \* RootSet.Roots
  intentional,  \* IntentionalOrphans(c)
  pc,           \* "seed", "search", "visit" or "done"
  dist,         \* the distance map: reached document -> hops
  queue,        \* the FIFO, never shortened
  head,         \* documents dequeued so far
  rest          \* roots still to seed, or neighbours still to look at

searchVars == <<links, roots, intentional, pc, dist, queue, head, rest>>

Projections == {e \in SUBSET (Docs \X Docs) : \A d \in Docs : <<d, d>> \notin e}

Out(d) == {n \in Docs : <<d, n>> \in links}    \* projAdj
In(d)  == {n \in Docs : <<n, d>> \in links}    \* projRev

Indeterminate == roots = {}
Reached       == DOMAIN dist

-----------------------------------------------------------------------------
SearchInit ==
  /\ links \in Projections
  /\ roots \in RootSets /\ intentional \in IntentionalSets
  /\ pc = IF roots = {} THEN "done" ELSE "seed"
  /\ dist = <<>> /\ queue = <<>> /\ head = 0
  /\ rest = roots

\* A sorted loop over rest reaches d next.
ComesNext(d) == d \in rest /\ \A e \in rest : d <= e

\* Mutant of Discover: a zero distance passes for no entry.
DiscoverAgain(d, hops) ==
  IF d \in Reached /\ dist[d] # 0 THEN UNCHANGED <<dist, queue>>
  ELSE /\ dist' = [e \in Reached \union {d} |-> IF e = d THEN hops ELSE dist[e]]
       /\ queue' = Append(queue, d)

Discover(d, hops) ==
  IF d \in Reached THEN UNCHANGED <<dist, queue>>
  ELSE /\ dist' = [e \in Reached \union {d} |-> IF e = d THEN hops ELSE dist[e]]
       /\ queue' = Append(queue, d)

Seed ==
  /\ pc = "seed"
  /\ \E r \in Docs : ComesNext(r) /\ Discover(r, 0) /\ rest' = rest \ {r}
  /\ UNCHANGED <<links, roots, intentional, pc, head>>

Seeded ==
  /\ pc = "seed" /\ rest = {}
  /\ pc' = "search"
  /\ UNCHANGED <<links, roots, intentional, dist, queue, head, rest>>

Dequeue ==
  /\ pc = "search" /\ head < Len(queue)
  /\ head' = head + 1
  /\ rest' = Out(queue[head + 1])
  /\ pc' = "visit"
  /\ UNCHANGED <<links, roots, intentional, dist, queue>>

Visit ==
  /\ pc = "visit"
  /\ \E n \in Docs :
       ComesNext(n) /\ Discover(n, dist[queue[head]] + 1) /\ rest' = rest \ {n}
  /\ UNCHANGED <<links, roots, intentional, pc, head>>

Visited ==
  /\ pc = "visit" /\ rest = {}
  /\ pc' = "search"
  /\ UNCHANGED <<links, roots, intentional, dist, queue, head, rest>>

Exhausted ==
  /\ pc = "search" /\ head = Len(queue)
  /\ pc' = "done"
  /\ UNCHANGED <<links, roots, intentional, dist, queue, head, rest>>

SearchTerminating == pc = "done" /\ UNCHANGED searchVars

SearchNext ==
  Seed \/ Seeded \/ Dequeue \/ Visit \/ Visited \/ Exhausted \/ SearchTerminating

SearchSpec == SearchInit /\ [][SearchNext]_searchVars

-----------------------------------------------------------------------------
(* What Analyze reports once the map is complete.                          *)

\* A threshold of zero or less means the default.
Normalized(threshold, default) == IF threshold <= 0 THEN default ELSE threshold

Unreached == IF Indeterminate THEN {} ELSE Docs \ Reached

\* structureExemptSet
Exempt == roots \union intentional

\* ComputeHopsFromRoot
FarFromRoot ==
  {d \in Reached \ Exempt : dist[d] >= Normalized(FarThreshold, DefaultFar)}

\* DetectOrphans: one structure bucket at most, by priority.
Degree(S) == Cardinality(S)

Isolated    == {d \in Docs \ Exempt : Degree(In(d)) = 0 /\ Degree(Out(d)) = 0}
DeadEnd     == {d \in Docs \ Exempt : Degree(Out(d)) = 0} \ Isolated
UnderLinked == {d \in Docs \ Exempt :
                  Degree(In(d)) < Normalized(InboundThreshold, DefaultInbound)}
               \ (Isolated \union DeadEnd)

\* Mutant of Unreachable: an isolated document is reported a second time.
UnreachableToo == Unreached \ intentional

Unreachable == Unreached \ (intentional \union Isolated)

-----------------------------------------------------------------------------
\* The distance map is a map from documents to hops and the queue holds
\* documents; the head never runs past the end of it.
SearchTypeOK ==
  /\ links \in Projections /\ roots \in RootSets /\ intentional \in IntentionalSets
  /\ pc \in {"seed", "search", "visit", "done"}
  /\ Reached \subseteq Docs /\ dist \in [Reached -> Nat]
  /\ queue \in Seq(Docs) /\ head \in 0..Len(queue)
  /\ rest \subseteq Docs

\* The documents no set that contains the roots and follows every link can
\* leave out: reachability with no search in it.
Closed(S) == roots \subseteq S /\ \A d \in S : Out(d) \subseteq S

Reachable == {d \in Docs : \A S \in SUBSET Docs : Closed(S) => d \in S}

\* ComputeReachability: the documents the search reached are the reachable
\* ones, all of them and no other.
ReachedIsReachable == pc = "done" /\ ~Indeterminate => Reached = Reachable

\* rootDistances, "BFS yields exact shortest paths": no link leaves a reached
\* document for one more than a hop further, and every reached document that is
\* no root is one hop from a document that is nearer.  Only the lengths of
\* shortest paths satisfy both.
DistancesAreShortest ==
  pc = "done" =>
    /\ \A r \in roots : r \in Reached /\ dist[r] = 0
    /\ \A d \in Reached : \A n \in Out(d) : n \in Reached /\ dist[n] <= dist[d] + 1
    /\ \A d \in Reached \ roots : \E p \in Reached \intersect In(d) : dist[d] = dist[p] + 1

\* The search is right, with its types: what it reaches and how far it says it is.
SearchIsExact == SearchTypeOK /\ ReachedIsReachable /\ DistancesAreShortest

\* DetectOrphans and ComputeHopsFromRoot together (ADR 0007, 0012, 0021): a
\* document nobody can get to is reported once, as isolated or as unreachable,
\* unless it opted out; a root is never reported, an opted-out document neither;
\* a document is never both far and unreachable.
ReportsAreConsistent ==
  pc = "done" =>
    /\ Isolated \intersect Unreachable = {}
    /\ ~Indeterminate =>
         \A d \in Docs \ Reachable : d \in Isolated \union Unreachable \union intentional
    /\ (roots \union intentional) \intersect
         (Isolated \union DeadEnd \union UnderLinked \union Unreachable \union FarFromRoot) = {}
    /\ FarFromRoot \intersect (Unreachable \union Isolated) = {}
=============================================================================
