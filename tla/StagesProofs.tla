---------------------------- MODULE StagesProofs ----------------------------
(***************************************************************************)
(* Proofs about two parts of a run that share no state: the search from    *)
(* the roots (RootSearch), for any corpus, projection and root set, and    *)
(* the external link checker (LinkCheck), for any URLs, hosts, input lists *)
(* and configurations.                                                     *)
(***************************************************************************)
EXTENDS RootSearch, LinkCheck, FiniteSetTheorems, TLAPS

(* The inductive invariant, the loop invariant of breadth-first search.    *)

\* Where the search is and what is left to look at.
ControlInv ==
  /\ pc = "seed" => head = 0 /\ rest \subseteq roots /\ Reached \subseteq roots
  /\ pc = "visit" => head > 0 /\ rest \subseteq Out(queue[head])
  /\ pc = "done" => head = Len(queue)
  /\ roots \subseteq IF pc = "seed" THEN Reached \union rest ELSE Reached

\* The queue lists the reached documents, nearest first, and never spans more
\* than one hop beyond the document being visited.
QueueInv ==
  /\ \A j \in 1..Len(queue) : queue[j] \in Reached
  /\ \A d \in Reached : \E j \in 1..Len(queue) : queue[j] = d
  /\ \A j, k \in 1..Len(queue) : j <= k => dist[queue[j]] <= dist[queue[k]]
  /\ head = 0 => \A j \in 1..Len(queue) : dist[queue[j]] = 0
  /\ head > 0 => \A j \in 1..Len(queue) : dist[queue[j]] <= dist[queue[head]] + 1

\* Every link of a document already visited has been followed.
FollowedInv ==
  \A j \in 1..head : \A n \in Out(queue[j]) :
    \/ n \in Reached /\ dist[n] <= dist[queue[j]] + 1
    \/ pc = "visit" /\ j = head /\ n \in rest

\* A distance is zero at a root and otherwise counts one more hop.
DistanceInv ==
  /\ \A r \in roots \intersect Reached : dist[r] = 0
  /\ \A d \in Reached \ roots : \E p \in Reached \intersect In(d) : dist[d] = dist[p] + 1

\* Nothing unreachable is ever reached.
SoundInv == \A S \in SUBSET Docs : Closed(S) => Reached \subseteq S

SearchInv ==
  SearchTypeOK /\ ControlInv /\ QueueInv /\ FollowedInv /\ DistanceInv /\ SoundInv
-----------------------------------------------------------------------------
(* Discover, the one operation that adds to the map and to the queue.      *)

\* An already reached document changes nothing; a new one is appended to the
\* queue with its distance, and no other entry of either moves.
LEMMA DiscoverEffect ==
  ASSUME SearchTypeOK, NEW d \in Docs, NEW hops \in Nat, Discover(d, hops)
  PROVE  /\ Reached' = Reached \union {d} /\ Reached' \subseteq Docs
         /\ dist' \in [Reached' -> Nat]
         /\ \A e \in Reached : dist'[e] = dist[e]
         /\ d \notin Reached => dist'[d] = hops
         /\ queue' \in Seq(Docs)
         /\ Len(queue') = IF d \in Reached THEN Len(queue) ELSE Len(queue) + 1
         /\ \A j \in 1..Len(queue) : queue'[j] = queue[j]
         /\ d \notin Reached => queue'[Len(queue) + 1] = d
<1>1. CASE d \in Reached
  BY <1>1 DEF Discover, Reached, SearchTypeOK
<1>2. CASE d \notin Reached
  <2>1. /\ dist' = [e \in Reached \union {d} |-> IF e = d THEN hops ELSE dist[e]]
        /\ queue' = Append(queue, d)
    BY <1>2 DEF Discover
  <2>2. Reached' = Reached \union {d}
    BY <2>1 DEF Reached
  <2>3. dist' \in [Reached' -> Nat]
    BY <2>1, <2>2 DEF SearchTypeOK
  <2>4. \A e \in Reached : dist'[e] = dist[e]
    BY <1>2, <2>1
  <2>5. dist'[d] = hops
    BY <2>1
  <2>6. /\ queue' \in Seq(Docs) /\ Len(queue') = Len(queue) + 1
        /\ \A j \in 1..Len(queue) : queue'[j] = queue[j]
        /\ queue'[Len(queue) + 1] = d
    BY <2>1 DEF SearchTypeOK
  <2>7. QED  BY <1>2, <2>2, <2>3, <2>4, <2>5, <2>6 DEF SearchTypeOK
<1>3. QED  BY <1>1, <1>2

\* A document discovered at a distance no smaller than any in the queue, and at
\* most one more than that of the document being visited, keeps the queue sorted.
LEMMA DiscoverKeepsQueue ==
  ASSUME SearchTypeOK, QueueInv, NEW d \in Docs, NEW hops \in Nat, Discover(d, hops),
         UNCHANGED head,
         \A j \in 1..Len(queue) : dist[queue[j]] <= hops,
         head = 0 => hops = 0,
         head > 0 => hops = dist[queue[head]] + 1
  PROVE  QueueInv'
<1> USE DiscoverEffect
<1>1. CASE d \in Reached
  <2>1. dist' = dist /\ queue' = queue /\ Reached' = Reached
    BY <1>1 DEF Discover, Reached
  <2>2. QED  BY <2>1 DEF QueueInv
<1>2. CASE d \notin Reached
  <2>n. Len(queue) \in Nat /\ head \in 0..Len(queue)
    BY DEF SearchTypeOK
  <2>0. \A j \in 1..Len(queue) : /\ queue'[j] = queue[j] /\ queue[j] \in Reached
                                 /\ dist'[queue[j]] = dist[queue[j]] /\ dist[queue[j]] \in Nat
    BY DEF QueueInv, SearchTypeOK
  <2>d. /\ Len(queue') = Len(queue) + 1 /\ queue'[Len(queue) + 1] = d /\ dist'[d] = hops
        /\ Reached' = Reached \union {d}
    BY <1>2
  <2>1. \A j \in 1..Len(queue') : queue'[j] \in Reached'
    BY <2>n, <2>0, <2>d
  <2>2. \A e \in Reached' : \E j \in 1..Len(queue') : queue'[j] = e
    <3> TAKE e \in Reached'
    <3>1. CASE e = d
      BY <3>1, <2>n, <2>d
    <3>2. CASE e \in Reached
      <4>1. PICK j \in 1..Len(queue) : queue[j] = e
        BY <3>2 DEF QueueInv
      <4>2. j \in 1..Len(queue') /\ queue'[j] = e
        BY <4>1, <2>n, <2>0, <2>d
      <4>3. QED  BY <4>2
    <3>3. QED  BY <3>1, <3>2, <2>d
  <2>3. \A j, k \in 1..Len(queue') : j <= k => dist'[queue'[j]] <= dist'[queue'[k]]
    <3> TAKE j, k \in 1..Len(queue')
    <3> HAVE j <= k
    <3>1. CASE k \in 1..Len(queue)
      <4>1. j \in 1..Len(queue)
        BY <3>1, <2>n, <2>d
      <4>2. dist[queue[j]] <= dist[queue[k]]
        BY <3>1, <4>1 DEF QueueInv
      <4>3. QED  BY <3>1, <4>1, <4>2, <2>0
    <3>2. CASE k = Len(queue) + 1
      <4>1. CASE j = k
        <5>1. QED  BY <3>2, <4>1, <2>d
      <4>2. CASE j # k
        <5>1. j \in 1..Len(queue)
          BY <3>2, <4>2, <2>n, <2>d
        <5>2. QED  BY <3>2, <5>1, <2>0, <2>d
      <4>3. QED  BY <4>1, <4>2
    <3>3. QED  BY <3>1, <3>2, <2>n, <2>d
  <2>4. head' = 0 => \A j \in 1..Len(queue') : dist'[queue'[j]] = 0
    BY <2>n, <2>0, <2>d DEF QueueInv
  <2>5. head' > 0 => \A j \in 1..Len(queue') : dist'[queue'[j]] <= dist'[queue'[head']] + 1
    <3> HAVE head' > 0
    <3> TAKE j \in 1..Len(queue')
    <3>1. head \in 1..Len(queue) /\ queue'[head'] = queue[head]
          /\ dist'[queue'[head']] = dist[queue[head]]
      BY <2>n, <2>0
    <3>2. CASE j \in 1..Len(queue)
      BY <3>1, <3>2, <2>0 DEF QueueInv
    <3>3. CASE j = Len(queue) + 1
      BY <3>1, <3>3, <2>0, <2>d
    <3>4. QED  BY <3>2, <3>3, <2>n, <2>d
  <2>6. QED  BY <2>1, <2>2, <2>3, <2>4, <2>5 DEF QueueInv
<1>3. QED  BY <1>1, <1>2

-----------------------------------------------------------------------------
(* The invariant holds initially and every step keeps it.                  *)

\* The invariant holds before the first step.
LEMMA InitSearchInv == SearchInit => SearchInv
<1> SUFFICES ASSUME SearchInit PROVE SearchInv
  OBVIOUS
<1> USE RootSearchAssumption DEF SearchInit
<1>1. Reached = {} /\ Len(queue) = 0
  BY DEF Reached
<1>2. SearchTypeOK
  BY <1>1 DEF SearchTypeOK, Reached
<1>3. ControlInv
  BY <1>1 DEF ControlInv
<1>4. QueueInv /\ FollowedInv /\ DistanceInv /\ SoundInv
  BY <1>1 DEF QueueInv, FollowedInv, DistanceInv, SoundInv
<1>5. QED  BY <1>2, <1>3, <1>4 DEF SearchInv

\* The steps that leave the map and the queue alone keep what is said of them.
LEMMA MapUntouched ==
  ASSUME UNCHANGED <<links, roots, dist, queue>>, DistanceInv, SoundInv
  PROVE  DistanceInv' /\ SoundInv'
BY DEF DistanceInv, SoundInv, Closed, Out, In, Reached

\* Every action keeps the invariant, one step of the proof per action.
LEMMA NextSearchInv == SearchInv /\ [SearchNext]_searchVars => SearchInv'
<1> SUFFICES ASSUME SearchInv, [SearchNext]_searchVars PROVE SearchInv'
  OBVIOUS
<1>i. SearchTypeOK /\ ControlInv /\ QueueInv /\ FollowedInv /\ DistanceInv /\ SoundInv
  BY DEF SearchInv
<1>t. /\ roots \subseteq Docs /\ Len(queue) \in Nat /\ head \in 0..Len(queue)
      /\ \A j \in 1..Len(queue) : queue[j] \in Docs
      /\ \A d \in Docs : Out(d) \subseteq Docs
  BY <1>i, RootSearchAssumption DEF SearchTypeOK, Out
<1>1. CASE Seed
  <2>1. PICK r \in Docs : ComesNext(r) /\ Discover(r, 0) /\ rest' = rest \ {r}
    BY <1>1 DEF Seed
  <2>f. pc = "seed" /\ pc' = pc /\ UNCHANGED <<links, roots, intentional, head>>
    BY <1>1 DEF Seed
  <2>2. r \in rest /\ r \in roots /\ head = 0
    BY <1>i, <2>1, <2>f DEF ComesNext, ControlInv
  <2>3. /\ Reached' = Reached \union {r} /\ Reached' \subseteq Docs
        /\ dist' \in [Reached' -> Nat]
        /\ \A e \in Reached : dist'[e] = dist[e]
        /\ r \notin Reached => dist'[r] = 0
        /\ queue' \in Seq(Docs) /\ Len(queue') \in Nat
    BY <1>i, <2>1, DiscoverEffect
  <2>4. SearchTypeOK'
    BY <1>i, <2>1, <2>2, <2>3, <2>f DEF SearchTypeOK, Projections
  <2>5. ControlInv'
    BY <1>i, <2>1, <2>2, <2>3, <2>f DEF ControlInv
  <2>6. QueueInv'
    <3> DEFINE hops == 0
    <3>1. \A j \in 1..Len(queue) : dist[queue[j]] <= hops
      BY <1>i, <2>2 DEF QueueInv
    <3>2. /\ hops \in Nat /\ Discover(r, hops) /\ UNCHANGED head
          /\ head = 0 => hops = 0
          /\ head > 0 => hops = dist[queue[head]] + 1
      BY <2>1, <2>2, <2>f
    <3> HIDE DEF hops
    <3>3. QED  BY <1>i, <3>1, <3>2, DiscoverKeepsQueue
  <2>7. FollowedInv'
    BY <2>2, <2>f DEF FollowedInv
  <2>8. DistanceInv'
    <3>1. roots' = roots /\ \A d : In(d)' = In(d)
      BY <2>f DEF In
    <3>2. QED  BY <1>i, <2>2, <2>3, <3>1 DEF DistanceInv
  <2>9. SoundInv'
    BY <1>i, <2>2, <2>3, <2>f DEF SoundInv, Closed, Out
  <2>10. QED  BY <2>4, <2>5, <2>6, <2>7, <2>8, <2>9 DEF SearchInv
<1>2. CASE Seeded
  <2>f. /\ pc = "seed" /\ rest = {} /\ pc' = "search"
        /\ UNCHANGED <<links, roots, intentional, dist, queue, head, rest>>
    BY <1>2 DEF Seeded
  <2>r. Reached' = Reached
    BY <2>f DEF Reached
  <2>1. SearchTypeOK'
    BY <1>i, <2>f, <2>r DEF SearchTypeOK
  <2>2. ControlInv'
    BY <1>i, <2>f, <2>r DEF ControlInv
  <2>3. QueueInv'
    BY <1>i, <2>f, <2>r DEF QueueInv
  <2>4. FollowedInv'
    BY <1>i, <2>f DEF FollowedInv, ControlInv
  <2>5. QED  BY <1>i, <2>f, <2>1, <2>2, <2>3, <2>4, MapUntouched DEF SearchInv
<1>3. CASE Dequeue
  <2>f. /\ pc = "search" /\ head < Len(queue) /\ head' = head + 1 /\ pc' = "visit"
        /\ rest' = Out(queue[head + 1])
        /\ UNCHANGED <<links, roots, intentional, dist, queue>>
    BY <1>3 DEF Dequeue
  <2>r. Reached' = Reached /\ head' \in 1..Len(queue) /\ head + 1 \in 1..Len(queue)
    BY <1>t, <2>f DEF Reached
  <2>o. \A d : Out(d)' = Out(d)
    BY <2>f DEF Out
  <2>n. \A j \in 1..Len(queue) : dist[queue[j]] \in Nat
    BY <1>i DEF SearchTypeOK, QueueInv
  <2>1. SearchTypeOK'
    BY <1>i, <1>t, <2>f, <2>r DEF SearchTypeOK
  <2>2. ControlInv'
    BY <1>i, <2>f, <2>r, <2>o DEF ControlInv, SearchTypeOK, Out
  <2>3. QueueInv'
    <3>1. \A j \in 1..Len(queue) : dist[queue[j]] <= dist[queue[head + 1]] + 1
      <4> TAKE j \in 1..Len(queue)
      <4>1. CASE head = 0
        BY <1>i, <4>1, <2>r DEF QueueInv
      <4>2. CASE head > 0
        <5>1. head \in 1..Len(queue)
          BY <4>2, <1>t
        <5>2. /\ dist[queue[j]] <= dist[queue[head]] + 1
              /\ dist[queue[head]] <= dist[queue[head + 1]]
          BY <1>i, <4>2, <5>1, <2>r DEF QueueInv
        <5>3. QED  BY <5>1, <5>2, <2>r, <2>n, SMTT(30)
      <4>3. QED  BY <4>1, <4>2, <1>t
    <3>2. QED  BY <1>i, <1>t, <2>f, <2>r, <3>1 DEF QueueInv
  <2>4. FollowedInv'
    <3> SUFFICES ASSUME NEW j \in 1..head', NEW n \in Out(queue[j])
                 PROVE  \/ n \in Reached /\ dist[n] <= dist[queue[j]] + 1
                        \/ j = head' /\ n \in rest'
      BY <2>f, <2>r, <2>o DEF FollowedInv
    <3>1. CASE j = head + 1
      BY <3>1, <2>f
    <3>2. CASE j \in 1..head
      BY <1>i, <3>2, <2>f DEF FollowedInv
    <3>3. QED  BY <3>1, <3>2, <1>t, <2>f
  <2>5. QED  BY <1>i, <2>f, <2>1, <2>2, <2>3, <2>4, MapUntouched DEF SearchInv
<1>4. CASE Visit
  <2>f. pc = "visit" /\ pc' = pc /\ UNCHANGED <<links, roots, intentional, head>>
    BY <1>4 DEF Visit
  <2> DEFINE u    == queue[head]
             hops == dist[queue[head]] + 1
  <2>1. PICK n \in Docs : ComesNext(n) /\ Discover(n, hops) /\ rest' = rest \ {n}
    BY <1>4 DEF Visit
  <2>2. /\ head \in 1..Len(queue) /\ u \in Reached /\ dist[u] \in Nat /\ hops \in Nat
        /\ n \in rest /\ n \in Out(u)
    BY <1>i, <1>t, <2>f, <2>1 DEF ComesNext, ControlInv, QueueInv, SearchTypeOK
  <2>3. /\ Reached' = Reached \union {n} /\ Reached' \subseteq Docs
        /\ dist' \in [Reached' -> Nat]
        /\ \A e \in Reached : dist'[e] = dist[e]
        /\ n \notin Reached => dist'[n] = hops
        /\ queue' \in Seq(Docs) /\ Len(queue') \in Nat /\ Len(queue') >= Len(queue)
        /\ \A j \in 1..Len(queue) : queue'[j] = queue[j]
    <3> HIDE DEF hops
    <3>1. QED  BY <1>i, <1>t, <2>1, <2>2, DiscoverEffect
  <2>o. \A d : Out(d)' = Out(d) /\ In(d)' = In(d)
    BY <2>f DEF Out, In
  <2>4. SearchTypeOK'
    BY <1>i, <1>t, <2>1, <2>3, <2>f DEF SearchTypeOK
  <2>5. ControlInv'
    BY <1>i, <2>1, <2>2, <2>3, <2>f, <2>o DEF ControlInv
  <2>6. QueueInv'
    <3>1. \A j \in 1..Len(queue) : dist[queue[j]] <= hops
      BY <1>i, <2>2 DEF QueueInv
    <3>2. head > 0 /\ UNCHANGED head
      BY <2>2, <2>f
    <3>3. hops = dist[queue[head]] + 1
      OBVIOUS
    <3> HIDE DEF hops
    <3>4. QED  BY <1>i, <2>1, <2>2, <3>1, <3>2, <3>3, DiscoverKeepsQueue
  <2>7. FollowedInv'
    <3> SUFFICES ASSUME NEW j \in 1..head, NEW m \in Out(queue[j])
                 PROVE  \/ m \in Reached' /\ dist'[m] <= dist'[queue[j]] + 1
                        \/ j = head /\ m \in rest'
      BY <2>2, <2>3, <2>f, <2>o DEF FollowedInv
    <3>1. j \in 1..Len(queue) /\ queue[j] \in Reached /\ dist'[queue[j]] = dist[queue[j]]
      BY <1>i, <2>2, <2>3 DEF QueueInv
    <3>2. CASE m \in Reached /\ dist[m] <= dist[queue[j]] + 1
      BY <2>3, <3>1, <3>2
    <3>3. CASE j = head /\ m \in rest
      <4>1. CASE m # n
        BY <2>1, <3>3, <4>1
      <4>2. CASE m = n
        <5>1. m \in Reached => dist[m] <= hops
          <6> HAVE m \in Reached
          <6>1. PICK k \in 1..Len(queue) : queue[k] = m
            BY <1>i DEF QueueInv
          <6>2. QED  BY <1>i, <2>2, <6>1 DEF QueueInv
        <5>2. dist'[m] <= hops
          BY <2>2, <2>3, <4>2, <5>1
        <5>3. QED  BY <2>3, <3>1, <3>3, <4>2, <5>2
      <4>3. QED  BY <4>1, <4>2
    <3>4. QED  BY <1>i, <3>2, <3>3 DEF FollowedInv
  <2>8. DistanceInv'
    <3>1. n \notin Reached => u \in Reached' /\ u \in In(n) /\ dist'[n] = dist'[u] + 1
      BY <1>t, <1>i, <2>2, <2>3 DEF In, Out, SearchTypeOK
    <3>2. n \notin Reached => n \notin roots
      BY <1>i, <2>f DEF ControlInv
    <3>3. \A r \in roots \intersect Reached' : dist'[r] = 0
      BY <1>i, <2>3, <3>2 DEF DistanceInv
    <3>4. \A d \in Reached' \ roots : \E p \in Reached' \intersect In(d) : dist'[d] = dist'[p] + 1
      <4> TAKE d \in Reached' \ roots
      <4>1. CASE d \in Reached
        <5>1. PICK p \in Reached \intersect In(d) : dist[d] = dist[p] + 1
          BY <1>i, <4>1 DEF DistanceInv
        <5>2. QED  BY <4>1, <5>1, <2>3
      <4>2. CASE d \notin Reached
        BY <4>2, <2>3, <3>1
      <4>3. QED  BY <4>1, <4>2
    <3>5. QED  BY <2>f, <2>o, <3>3, <3>4 DEF DistanceInv
  <2>9. SoundInv'
    <3> SUFFICES ASSUME NEW S \in SUBSET Docs, Closed(S) PROVE Reached' \subseteq S
      BY <2>f, <2>o DEF SoundInv, Closed
    <3>1. Reached \subseteq S
      BY <1>i DEF SoundInv
    <3>2. n \in S
      BY <2>2, <3>1 DEF Closed
    <3>3. QED  BY <2>3, <3>1, <3>2
  <2>10. QED  BY <2>4, <2>5, <2>6, <2>7, <2>8, <2>9 DEF SearchInv
<1>5. CASE Visited
  <2>f. /\ pc = "visit" /\ rest = {} /\ pc' = "search"
        /\ UNCHANGED <<links, roots, intentional, dist, queue, head, rest>>
    BY <1>5 DEF Visited
  <2>r. Reached' = Reached
    BY <2>f DEF Reached
  <2>1. SearchTypeOK'
    BY <1>i, <2>f, <2>r DEF SearchTypeOK
  <2>2. ControlInv'
    BY <1>i, <2>f, <2>r DEF ControlInv
  <2>3. QueueInv'
    BY <1>i, <2>f, <2>r DEF QueueInv
  <2>4. FollowedInv'
    BY <1>i, <2>f, <2>r DEF FollowedInv, Out
  <2>5. QED  BY <1>i, <2>f, <2>1, <2>2, <2>3, <2>4, MapUntouched DEF SearchInv
<1>6. CASE Exhausted
  <2>f. /\ pc = "search" /\ head = Len(queue) /\ pc' = "done"
        /\ UNCHANGED <<links, roots, intentional, dist, queue, head, rest>>
    BY <1>6 DEF Exhausted
  <2>r. Reached' = Reached
    BY <2>f DEF Reached
  <2>1. SearchTypeOK'
    BY <1>i, <2>f, <2>r DEF SearchTypeOK
  <2>2. ControlInv'
    BY <1>i, <2>f, <2>r DEF ControlInv
  <2>3. QueueInv'
    BY <1>i, <2>f, <2>r DEF QueueInv
  <2>4. FollowedInv'
    BY <1>i, <2>f, <2>r DEF FollowedInv, Out
  <2>5. QED  BY <1>i, <2>f, <2>1, <2>2, <2>3, <2>4, MapUntouched DEF SearchInv
<1>7. CASE UNCHANGED searchVars
  <2>f. UNCHANGED <<links, roots, intentional, pc, dist, queue, head, rest>>
    BY <1>7 DEF searchVars
  <2>r. Reached' = Reached
    BY <2>f DEF Reached
  <2>1. SearchTypeOK' /\ ControlInv' /\ QueueInv'
    BY <1>i, <2>f, <2>r DEF SearchTypeOK, ControlInv, QueueInv, Out
  <2>2. FollowedInv'
    BY <1>i, <2>f, <2>r DEF FollowedInv, Out
  <2>3. QED  BY <1>i, <2>f, <2>1, <2>2, MapUntouched DEF SearchInv
<1>8. QED
  BY <1>1, <1>2, <1>3, <1>4, <1>5, <1>6, <1>7 DEF SearchNext, SearchTerminating

\* The invariant holds in every reachable state.
LEMMA SearchInvariance == SearchSpec => []SearchInv
BY InitSearchInv, NextSearchInv, PTL DEF SearchSpec

-----------------------------------------------------------------------------
(* What the search guarantees.                                             *)

\* The map holds distances of documents, the queue documents, in every state.
THEOREM SearchTyping == SearchSpec => []SearchTypeOK
<1>1. SearchInv => SearchTypeOK
  BY DEF SearchInv
<1>2. QED  BY <1>1, SearchInvariance, PTL

\* When the queue runs out, the reached documents themselves are a set that
\* contains the roots and follows every link.
LEMMA ReachedIsClosed ==
  ASSUME SearchInv, pc = "done" PROVE Closed(Reached)
<1>i. SearchTypeOK /\ ControlInv /\ QueueInv /\ FollowedInv
  BY DEF SearchInv
<1>1. roots \subseteq Reached
  BY <1>i DEF ControlInv
<1>2. ASSUME NEW d \in Reached PROVE Out(d) \subseteq Reached
  <2>1. PICK j \in 1..Len(queue) : queue[j] = d
    BY <1>i DEF QueueInv
  <2>2. j \in 1..head
    BY <1>i, <2>1 DEF ControlInv
  <2>3. QED  BY <1>i, <2>1, <2>2 DEF FollowedInv
<1>3. QED  BY <1>1, <1>2 DEF Closed

\* The documents reached when the search ends are the reachable ones.
LEMMA ReachedAtTheEnd ==
  ASSUME SearchInv, pc = "done" PROVE Reached = Reachable
<1>1. Reached \in SUBSET Docs /\ Closed(Reached)
  BY ReachedIsClosed DEF SearchInv, SearchTypeOK
<1>2. Reachable \subseteq Reached
  BY <1>1 DEF Reachable
<1>3. Reached \subseteq Reachable
  BY <1>1 DEF Reachable, SearchInv, SoundInv
<1>4. QED  BY <1>2, <1>3

\* ComputeReachability is right for every corpus: a document is in the map when
\* the search ends exactly when no link-closed set with the roots leaves it out.
THEOREM Reachability == SearchSpec => []ReachedIsReachable
<1>1. SearchInv => ReachedIsReachable
  BY ReachedAtTheEnd DEF ReachedIsReachable
<1>2. QED  BY <1>1, SearchInvariance, PTL

\* rootDistances is right for every corpus: the distances of the reached
\* documents are lengths of shortest paths from a root.
THEOREM Distances == SearchSpec => []DistancesAreShortest
<1>1. ASSUME SearchInv PROVE DistancesAreShortest
  <2> SUFFICES ASSUME pc = "done" PROVE
        /\ \A r \in roots : r \in Reached /\ dist[r] = 0
        /\ \A d \in Reached : \A n \in Out(d) : n \in Reached /\ dist[n] <= dist[d] + 1
        /\ \A d \in Reached \ roots : \E p \in Reached \intersect In(d) : dist[d] = dist[p] + 1
    BY DEF DistancesAreShortest
  <2>i. ControlInv /\ QueueInv /\ FollowedInv /\ DistanceInv
    BY <1>1 DEF SearchInv
  <2>1. ASSUME NEW d \in Reached, NEW n \in Out(d)
        PROVE  n \in Reached /\ dist[n] <= dist[d] + 1
    <3>1. PICK j \in 1..Len(queue) : queue[j] = d
      BY <2>i DEF QueueInv
    <3>2. j \in 1..head
      BY <2>i, <3>1 DEF ControlInv
    <3>3. QED  BY <2>i, <3>1, <3>2 DEF FollowedInv
  <2>2. \A r \in roots : r \in Reached /\ dist[r] = 0
    BY <2>i DEF ControlInv, DistanceInv
  <2>3. QED  BY <2>i, <2>1, <2>2 DEF DistanceInv
<1>2. QED  BY <1>1, SearchInvariance, PTL

\* For any corpus and root set, the search is exact: the three facts together.
THEOREM Exactness == SearchSpec => []SearchIsExact
<1>1. SearchTypeOK /\ ReachedIsReachable /\ DistancesAreShortest => SearchIsExact
  BY DEF SearchIsExact
<1>2. QED
  BY <1>1, SearchTyping, Reachability, Distances, PTL

\* DetectOrphans and ComputeHopsFromRoot agree for every corpus: no document is
\* in two incompatible buckets and no unreachable one is in none.
THEOREM Consistency == SearchSpec => []ReportsAreConsistent
<1>1. ASSUME SearchInv, pc = "done" PROVE
        /\ Isolated \intersect Unreachable = {}
        /\ ~Indeterminate =>
             \A d \in Docs \ Reachable : d \in Isolated \union Unreachable \union intentional
        /\ (roots \union intentional) \intersect
             (Isolated \union DeadEnd \union UnderLinked \union Unreachable \union FarFromRoot) = {}
        /\ FarFromRoot \intersect (Unreachable \union Isolated) = {}
  <2>1. Reached = Reachable /\ roots \subseteq Reached
    BY <1>1, ReachedAtTheEnd, ReachedIsClosed DEF Closed
  <2>2. Isolated \intersect Unreachable = {}
    BY DEF Unreachable
  <2>3. ~Indeterminate =>
          \A d \in Docs \ Reachable : d \in Isolated \union Unreachable \union intentional
    BY <2>1 DEF Unreachable, Unreached
  <2>4. (roots \union intentional) \intersect
          (Isolated \union DeadEnd \union UnderLinked \union Unreachable \union FarFromRoot) = {}
    <3>1. Exempt \intersect (Isolated \union DeadEnd \union UnderLinked \union FarFromRoot) = {}
      BY DEF Isolated, DeadEnd, UnderLinked, FarFromRoot
    <3>2. (roots \union intentional) \intersect Unreachable = {}
      BY <2>1 DEF Unreachable, Unreached
    <3>3. QED  BY <3>1, <3>2 DEF Exempt
  <2>5. FarFromRoot \intersect Unreachable = {}
    BY DEF FarFromRoot, Unreachable, Unreached
  <2>6. FarFromRoot \intersect Isolated = {}
    <3> SUFFICES ASSUME NEW d \in FarFromRoot PROVE d \notin Isolated
      OBVIOUS
    <3>1. d \in Reached \ roots
      BY DEF FarFromRoot, Exempt
    <3>2. PICK p \in Reached \intersect In(d) : dist[d] = dist[p] + 1
      BY <1>1, <3>1 DEF SearchInv, DistanceInv
    <3>3. IsFiniteSet(In(d))
      BY RootSearchAssumption, FS_Subset DEF In
    <3>4. Degree(In(d)) # 0
      BY <3>2, <3>3, FS_EmptySet DEF Degree
    <3>5. QED  BY <3>4 DEF Isolated
  <2>7. QED  BY <2>2, <2>3, <2>4, <2>5, <2>6
<1>2. SearchInv => ReportsAreConsistent
  BY <1>1 DEF ReportsAreConsistent
<1>3. QED  BY <1>2, SearchInvariance, PTL

-----------------------------------------------------------------------------
(* The link checker.                                                       *)

\* The elements of a sequence are finitely many, no more than its length.
LEMMA ElementsOfSeq ==
  ASSUME NEW A, NEW s \in Seq(A)
  PROVE  /\ IsFiniteSet(ToSet(s)) /\ Cardinality(ToSet(s)) <= Len(s)
         /\ ToSet(s) \subseteq A
<1>1. /\ DOMAIN s = 1..Len(s) /\ Len(s) \in Nat
      /\ \A k \in 1..Len(s) : s[k] \in A
  OBVIOUS
<1>2. s \in Surjection(1..Len(s), ToSet(s))
  <2>1. s \in [1..Len(s) -> ToSet(s)]
    BY <1>1 DEF ToSet
  <2>2. \A x \in ToSet(s) : \E k \in 1..Len(s) : s[k] = x
    BY <1>1 DEF ToSet
  <2>3. QED BY <2>1, <2>2 DEF Surjection
<1>3. IsFiniteSet(1..Len(s)) /\ Cardinality(1..Len(s)) = Len(s)
  <2>1. ASSUME NEW n \in Nat
        PROVE  IsFiniteSet(1..n) /\ Cardinality(1..n) = n
    BY FS_Interval
  <2>2. QED BY <1>1, <2>1
<1>4. ToSet(s) \subseteq A
  BY <1>1 DEF ToSet
<1>5. QED BY <1>2, <1>3, <1>4, FS_Surjection

\* sort.Strings: every element once, in the order of the keys.  Counting the
\* elements up to each one is an injection into 1..n, and so onto it.
LEMMA SortedByIsSorted ==
  ASSUME NEW S, IsFiniteSet(S), NEW key,
         \A u \in S : key[u] \in Int,
         \A u, v \in S : key[u] = key[v] => u = v
  PROVE  /\ Cardinality(S) \in Nat
         /\ SortedBy(S, key) \in [1..Cardinality(S) -> S]
         /\ \A u \in S : \E k \in 1..Cardinality(S) : SortedBy(S, key)[k] = u
         /\ \A j, k \in 1..Cardinality(S) :
              j < k => key[SortedBy(S, key)[j]] < key[SortedBy(S, key)[k]]
<1> DEFINE n == Cardinality(S)
           Upto(u) == {v \in S : key[v] <= key[u]}
           place == [u \in S |-> Place(S, key, u)]
           q == SortedBy(S, key)
<1>0. n \in Nat
  BY FS_CardinalityType
<1>1. ASSUME NEW u \in S
      PROVE  IsFiniteSet(Upto(u)) /\ place[u] = Cardinality(Upto(u)) /\ place[u] \in 1..n
  <2>1. Upto(u) \in SUBSET S /\ u \in Upto(u)
    OBVIOUS
  <2>2. place[u] = Cardinality(Upto(u))
    BY DEF Place
  <2> HIDE DEF Upto, place
  <2>3. IsFiniteSet(Upto(u)) /\ place[u] <= n
    BY <2>1, <2>2, FS_Subset
  <2>4. place[u] \in Nat /\ place[u] # 0
    BY <2>1, <2>2, <2>3, FS_CardinalityType, FS_EmptySet
  <2>5. QED BY <2>2, <2>3, <2>4, <1>0
<1>2. ASSUME NEW u \in S, NEW v \in S, key[u] < key[v]
      PROVE  place[u] < place[v]
  <2>1. Upto(u) \in SUBSET Upto(v) /\ v \in Upto(v) /\ v \notin Upto(u)
    BY <1>2
  <2>2. /\ IsFiniteSet(Upto(v)) /\ place[u] \in Nat /\ place[v] \in Nat
        /\ place[u] = Cardinality(Upto(u)) /\ place[v] = Cardinality(Upto(v))
    BY <1>1
  <2> HIDE DEF Upto, place
  <2>3. place[u] <= place[v] /\ place[u] # place[v]
    BY <2>1, <2>2, FS_Subset
  <2>4. QED BY <2>2, <2>3
<1>3. place \in Injection(S, 1..n)
  <2>1. place \in [S -> 1..n]
    BY <1>1
  <2>2. ASSUME NEW u \in S, NEW v \in S, place[u] = place[v]
        PROVE  u = v
    <3>1. place[u] \in 1..n /\ place[v] \in 1..n
      BY <1>1
    <3> HIDE DEF place
    <3>2. ~(key[u] < key[v]) /\ ~(key[v] < key[u])
      BY <1>0, <1>2, <2>2, <3>1
    <3>3. key[u] = key[v]
      BY <3>2
    <3>4. QED BY <3>3
  <2> HIDE DEF place
  <2>3. QED BY <2>1, <2>2 DEF Injection, IsInjective
<1>4. place \in Surjection(S, 1..n)
  <2> HIDE DEF place
  <2>1. IsFiniteSet(1..n) /\ Cardinality(1..n) = n
    BY <1>0, FS_Interval
  <2>2. QED BY <1>3, <2>1, FS_Injection
<1>5. ASSUME NEW k \in 1..n
      PROVE  q[k] \in S /\ place[q[k]] = k
  <2>1. PICK u \in S : place[u] = k
    BY <1>4 DEF Surjection
  <2>2. q[k] = CHOOSE w \in S : Place(S, key, w) = k
    BY DEF SortedBy
  <2>3. QED BY <2>1, <2>2
<1>6. ASSUME NEW u \in S
      PROVE  \E k \in 1..n : q[k] = u
  <2>1. place[u] \in 1..n
    BY <1>1
  <2>2. q[place[u]] \in S /\ place[q[place[u]]] = place[u]
    BY <2>1, <1>5
  <2> HIDE DEF place, q
  <2>3. q[place[u]] = u
    BY <2>2, <1>3 DEF Injection, IsInjective
  <2>4. QED BY <2>1, <2>3
<1>7. ASSUME NEW j \in 1..n, NEW k \in 1..n, j < k
      PROVE  key[q[j]] < key[q[k]]
  <2>1. q[j] \in S /\ q[k] \in S /\ place[q[j]] = j /\ place[q[k]] = k
    BY <1>5
  <2> HIDE DEF place, q
  <2>2. ~(key[q[k]] < key[q[j]])
    BY <1>0, <1>2, <1>7, <2>1
  <2>3. key[q[k]] # key[q[j]]
    BY <1>0, <1>7, <2>1
  <2>4. QED BY <2>1, <2>2, <2>3
<1>8. q \in [1..n -> S]
  <2>1. q = [k \in 1..n |-> q[k]]
    BY DEF SortedBy
  <2> HIDE DEF q
  <2>2. QED BY <2>1, <1>5
<1> HIDE DEF n, q
<1>9. QED BY <1>0, <1>6, <1>7, <1>8 DEF n, q

-----------------------------------------------------------------------------

(* The inductive invariant.  MapIsComplete speaks of the returned map only; *)
(* it is kept by following every URL from its place in the sorted list to   *)
(* its entry.                                                               *)

Waiting  == {"none", "guard", "limit", "sleep"}
Deciding == {"guard", "limit", "sleep", "send", "reply", "hop"}

\* The loop has handed out the places before i, each to a goroutine or to an
\* entry of its own, and no other URL has been touched.
PlaceInv ==
  /\ \A j \in 1..Len(uniq) : j < i => g[uniq[j]] # "none" \/ out[uniq[j]] = "canceled"
  /\ \A u \in URL : g[u] # "none" \/ out[u] # "none" =>
       \E j \in 1..Len(uniq) : j < i /\ uniq[j] = u

\* A goroutine has recorded its verdict exactly when it is past deciding.
RecordInv ==
  /\ \A u \in URL : /\ g[u] \in Deciding => out[u] = "none"
                    /\ g[u] \in {"finish", "gone"} => out[u] # "none"
  /\ returned => i > Len(uniq) /\ \A u \in URL : g[u] \in {"none", "gone"}

SemInv == IsFiniteSet(InFlight) /\ sem = Cardinality(InFlight) /\ sem <= cfg.limit

\* A slot is never below the floor nor above its host's last one; nobody but
\* a sleeper is ahead of its slot, unless the context is done.
SlotInv ==
  /\ \A u \in URL : /\ Forgotten <= slot[u] /\ slot[u] <= lastHost[HostOf[u]]
                    /\ slot[u] > 0 => g[u] = "sleep" \/ ctxDone
  /\ cfg.interval <= 0 => \A u \in URL : slot[u] = 0

\* Requests made, by where the goroutine is.
ChainInv ==
  \A u \in URL : /\ g[u] \in Waiting => via[u] = 0
                 /\ g[u] = "send" => via[u] = 0 \/ via[u] < cfg.redirects
                 /\ g[u] \in {"reply", "hop"} => via[u] > 0

IInv ==
  /\ TypeOK /\ PlaceInv /\ RecordInv /\ SemInv /\ SlotInv /\ ChainInv
  /\ SlotsAreSpaced /\ ChainsAreBounded

-----------------------------------------------------------------------------
(* Facts about one call that no step changes.                               *)

\* New: the limits are numbers, and at least one request is let in.
LEMMA ConfigFacts ==
  ASSUME cfg \in {New(c) : c \in Configs}
  PROVE  /\ cfg.limit \in Nat \ {0} /\ cfg.redirects \in Nat /\ cfg.interval \in Int
         /\ Forgotten \in Int /\ Forgotten <= 0
         /\ cfg.interval > 0 => Forgotten = -cfg.interval
         /\ cfg.interval <= 0 => Forgotten = 0
<1>1. PICK c \in Configs : cfg = New(c)
  OBVIOUS
<1>2. c \in [concurrency : Int, maxRedirects : Int, perHostInterval : Int]
  BY LinkCheckAssumption
<1>3. DefaultRedirects \in Nat \ {0} /\ DefaultInterval \in Nat \ {0}
  BY LinkCheckAssumption
<1>4. /\ cfg.limit \in Nat \ {0} /\ cfg.redirects \in Nat /\ cfg.interval \in Int
  BY <1>1, <1>2, <1>3 DEF New
<1>5. QED BY <1>4 DEF Forgotten

\* Check: the sorted list has every URL of the input at one place, and no other.
LEMMA UniqFacts ==
  ASSUME input \in Inputs, uniq = Distinct(input)
  PROVE  /\ Len(uniq) \in Nat
         /\ \A j \in 1..Len(uniq) : uniq[j] \in URL
         /\ \A j, k \in 1..Len(uniq) : uniq[j] = uniq[k] => j = k
         /\ \A u \in URL : u \in ToSet(input) <=> \E j \in 1..Len(uniq) : uniq[j] = u
         /\ ToSet(input) \subseteq URL
<1> DEFINE S == ToSet(input)
           key == [u \in URL |-> u]
           n == Cardinality(S)
<1>1. input \in Seq(URL) /\ URL \subseteq Nat
  BY LinkCheckAssumption
<1>2. IsFiniteSet(S) /\ S \subseteq URL
  BY <1>1, ElementsOfSeq
<1>3. /\ \A u \in S : key[u] \in Int
      /\ \A u, v \in S : key[u] = key[v] => u = v
  BY <1>1, <1>2
<1>4. uniq = SortedBy(S, key)
  BY DEF Distinct
<1> HIDE DEF S, key
<1>5. /\ n \in Nat /\ uniq \in [1..n -> S]
      /\ \A u \in S : \E k \in 1..n : uniq[k] = u
      /\ \A j, k \in 1..n : j < k => key[uniq[j]] < key[uniq[k]]
  BY <1>2, <1>3, <1>4, SortedByIsSorted
<1> HIDE DEF n
<1>6. Len(uniq) = n
  <2>1. uniq \in Seq(S) /\ DOMAIN uniq = 1..n
    BY <1>5
  <2>2. QED BY <1>5, <2>1
<1>7. ASSUME NEW j \in 1..n, NEW k \in 1..n, j < k
      PROVE  uniq[j] # uniq[k]
  <2>1. uniq[j] \in URL /\ uniq[j] \in Nat /\ uniq[k] \in URL /\ uniq[k] \in Nat
    BY <1>1, <1>2, <1>5
  <2>2. key[uniq[j]] = uniq[j] /\ key[uniq[k]] = uniq[k]
    BY <2>1 DEF key
  <2>3. key[uniq[j]] < key[uniq[k]]
    BY <1>5, <1>7
  <2>4. QED BY <2>1, <2>2, <2>3
<1>8. \A j, k \in 1..n : uniq[j] = uniq[k] => j = k
  BY <1>5, <1>7
<1>9. QED BY <1>2, <1>5, <1>6, <1>8 DEF S

\* What every step may use of a state.
LEMMA StateFacts ==
  ASSUME TypeOK
  PROVE  /\ cfg.limit \in Nat \ {0} /\ cfg.redirects \in Nat /\ cfg.interval \in Int
         /\ Forgotten \in Int /\ Forgotten <= 0
         /\ cfg.interval > 0 => Forgotten = -cfg.interval
         /\ cfg.interval <= 0 => Forgotten = 0
         /\ Len(uniq) \in Nat /\ i \in Nat
         /\ \A j \in 1..Len(uniq) : uniq[j] \in URL
         /\ \A j, k \in 1..Len(uniq) : uniq[j] = uniq[k] => j = k
         /\ \A u \in URL : HostOf[u] \in Hosts
         /\ HostOf \in [URL -> Hosts]
BY ConfigFacts, UniqFacts, LinkCheckAssumption DEF TypeOK

-----------------------------------------------------------------------------
(* What the goroutine of one URL does to the state it shares.               *)

\* It decides further, or records a verdict of its own, or ends.
Moves(u) ==
  /\ \/ /\ g[u] \in Deciding
        /\ \E p \in Deciding : g' = [g EXCEPT ![u] = p]
        /\ UNCHANGED <<out, sem>>
     \/ /\ g[u] \in Deciding
        /\ g' = [g EXCEPT ![u] = "finish"]
        /\ \E r \in {"ok", "dead", "capped"} : out' = [out EXCEPT ![u] = r]
        /\ UNCHANGED sem
     \/ /\ g[u] = "finish"
        /\ g' = [g EXCEPT ![u] = "gone"]
        /\ sem' = sem - 1 /\ UNCHANGED out
  /\ UNCHANGED <<call, ctxDone, i, returned>>

LEMMA GoroutineMoves ==
  ASSUME TypeOK, NEW u \in URL, Goroutine(u)
  PROVE  Moves(u)
<1>1. CASE Guard(u)
  BY <1>1 DEF Guard, Record, Moves, Deciding
<1>2. CASE Reserve(u)
  BY <1>2 DEF Reserve, Moves, Deciding
<1>3. CASE Unlimited(u)
  BY <1>3 DEF Unlimited, Moves, Deciding
<1>4. CASE Wake(u)
  BY <1>4 DEF Wake, Moves, Deciding
<1>5. CASE Send(u)
  <2>1. CASE ctxDone
    BY <1>5, <2>1 DEF Send, Record, Moves, Deciding
  <2>2. CASE ~ctxDone
    BY <1>5, <2>2 DEF Send, Moves, Deciding
  <2>3. QED BY <2>1, <2>2
<1>6. ASSUME NEW reply \in Replies, Reply(u, reply)
      PROVE  Moves(u)
  <2>1. g[u] = "reply" /\ UNCHANGED <<call, ctxDone, i, returned, sem>>
    BY <1>6 DEF Reply
  <2>2. \/ Record(u, "ok")
        \/ Record(u, "dead")
        \/ /\ \E p \in {"send", "hop"} : g' = [g EXCEPT ![u] = p]
           /\ UNCHANGED out
    <3>1. CASE reply = "good"
      BY <1>6, <3>1 DEF Reply
    <3>2. CASE reply = "bad"
      BY <1>6, <3>2 DEF Reply
    <3>3. CASE reply = "notAllowed" /\ method[u] = "GET"
      BY <1>6, <3>3 DEF Reply
    <3>4. CASE reply = "notAllowed" /\ method[u] = "HEAD"
      BY <1>6, <3>4 DEF Reply
    <3>5. CASE reply = "redirect"
      BY <1>6, <3>5 DEF Reply
    <3>6. QED BY <3>1, <3>2, <3>3, <3>4, <3>5 DEF Replies, TypeOK
  <2>3. QED BY <2>1, <2>2 DEF Record, Moves, Deciding
<1>7. CASE Hop(u)
  BY <1>7 DEF Hop, Record, Moves, Deciding
<1>8. CASE Finish(u)
  BY <1>8 DEF Finish, Moves, Deciding
<1>9. QED
  BY <1>1, <1>2, <1>3, <1>4, <1>5, <1>6, <1>7, <1>8 DEF Goroutine

\* Such a step keeps what the map and the semaphore rest on.
LEMMA MovesKeepMap ==
  ASSUME TypeOK, PlaceInv, RecordInv, SemInv, NEW u \in URL, Moves(u)
  PROVE  /\ g' \in [URL -> Points] /\ out' \in [URL -> Results \union {"none"}]
         /\ sem' \in 0..cfg.limit
         /\ PlaceInv' /\ RecordInv' /\ SemInv'
<1>f. /\ cfg.limit \in Nat /\ g \in [URL -> Points] /\ sem \in Nat /\ sem <= cfg.limit
      /\ out \in [URL -> Results \union {"none"}]
      /\ Len(uniq) \in Nat /\ \A j \in 1..Len(uniq) : uniq[j] \in URL
  BY StateFacts DEF TypeOK
<1>c. UNCHANGED <<cfg, uniq, i, returned>>
  BY DEF Moves, call
<1>1. /\ g' \in [URL -> Points] /\ out' \in [URL -> Results \union {"none"}]
      /\ \A v \in URL : v # u => g'[v] = g[v] /\ out'[v] = out[v]
      /\ g[u] \notin {"none", "gone"} /\ g'[u] # "none"
      /\ g'[u] \in Deciding => out'[u] = out[u] /\ g[u] \in Deciding
      /\ g'[u] = "finish" => out'[u] # "none"
      /\ g'[u] = "gone" => out'[u] = out[u] /\ g[u] = "finish"
  BY <1>f DEF Moves, Points, Results, Deciding
<1>2. PlaceInv'
  BY <1>f, <1>c, <1>1 DEF PlaceInv
<1>3. RecordInv'
  BY <1>f, <1>c, <1>1 DEF RecordInv, Points, Deciding
<1>4. SemInv' /\ sem' \in 0..cfg.limit
  <2>1. CASE g[u] \in Deciding
    <3>1. g'[u] \notin {"none", "gone"} /\ UNCHANGED sem
      BY <1>f, <2>1 DEF Moves, Deciding
    <3>2. InFlight' = InFlight
      BY <1>1, <3>1 DEF InFlight
    <3>3. QED BY <1>c, <1>f, <3>1, <3>2 DEF SemInv
  <2>2. CASE g[u] = "finish"
    <3>1. g'[u] = "gone" /\ sem' = sem - 1
      BY <1>f, <2>2 DEF Moves, Deciding
    <3>2. InFlight' = InFlight \ {u} /\ u \in InFlight
      BY <1>1, <2>2, <3>1 DEF InFlight
    <3>3. IsFiniteSet(InFlight') /\ Cardinality(InFlight') = sem - 1
      BY <3>2, FS_RemoveElement DEF SemInv
    <3>4. sem - 1 \in Nat
      BY <3>3, FS_CardinalityType
    <3>5. QED BY <1>c, <1>f, <3>1, <3>3, <3>4 DEF SemInv
  <2>3. QED BY <2>1, <2>2 DEF Moves
<1>5. QED BY <1>1, <1>2, <1>3, <1>4

\* Where the configuration is the same, so is the floor.
LEMMA SameFloor == UNCHANGED cfg => Forgotten' = Forgotten
BY DEF Forgotten

\* A step that neither reserves a slot nor sends a request: the slots stay, and
\* the chain is kept, or begun again with GET.
Quiet(u) ==
  /\ UNCHANGED <<lastHost, slot>>
  /\ g[u] = "sleep" => slot[u] <= 0 \/ ctxDone
  /\ \/ UNCHANGED request
     \/ /\ method' = [method EXCEPT ![u] = "GET"]
        /\ via' = [via EXCEPT ![u] = 0]
  /\ g'[u] \in Waiting => g[u] \in Waiting
  /\ g'[u] = "send" => via'[u] = 0 \/ via'[u] < cfg.redirects
  /\ g'[u] \in {"reply", "hop"} => via'[u] > 0
  /\ out'[u] = "ok" => via'[u] > 0

LEMMA QuietSteps ==
  ASSUME TypeOK, RecordInv, ChainInv, ChainsAreBounded, NEW u \in URL,
         Goroutine(u), ~Reserve(u), ~(Send(u) /\ ~ctxDone)
  PROVE  Quiet(u)
<1>t. /\ g \in [URL -> Points] /\ out \in [URL -> Results \union {"none"}]
      /\ method \in [URL -> {"HEAD", "GET"}] /\ via \in [URL -> 0..cfg.redirects + 1]
      /\ slot \in [URL -> Int] /\ cfg.redirects \in Nat
  BY StateFacts DEF TypeOK
<1>c. /\ g[u] \in Waiting => via[u] = 0
      /\ g[u] \in {"reply", "hop"} => via[u] > 0
      /\ g[u] \in Deciding => out[u] = "none"
      /\ out[u] = "ok" => via[u] > 0
      /\ via[u] \in Nat
  BY <1>t DEF ChainInv, ChainsAreBounded, RecordInv
<1> USE DEF Quiet, Waiting, Deciding, request
<1>1. CASE Guard(u)
  BY <1>t, <1>c, <1>1 DEF Guard, Record
<1>2. CASE Unlimited(u)
  BY <1>t, <1>c, <1>2 DEF Unlimited
<1>3. CASE Wake(u)
  BY <1>t, <1>c, <1>3 DEF Wake
<1>4. CASE Send(u) /\ ctxDone
  BY <1>t, <1>c, <1>4 DEF Send, Record
<1>5. ASSUME NEW reply \in Replies, Reply(u, reply)
      PROVE  Quiet(u)
  <2>1. /\ g[u] = "reply" /\ UNCHANGED <<lastHost, slot>>
        /\ via[u] > 0 /\ out[u] = "none"
    BY <1>c, <1>5 DEF Reply
  <2>2. CASE reply = "good"
    BY <1>t, <1>5, <2>1, <2>2 DEF Reply, Record
  <2>3. CASE reply = "bad"
    BY <1>t, <1>5, <2>1, <2>3 DEF Reply, Record
  <2>4. CASE reply = "notAllowed" /\ method[u] = "GET"
    BY <1>t, <1>5, <2>1, <2>4 DEF Reply, Record
  <2>5. CASE reply = "notAllowed" /\ method[u] = "HEAD"
    BY <1>t, <1>5, <2>1, <2>5 DEF Reply
  <2>6. CASE reply = "redirect"
    BY <1>t, <1>5, <2>1, <2>6 DEF Reply
  <2>7. method[u] \in {"HEAD", "GET"}
    BY <1>t
  <2>8. QED BY <2>2, <2>3, <2>4, <2>5, <2>6, <2>7 DEF Replies
<1>6. CASE Hop(u)
  BY <1>t, <1>c, <1>6 DEF Hop, Record, TooManyRedirects
<1>7. CASE Finish(u)
  BY <1>t, <1>c, <1>7 DEF Finish
<1>8. QED
  BY <1>1, <1>2, <1>3, <1>4, <1>5, <1>6, <1>7 DEF Goroutine

-----------------------------------------------------------------------------
LEMMA InitIInv == Init => IInv
<1> SUFFICES ASSUME Init
             PROVE  IInv
  OBVIOUS
<1>1. /\ cfg.limit \in Nat \ {0} /\ cfg.redirects \in Nat /\ cfg.interval \in Int
      /\ Forgotten \in Int /\ Forgotten <= 0
      /\ cfg.interval > 0 => Forgotten = -cfg.interval
      /\ cfg.interval <= 0 => Forgotten = 0
      /\ Len(uniq) \in Nat
  BY ConfigFacts, UniqFacts DEF Init
<1>2. TypeOK
  <2>1. /\ g \in [URL -> Points] /\ method \in [URL -> {"HEAD", "GET"}]
        /\ via \in [URL -> 0..cfg.redirects + 1] /\ out \in [URL -> Results \union {"none"}]
    BY <1>1 DEF Init, Points
  <2>2. lastHost \in [Hosts -> Int] /\ slot \in [URL -> Int]
    BY <1>1 DEF Init
  <2>3. i \in 1..(Len(uniq) + 1) /\ sem \in 0..cfg.limit
    BY <1>1 DEF Init
  <2>4. QED BY <2>1, <2>2, <2>3 DEF Init, TypeOK
<1>3. PlaceInv /\ RecordInv
  BY <1>1 DEF Init, PlaceInv, RecordInv, Deciding
<1>4. SemInv
  <2>1. InFlight = {} /\ sem = 0
    BY DEF Init, InFlight
  <2>2. QED BY <1>1, <2>1, FS_EmptySet DEF SemInv
<1>5. SlotInv /\ SlotsAreSpaced
  BY <1>1, LinkCheckAssumption DEF Init, SlotInv, SlotsAreSpaced
<1>6. ChainInv /\ ChainsAreBounded
  BY <1>1 DEF Init, ChainInv, ChainsAreBounded, Waiting
<1>7. QED BY <1>2, <1>3, <1>4, <1>5, <1>6 DEF IInv

LEMMA NextIInv == IInv /\ [Next]_vars => IInv'
<1> SUFFICES ASSUME IInv, [Next]_vars
             PROVE  IInv'
  OBVIOUS
<1>0. /\ TypeOK /\ PlaceInv /\ RecordInv /\ SemInv /\ SlotInv /\ ChainInv
      /\ SlotsAreSpaced /\ ChainsAreBounded
  BY DEF IInv
<1>f. /\ cfg.limit \in Nat \ {0} /\ cfg.redirects \in Nat /\ cfg.interval \in Int
      /\ Forgotten \in Int /\ Forgotten <= 0
      /\ cfg.interval > 0 => Forgotten = -cfg.interval
      /\ cfg.interval <= 0 => Forgotten = 0
      /\ Len(uniq) \in Nat /\ i \in Nat
      /\ \A j \in 1..Len(uniq) : uniq[j] \in URL
      /\ \A j, k \in 1..Len(uniq) : uniq[j] = uniq[k] => j = k
      /\ HostOf \in [URL -> Hosts]
  BY <1>0, StateFacts
<1>t. /\ g \in [URL -> Points] /\ method \in [URL -> {"HEAD", "GET"}]
      /\ via \in [URL -> 0..cfg.redirects + 1]
      /\ lastHost \in [Hosts -> Int] /\ slot \in [URL -> Int]
      /\ out \in [URL -> Results \union {"none"}]
  BY <1>0 DEF TypeOK
<1>1. CASE Cancel
  <2>1. UNCHANGED <<call, i, returned, sem, g, request, lastHost, slot, out>> /\ ctxDone'
    BY <1>1 DEF Cancel
  <2>2. Forgotten' = Forgotten /\ InFlight' = InFlight
    BY <2>1, SameFloor DEF call, InFlight
  <2>3. TypeOK'
    BY <1>0, <2>1 DEF TypeOK, call, request
  <2>4. PlaceInv' /\ RecordInv' /\ SemInv' /\ ChainInv' /\ ChainsAreBounded'
    BY <1>0, <2>1, <2>2
    DEF PlaceInv, RecordInv, SemInv, ChainInv, ChainsAreBounded, call, request
  <2>5. SlotInv' /\ SlotsAreSpaced'
    BY <1>0, <2>1, <2>2 DEF SlotInv, SlotsAreSpaced, call, request
  <2>6. QED BY <2>3, <2>4, <2>5 DEF IInv
<1>2. CASE Tick
  <2>1. /\ UNCHANGED <<call, ctxDone, i, returned, sem, g, request, out>>
        /\ slot' = [u \in URL |-> Older(slot[u])]
        /\ lastHost' = [h \in Hosts |-> Older(lastHost[h])]
    BY <1>2 DEF Tick
  <2>2. Forgotten' = Forgotten /\ InFlight' = InFlight
    BY <2>1, SameFloor DEF call, InFlight
  <2>3. ASSUME NEW t \in Int
        PROVE  /\ Older(t) \in Int
               /\ t > Forgotten => Older(t) = t - 1
               /\ ~(t > Forgotten) => Older(t) = t
    BY DEF Older
  <2>4. /\ slot' \in [URL -> Int] /\ lastHost' \in [Hosts -> Int]
        /\ \A u \in URL : slot'[u] = Older(slot[u])
        /\ \A h \in Hosts : lastHost'[h] = Older(lastHost[h])
    BY <1>t, <2>1, <2>3
  <2>t. ASSUME NEW u \in URL
        PROVE  /\ slot[u] \in Int /\ slot'[u] \in Int
               /\ slot[u] > Forgotten => slot'[u] = slot[u] - 1
               /\ ~(slot[u] > Forgotten) => slot'[u] = slot[u]
    BY <1>t, <2>3, <2>4
  <2>5. TypeOK'
    BY <1>0, <2>1, <2>4 DEF TypeOK, call, request
  <2>6. PlaceInv' /\ RecordInv' /\ SemInv' /\ ChainInv' /\ ChainsAreBounded'
    BY <1>0, <2>1, <2>2
    DEF PlaceInv, RecordInv, SemInv, ChainInv, ChainsAreBounded, call, request
  <2>7. SlotInv'
    <3>1. ASSUME NEW u \in URL
          PROVE  /\ Forgotten' <= slot'[u] /\ slot'[u] <= lastHost'[HostOf[u]]
                 /\ slot'[u] > 0 => g'[u] = "sleep" \/ ctxDone'
                 /\ cfg'.interval <= 0 => slot'[u] = 0
      <4>1. /\ slot[u] \in Int /\ HostOf[u] \in Hosts /\ lastHost[HostOf[u]] \in Int
            /\ Forgotten <= slot[u] /\ slot[u] <= lastHost[HostOf[u]]
            /\ slot[u] > 0 => g[u] = "sleep" \/ ctxDone
            /\ cfg.interval <= 0 => slot[u] = 0
        BY <1>0, <1>f, <1>t DEF SlotInv
      <4>2. UNCHANGED <<cfg, g, ctxDone>>
        BY <2>1 DEF call
      <4>3. QED BY <1>f, <2>2, <2>3, <2>4, <4>1, <4>2
    <3>2. QED BY <3>1 DEF SlotInv
  <2>8. SlotsAreSpaced'
    <3>1. ASSUME NEW u \in URL, NEW v \in URL, u # v, HostOf[u] = HostOf[v],
                 slot'[u] >= 0, cfg.interval > 0
          PROVE  slot'[u] - slot'[v] >= cfg.interval \/ slot'[v] - slot'[u] >= cfg.interval
      <4>1. /\ slot[u] \in Int /\ slot[v] \in Int /\ Forgotten <= slot[v]
            /\ slot[u] > Forgotten /\ slot[u] > 0 /\ slot'[u] = slot[u] - 1
        BY <1>0, <1>f, <2>t, <3>1 DEF SlotInv
      <4>2. slot[u] - slot[v] >= cfg.interval \/ slot[v] - slot[u] >= cfg.interval
        BY <1>0, <3>1, <4>1 DEF SlotsAreSpaced
      <4>3. \/ slot'[v] = slot[v] - 1
            \/ slot'[v] = slot[v] /\ slot[v] = -cfg.interval
        BY <1>f, <2>t, <3>1, <4>1
      <4>4. CASE slot'[v] = slot[v] - 1
        BY <1>f, <4>1, <4>2, <4>4
      <4>5. CASE slot'[v] = slot[v] /\ slot[v] = -cfg.interval
        BY <1>f, <3>1, <4>1, <4>5
      <4>6. QED BY <4>3, <4>4, <4>5
    <3>2. ASSUME NEW u \in URL, via'[u] > 0, slot'[u] > 0
          PROVE  ctxDone'
      <4>1. via[u] > 0 /\ UNCHANGED ctxDone
        BY <2>1, <3>2 DEF request
      <4>2. slot[u] \in Int /\ slot[u] > 0
        BY <1>f, <2>t, <3>2
      <4>3. QED BY <1>0, <4>1, <4>2 DEF SlotsAreSpaced
    <3>3. UNCHANGED cfg
      BY <2>1 DEF call
    <3>4. QED BY <3>1, <3>2, <3>3 DEF SlotsAreSpaced
  <2>9. QED BY <2>5, <2>6, <2>7, <2>8 DEF IInv
<1>3. CASE Skip
  <2>1. /\ UNCHANGED <<call, ctxDone, returned, sem, g, request, lastHost, slot>>
        /\ i \in 1..Len(uniq) /\ i' = i + 1
        /\ out' = IF out[uniq[i]] = "none" THEN [out EXCEPT ![uniq[i]] = "canceled"] ELSE out
    BY <1>0, <1>3, <1>f DEF Skip, TypeOK
  <2>2. Forgotten' = Forgotten /\ InFlight' = InFlight
    BY <2>1, SameFloor DEF call, InFlight
  <2>3. /\ uniq[i] \in URL
        /\ \A v \in URL : v # uniq[i] => out'[v] = out[v]
        /\ out[uniq[i]] = "none" => out'[uniq[i]] = "canceled"
        /\ out[uniq[i]] # "none" => out'[uniq[i]] = out[uniq[i]]
        /\ out' \in [URL -> Results \union {"none"}]
    BY <1>f, <1>t, <2>1 DEF Results
  <2>4. g[uniq[i]] = "none" /\ out[uniq[i]] = "none"
    BY <1>0, <1>f, <2>1, <2>3 DEF PlaceInv
  <2>5. TypeOK'
    BY <1>0, <1>f, <2>1, <2>3, SMTT(30) DEF TypeOK, call, request
  <2>6. PlaceInv'
    <3>1. \A j \in 1..Len(uniq) : j < i' => g[uniq[j]] # "none" \/ out'[uniq[j]] = "canceled"
      BY <1>0, <1>f, <2>1, <2>3, <2>4 DEF PlaceInv
    <3>2. ASSUME NEW v \in URL, g[v] # "none" \/ out'[v] # "none"
          PROVE  \E j \in 1..Len(uniq) : j < i' /\ uniq[j] = v
      <4>1. i \in Nat /\ Len(uniq) \in Nat /\ i' = i + 1 /\ i \in 1..Len(uniq)
        BY <1>f, <2>1
      <4>2. CASE v = uniq[i]
        <5>1. i < i'
          BY <4>1
        <5>2. QED BY <4>1, <4>2, <5>1
      <4>3. CASE v # uniq[i]
        <5>1. g[v] # "none" \/ out[v] # "none"
          BY <2>3, <3>2, <4>3
        <5>2. PICK j \in 1..Len(uniq) : j < i /\ uniq[j] = v
          BY <1>0, <5>1 DEF PlaceInv
        <5>3. j < i'
          BY <4>1, <5>2
        <5>4. QED BY <5>2, <5>3
      <4>4. QED BY <4>2, <4>3
    <3>3. QED BY <2>1, <3>1, <3>2 DEF PlaceInv, call
  <2>7. RecordInv'
    <3>1. ~returned
      BY <1>0, <1>f, <2>1 DEF RecordInv
    <3>2. QED BY <1>0, <2>1, <2>3, <2>4, <3>1 DEF RecordInv, Deciding
  <2>8. SemInv' /\ ChainInv' /\ SlotInv' /\ SlotsAreSpaced'
    BY <1>0, <2>1, <2>2 DEF SemInv, ChainInv, SlotInv, SlotsAreSpaced, call, request
  <2>9. ChainsAreBounded'
    BY <1>0, <2>1, <2>3, <2>4 DEF ChainsAreBounded, call, request
  <2>10. QED BY <2>5, <2>6, <2>7, <2>8, <2>9 DEF IInv
<1>4. CASE Spawn
  <2>1. /\ UNCHANGED <<call, ctxDone, returned, request, lastHost, slot, out>>
        /\ i \in 1..Len(uniq) /\ i' = i + 1
        /\ sem < cfg.limit /\ sem' = sem + 1 /\ sem \in Nat
        /\ g' = [g EXCEPT ![uniq[i]] = "guard"]
    BY <1>0, <1>4, <1>f DEF Spawn, TypeOK
  <2>2. Forgotten' = Forgotten
    BY <2>1, SameFloor DEF call
  <2>3. /\ uniq[i] \in URL
        /\ \A v \in URL : v # uniq[i] => g'[v] = g[v]
        /\ g'[uniq[i]] = "guard"
        /\ g' \in [URL -> Points]
    BY <1>f, <1>t, <2>1 DEF Points
  <2>4. g[uniq[i]] = "none" /\ out[uniq[i]] = "none"
    BY <1>0, <1>f, <2>1, <2>3 DEF PlaceInv
  <2>5. TypeOK'
    BY <1>0, <1>f, <2>1, <2>3, SMTT(30) DEF TypeOK, call, request
  <2>6. PlaceInv'
    <3>1. \A j \in 1..Len(uniq) : j < i' => g'[uniq[j]] # "none" \/ out[uniq[j]] = "canceled"
      BY <1>0, <1>f, <2>1, <2>3, <2>4 DEF PlaceInv
    <3>2. ASSUME NEW v \in URL, g'[v] # "none" \/ out[v] # "none"
          PROVE  \E j \in 1..Len(uniq) : j < i' /\ uniq[j] = v
      <4>1. CASE v = uniq[i]
        BY <1>f, <2>1, <4>1
      <4>2. CASE v # uniq[i]
        BY <1>0, <1>f, <2>1, <2>3, <3>2, <4>2 DEF PlaceInv
      <4>3. QED BY <4>1, <4>2
    <3>3. QED BY <2>1, <3>1, <3>2 DEF PlaceInv, call
  <2>7. RecordInv'
    <3>1. ~returned
      BY <1>0, <1>f, <2>1 DEF RecordInv
    <3>2. QED BY <1>0, <2>1, <2>3, <2>4, <3>1 DEF RecordInv, Deciding
  <2>8. SemInv'
    <3>1. InFlight' = InFlight \union {uniq[i]} /\ uniq[i] \notin InFlight
      BY <2>3, <2>4 DEF InFlight
    <3>2. IsFiniteSet(InFlight') /\ Cardinality(InFlight') = sem + 1
      BY <1>0, <3>1, FS_AddElement DEF SemInv
    <3>3. QED BY <1>f, <2>1, <3>2 DEF SemInv, call
  <2>9. SlotInv' /\ SlotsAreSpaced'
    <3>1. \A v \in URL : g[v] = "sleep" => g'[v] = "sleep"
      BY <2>3, <2>4
    <3>2. QED BY <1>0, <2>1, <2>2, <3>1 DEF SlotInv, SlotsAreSpaced, call, request
  <2>10. ChainInv' /\ ChainsAreBounded'
    BY <1>0, <2>1, <2>3, <2>4 DEF ChainInv, ChainsAreBounded, Waiting, call, request
  <2>11. QED BY <2>5, <2>6, <2>7, <2>8, <2>9, <2>10 DEF IInv
<1>5. CASE Return
  <2>1. /\ UNCHANGED <<call, ctxDone, i, sem, g, request, lastHost, slot, out>>
        /\ i > Len(uniq) /\ returned' = TRUE
        /\ \A u \in URL : g[u] \in {"none", "gone"}
    BY <1>5 DEF Return
  <2>2. Forgotten' = Forgotten /\ InFlight' = InFlight
    BY <2>1, SameFloor DEF call, InFlight
  <2>3. TypeOK'
    BY <1>0, <2>1 DEF TypeOK, call, request
  <2>4. PlaceInv' /\ RecordInv' /\ SemInv'
    BY <1>0, <2>1, <2>2 DEF PlaceInv, RecordInv, SemInv, call
  <2>5. SlotInv' /\ SlotsAreSpaced' /\ ChainInv' /\ ChainsAreBounded'
    BY <1>0, <2>1, <2>2
    DEF SlotInv, SlotsAreSpaced, ChainInv, ChainsAreBounded, call, request
  <2>6. QED BY <2>3, <2>4, <2>5 DEF IInv
<1>6. ASSUME NEW u \in URL, Goroutine(u)
      PROVE  IInv'
  <2>m. Moves(u)
    BY <1>0, <1>6, GoroutineMoves
  <2>k. /\ g' \in [URL -> Points] /\ out' \in [URL -> Results \union {"none"}]
        /\ sem' \in 0..cfg.limit
        /\ PlaceInv' /\ RecordInv' /\ SemInv'
    BY <1>0, <2>m, MovesKeepMap
  <2>c. /\ UNCHANGED <<cfg, input, uniq, ctxDone, i, returned>>
        /\ Forgotten' = Forgotten
        /\ \A v \in URL : v # u => g'[v] = g[v] /\ out'[v] = out[v]
        /\ g'[u] # "finish" => out'[u] = out[u]
    BY <1>t, <2>m, SameFloor DEF Moves, call, Deciding
  <2>1. CASE Reserve(u)
    <3>1. /\ UNCHANGED <<request, out>> /\ g[u] = "limit" /\ cfg.interval > 0
          /\ slot' = [slot EXCEPT ![u] = NextSlot(HostOf[u])]
          /\ lastHost' = [lastHost EXCEPT ![HostOf[u]] = NextSlot(HostOf[u])]
          /\ g'[u] = IF NextSlot(HostOf[u]) > 0 THEN "sleep" ELSE "send"
      BY <1>t, <2>1 DEF Reserve
    <3> DEFINE s == NextSlot(HostOf[u])
    <3>2. /\ s \in Int /\ s >= 0 /\ s >= lastHost[HostOf[u]] + cfg.interval
          /\ lastHost[HostOf[u]] \in Int /\ HostOf[u] \in Hosts
      BY <1>f, <1>t DEF NextSlot
    <3> HIDE DEF s
    <3>3. /\ slot' \in [URL -> Int] /\ lastHost' \in [Hosts -> Int]
          /\ slot'[u] = s /\ \A v \in URL : v # u => slot'[v] = slot[v]
          /\ lastHost'[HostOf[u]] = s
          /\ \A h \in Hosts : h # HostOf[u] => lastHost'[h] = lastHost[h]
          /\ g'[u] = IF s > 0 THEN "sleep" ELSE "send"
      BY <1>f, <1>t, <3>1, <3>2 DEF s
    <3>4. ASSUME NEW v \in URL, HostOf[v] = HostOf[u]
          PROVE  slot[v] \in Int /\ s - slot[v] >= cfg.interval
      <4>1. slot[v] \in Int /\ slot[v] <= lastHost[HostOf[u]]
        BY <1>0, <1>t, <3>4 DEF SlotInv
      <4>2. QED BY <1>f, <3>2, <4>1
    <3>5. TypeOK'
      BY <1>0, <2>k, <2>c, <3>1, <3>3 DEF TypeOK, request
    <3>6. SlotInv'
      <4>1. ASSUME NEW v \in URL
            PROVE  /\ Forgotten <= slot'[v] /\ slot'[v] <= lastHost'[HostOf[v]]
                   /\ slot'[v] > 0 => g'[v] = "sleep" \/ ctxDone
        <5>1. /\ slot[v] \in Int /\ HostOf[v] \in Hosts
              /\ Forgotten <= slot[v] /\ slot[v] <= lastHost[HostOf[v]]
              /\ slot[v] > 0 => g[v] = "sleep" \/ ctxDone
          BY <1>0, <1>f, <1>t DEF SlotInv
        <5>2. CASE v = u
          BY <1>f, <3>2, <3>3, <5>2
        <5>3. CASE v # u /\ HostOf[v] = HostOf[u]
          BY <1>f, <2>c, <3>1, <3>2, <3>3, <3>4, <5>1, <5>3, SMTT(30)
        <5>4. CASE v # u /\ HostOf[v] # HostOf[u]
          BY <2>c, <3>3, <5>1, <5>4
        <5>5. QED BY <5>2, <5>3, <5>4
      <4>2. QED BY <1>f, <2>c, <3>1, <4>1 DEF SlotInv
    <3>7. SlotsAreSpaced'
      <4>1. ASSUME NEW v \in URL, NEW w \in URL, v # w, HostOf[v] = HostOf[w], slot'[v] >= 0
            PROVE  \/ slot'[v] - slot'[w] >= cfg.interval
                   \/ slot'[w] - slot'[v] >= cfg.interval
        <5>1. CASE v = u
          BY <3>3, <3>4, <4>1, <5>1
        <5>2. CASE w = u
          BY <3>3, <3>4, <4>1, <5>2
        <5>3. CASE v # u /\ w # u
          BY <1>0, <3>1, <3>3, <4>1, <5>3 DEF SlotsAreSpaced
        <5>4. QED BY <5>1, <5>2, <5>3
      <4>2. ASSUME NEW v \in URL, via[v] > 0, slot'[v] > 0
            PROVE  ctxDone
        <5>1. v # u
          BY <1>0, <3>1, <4>2 DEF ChainInv, Waiting
        <5>2. QED BY <1>0, <3>3, <4>2, <5>1 DEF SlotsAreSpaced
      <4>3. QED BY <2>c, <3>1, <4>1, <4>2 DEF SlotsAreSpaced, request
    <3>8. ChainInv' /\ ChainsAreBounded'
      BY <1>0, <2>c, <3>1 DEF ChainInv, ChainsAreBounded, Waiting, request
    <3>9. QED BY <2>k, <3>5, <3>6, <3>7, <3>8 DEF IInv
  <2>2. CASE Send(u) /\ ~ctxDone
    <3>1. /\ UNCHANGED <<method, lastHost, slot, out>> /\ g[u] = "send" /\ g'[u] = "reply"
          /\ via' = [via EXCEPT ![u] = via[u] + 1]
      BY <1>t, <2>2 DEF Send
    <3>2. /\ via[u] \in Nat /\ via'[u] = via[u] + 1
          /\ \A v \in URL : v # u => via'[v] = via[v]
          /\ via[u] = 0 \/ via[u] < cfg.redirects
      BY <1>0, <1>f, <1>t, <3>1 DEF ChainInv
    <3>3. ChainInv'
      BY <1>0, <2>c, <3>1, <3>2 DEF ChainInv, Waiting
    <3>4. ChainsAreBounded'
      BY <1>0, <1>f, <2>c, <3>1, <3>2 DEF ChainsAreBounded
    <3>5. via' \in [URL -> 0..cfg.redirects + 1]
      BY <1>f, <1>t, <3>1, <3>2
    <3>6. TypeOK'
      BY <1>0, <2>k, <2>c, <3>1, <3>5 DEF TypeOK
    <3>7. SlotInv'
      BY <1>0, <2>c, <3>1 DEF SlotInv
    <3>8. SlotsAreSpaced'
      <4>1. ~(slot[u] > 0)
        BY <1>0, <2>2, <3>1 DEF SlotInv
      <4>2. QED BY <1>0, <2>c, <3>1, <3>2, <4>1 DEF SlotsAreSpaced
    <3>9. QED BY <2>k, <3>3, <3>4, <3>6, <3>7, <3>8 DEF IInv
  <2>3. CASE Quiet(u)
    <3>1. /\ \A v \in URL : v # u => via'[v] = via[v]
          /\ via'[u] = via[u] \/ via'[u] = 0
          /\ via' \in [URL -> 0..cfg.redirects + 1]
          /\ method' \in [URL -> {"HEAD", "GET"}]
      <4>1. CASE UNCHANGED request
        BY <1>t, <4>1 DEF request
      <4>2. CASE /\ method' = [method EXCEPT ![u] = "GET"]
                 /\ via' = [via EXCEPT ![u] = 0]
        BY <1>f, <1>t, <4>2
      <4>3. QED BY <2>3, <4>1, <4>2 DEF Quiet
    <3>2. TypeOK'
      BY <1>0, <2>k, <2>c, <2>3, <3>1 DEF TypeOK, Quiet
    <3>3. SlotInv'
      BY <1>0, <1>t, <2>c, <2>3 DEF SlotInv, Quiet
    <3>4. SlotsAreSpaced'
      BY <1>0, <2>c, <2>3, <3>1 DEF SlotsAreSpaced, Quiet
    <3>5. ChainInv'
      BY <1>0, <2>c, <2>3, <3>1 DEF ChainInv, Waiting, Quiet
    <3>6. ChainsAreBounded'
      BY <1>0, <1>f, <2>c, <2>3, <3>1 DEF ChainsAreBounded, Quiet
    <3>7. QED BY <2>k, <3>2, <3>3, <3>4, <3>5, <3>6 DEF IInv
  <2>4. QED BY <1>0, <1>6, <2>1, <2>2, <2>3, QuietSteps
<1>7. CASE UNCHANGED vars
  <2>1. InFlight' = InFlight /\ Forgotten' = Forgotten
    BY <1>7, SameFloor DEF vars, call, InFlight
  <2>2. TypeOK' /\ PlaceInv' /\ RecordInv' /\ SemInv'
    BY <1>0, <1>7, <2>1 DEF TypeOK, PlaceInv, RecordInv, SemInv, vars, call, request
  <2>3. SlotInv' /\ ChainInv' /\ SlotsAreSpaced' /\ ChainsAreBounded'
    BY <1>0, <1>7, <2>1
    DEF SlotInv, ChainInv, SlotsAreSpaced, ChainsAreBounded, vars, call, request
  <2>4. QED BY <2>2, <2>3 DEF IInv
<1>8. QED
  BY <1>1, <1>2, <1>3, <1>4, <1>5, <1>6, <1>7 DEF Next, Loop, Terminating

LEMMA Invariance == Spec => []IInv
BY InitIInv, NextIInv, PTL DEF Spec

-----------------------------------------------------------------------------
\* The state is well-typed in every run of Check: in particular the semaphore
\* stays between zero and its limit.
THEOREM Typing == Spec => []TypeOK
<1>1. IInv => TypeOK
  BY DEF IInv
<1>2. QED BY Invariance, <1>1, PTL

\* Check, "every input URL gets a result": when it returns, whatever the network,
\* the guard and the cancellation did, the map has an entry for the URLs of the
\* input and for no other, and no goroutine is left.
THEOREM CompleteMap == Spec => []MapIsComplete
<1>1. ASSUME IInv
      PROVE  MapIsComplete
  <2>0. TypeOK /\ PlaceInv /\ RecordInv
    BY <1>1 DEF IInv
  <2>1. input \in Inputs /\ uniq = Distinct(input)
    BY <2>0 DEF TypeOK
  <2>2. /\ Len(uniq) \in Nat /\ i \in Nat
        /\ \A j \in 1..Len(uniq) : uniq[j] \in URL
        /\ \A u \in URL : u \in ToSet(input) <=> \E j \in 1..Len(uniq) : uniq[j] = u
    BY <2>0, <2>1, StateFacts, UniqFacts
  <2>3. ASSUME returned
        PROVE  InFlight = {} /\ \A u \in URL : out[u] # "none" <=> u \in ToSet(input)
    <3>1. i > Len(uniq) /\ \A u \in URL : g[u] \in {"none", "gone"}
      BY <2>0, <2>3 DEF RecordInv
    <3>2. InFlight = {}
      BY <3>1 DEF InFlight
    <3>3. ASSUME NEW u \in URL, out[u] # "none"
          PROVE  u \in ToSet(input)
      BY <2>0, <2>2, <3>3 DEF PlaceInv
    <3>4. ASSUME NEW u \in URL, u \in ToSet(input)
          PROVE  out[u] # "none"
      <4>1. PICK j \in 1..Len(uniq) : uniq[j] = u
        BY <2>2, <3>4
      <4>2. j < i
        BY <2>2, <3>1
      <4>3. g[u] # "none" \/ out[u] = "canceled"
        BY <2>0, <4>1, <4>2 DEF PlaceInv
      <4>4. QED BY <2>0, <3>1, <4>3 DEF RecordInv
    <3>5. QED BY <3>2, <3>3, <3>4
  <2>4. QED BY <2>3 DEF MapIsComplete
<1>2. QED BY Invariance, <1>1, PTL

\* Config.Concurrency, rateLimit and Config.MaxRedirects together: what one call
\* asks of the network is bounded, for every limit, interval and cap, and however
\* the goroutines interleave.
THEOREM BoundedLoad == Spec => []LoadIsBounded
<1>1. ASSUME IInv
      PROVE  LoadIsBounded
  <2>1. TypeOK /\ SemInv /\ SlotsAreSpaced /\ ChainsAreBounded
    BY <1>1 DEF IInv
  <2>2. ConcurrencyBound
    BY <2>1 DEF SemInv, ConcurrencyBound
  <2>3. QED BY <2>1, <2>2 DEF LoadIsBounded
<1>2. QED BY Invariance, <1>1, PTL

\* The mutex around the result map: no step of anybody replaces a verdict, so a
\* goroutine that ends after the cancellation does not overwrite an entry.
THEOREM FinalVerdict == Spec => VerdictIsFinal
<1>1. ASSUME IInv, [Next]_vars
      PROVE  [\A u \in URL : out[u] # "none" => out'[u] = out[u]]_vars
  <2>0. TypeOK /\ RecordInv /\ out \in [URL -> Results \union {"none"}]
    BY <1>1 DEF IInv, TypeOK
  <2>1. ASSUME NEW u \in URL, Goroutine(u), NEW v \in URL, out[v] # "none"
        PROVE  out'[v] = out[v]
    <3>1. Moves(u)
      BY <2>0, <2>1, GoroutineMoves
    <3>2. g[u] \in Deciding => out[u] = "none"
      BY <2>0 DEF RecordInv
    <3>3. QED BY <2>0, <2>1, <3>1, <3>2 DEF Moves
  <2>2. CASE Skip
    BY <2>0, <2>2 DEF Skip
  <2>3. CASE Cancel \/ Tick \/ Spawn \/ Return \/ UNCHANGED vars
    BY <2>3 DEF Cancel, Tick, Spawn, Return, vars
  <2>4. QED BY <1>1, <2>1, <2>2, <2>3 DEF Next, Loop, Terminating
<1>2. QED BY Invariance, <1>1, PTL DEF Spec, VerdictIsFinal
=============================================================================
