-------------------------- MODULE ParsePoolProofs ---------------------------
(***************************************************************************)
(* Proofs about ParsePool, for any number of files and workers and any cap *)
(* on the pool.                                                            *)
(***************************************************************************)
EXTENDS ParsePool, TLAPS

(* The inductive invariant.  SuccessIsComplete speaks of the returned      *)
(* value only; it is kept by following every index from the feeder to its  *)
(* slot.                                                                   *)

\* Which contexts and flags go together.
FlagsInv ==
  /\ wctxDone => ctxDone
  /\ feedErr => wctxDone
  /\ pc \in {"feed", "wait"} => N > 0 /\ workers > 1
  /\ pc \in {"seqCheck", "seqParse"} => N > 0 /\ workers = 1
  /\ pc \in {"start", "seqCheck", "seqParse"} => \A w \in Worker : wpc[w] = "none"
  /\ pc = "start" => next = 1
  /\ pc = "seqParse" => next <= N
  /\ pc = "wait" => (feedErr \/ next = N + 1)
  /\ pc \in {"feed", "wait"} => \A w \in Worker : wpc[w] # "none"
  /\ pc = "done" => \A w \in Worker : wpc[w] \in {"none", "exit"}
  /\ ret # Pending <=> pc = "done"
  /\ ret = Canceled => ctxDone

\* What a slot may hold, and who may be working on an empty one.
SlotInv ==
  /\ \A i \in Indices : Filled(i) =>
       /\ i < next
       /\ results[i].id = files[i]
       /\ \/ results[i].outcome = Stage!Truth(files[i])
          \/ /\ results[i].outcome = "canceled" /\ ctxDone
             /\ workers = 1 => i = next - 1
             /\ workers > 1 => wctxDone
  /\ \A i \in Indices : i < next /\ ~Filled(i) => Held(i) \/ wctxDone
  /\ workers = 1 => \A i \in Indices : i < next => Filled(i)
  /\ pc = "seqParse" => \A i \in Indices : results[i].outcome # "canceled"

\* What a worker that received an index has in its hands.
WorkerInv ==
  \A w \in Worker :
    /\ Holding(w) => workers > 1 /\ idx[w] \in Indices
    /\ wpc[w] = "store" =>
         \/ got[w] = Stage!Truth(files[idx[w]])
         \/ got[w] = "canceled" /\ wctxDone

IInv ==
  /\ TypeOK /\ FlagsInv /\ SlotInv /\ WorkerInv
  /\ SlotOwnership /\ SuccessIsComplete

-----------------------------------------------------------------------------
(* Typing.                                                                 *)

\* A permutation of 1..n is a sequence of length n.
LEMMA PermutationLen ==
  ASSUME NEW n \in Nat, NEW f \in Permutations(n)
  PROVE  Len(f) = n
<1>1. f \in Seq(1..n) /\ DOMAIN f = 1..n
  BY DEF Permutations
<1>2. QED
  BY <1>1

\* The effective worker count lies between one and the cap.
LEMMA WorkerCountBounds ==
  ASSUME NEW c \in Int, NEW p \in Nat \ {0}, NEW n \in Nat
  PROVE  ResolveWorkerCount(c, p, n) \in 1..MaxParseWorkers
BY ParsePoolAssumption DEF ResolveWorkerCount, AtMost

\* A file has one of the three outcomes.
LEMMA ParseType ==
  ASSUME NEW f, NEW c \in BOOLEAN
  PROVE  Parse(f, c) \in Outcomes
BY DEF Parse, Outcomes

\* Sorting a complete slice gives a complete slice.
LEMMA SortComplete ==
  ASSUME N \in Nat, files \in Permutations(N), results \in [Indices -> Result],
         \A i \in Indices : results[i].id = files[i]
  PROVE  /\ SortResults(results) \in [Indices -> Result]
         /\ \A k \in Indices : \E i \in Indices :
              /\ SortResults(results)[k] = results[i]
              /\ results[i].id = k /\ files[i] = k
<1>1. ASSUME NEW k \in Indices
      PROVE  \E i \in Indices :
               /\ SortResults(results)[k] = results[i]
               /\ results[i].id = k /\ files[i] = k
  <2>1. DOMAIN results = Indices
    OBVIOUS
  <2>2. \E i \in Indices : results[i].id = k
    BY DEF Permutations, Indices
  <2>3. SortResults(results)[k] = results[CHOOSE i \in Indices : results[i].id = k]
    BY <2>1 DEF SortResults
  <2>4. PICK i \in Indices :
          i = (CHOOSE j \in Indices : results[j].id = k) /\ results[i].id = k
    BY <2>2
  <2>5. QED
    BY <2>3, <2>4
<1>2. SortResults(results) \in [Indices -> Result]
  <2>1. SortResults(results) = [k \in Indices |-> SortResults(results)[k]]
    BY DEF SortResults
  <2>2. QED
    BY <1>1, <2>1
<1>3. QED
  BY <1>1, <1>2
-----------------------------------------------------------------------------
(* The invariant holds initially and every action keeps it.                *)

\* The invariant holds before the first step.
LEMMA InitIInv == Init => IInv
<1> SUFFICES ASSUME Init PROVE IInv
  OBVIOUS
<1>1. N \in FileCounts /\ N \in Nat /\ files \in Permutations(N)
  BY PermutationLen, ParsePoolAssumption DEF Init, N
<1>2. workers \in 1..MaxParseWorkers
  BY <1>1, WorkerCountBounds, ParsePoolAssumption DEF Init
<1>3. TypeOK
  <2>1. /\ unreadable \subseteq Indices /\ next \in 1..(N + 1)
        /\ pc = "start" /\ ret = Pending
        /\ ~ctxDone /\ ~wctxDone /\ ~closed /\ ~feedErr
    BY <1>1 DEF Init
  <2>2. /\ wpc = [w \in Worker |-> "none"] /\ idx = [w \in Worker |-> 0]
        /\ got = [w \in Worker |-> "none"] /\ results = [i \in Indices |-> Empty]
    BY DEF Init
  <2>3. ctxDone \in BOOLEAN /\ wctxDone \in BOOLEAN /\ closed \in BOOLEAN /\ feedErr \in BOOLEAN
    BY DEF Init
  <2>4. QED
    BY <1>1, <1>2, <2>1, <2>2, <2>3 DEF TypeOK
<1>4. FlagsInv
  BY DEF Init, FlagsInv, Pending, Canceled, Worker
<1>5. SlotInv
  BY <1>1, <1>2, ParsePoolAssumption DEF Init, SlotInv, Filled, Indices
<1>6. WorkerInv /\ SlotOwnership
  BY DEF Init, WorkerInv, SlotOwnership, Holding, Worker
<1>7. SuccessIsComplete
  BY DEF Init, SuccessIsComplete, Pending
<1>8. QED
  BY <1>3, <1>4, <1>5, <1>6, <1>7 DEF IInv

\* Every action keeps the invariant, one step of the proof per action.
LEMMA NextIInv == IInv /\ [Next]_vars => IInv'
<1> SUFFICES ASSUME IInv, [Next]_vars PROVE IInv'
  OBVIOUS
<1> USE DEF IInv, Stage!Truth
<1>s. UNCHANGED static
  BY DEF Next, Main, WorkerStep, vars, Cancel, Propagate, Return, StartEmpty, StartSequential, StartPool, SeqCheck, SeqCanceled, SeqParse, SeqReturn, FeedCanceled, FeedDone, PoolReturn, Terminating, Feed, WorkerClosed, WorkerStops, WorkerGoesOn, WorkerParses, WorkerStores
<1>f. /\ UNCHANGED <<files, unreadable, workers>>
      /\ N' = N /\ Indices' = Indices /\ Worker' = Worker
      /\ N \in FileCounts /\ N \in Nat /\ files \in Permutations(N)
      /\ workers \in Nat /\ files \in [Indices -> Indices]
  BY <1>s, ParsePoolAssumption, SMTT(30) DEF static, N, Indices, Worker, TypeOK, Permutations
<1>1. CASE Cancel
  <2>1. TypeOK'
    BY <1>1, <1>f DEF Cancel, Return, vars, static, contexts, pool, Parse, TypeOK, Result, Empty, Pending, Canceled, Outcomes
  <2>2. FlagsInv'
    BY <1>1, <1>f DEF Cancel, Return, vars, static, contexts, pool, Parse, FlagsInv, TypeOK, Pending, Canceled, AllExited
  <2>3. SlotInv'
    BY <1>1, <1>f DEF Cancel, Return, vars, static, contexts, pool, Parse, SlotInv, FlagsInv, TypeOK, Filled, Held, Holding, Indices
  <2>4. WorkerInv'
    BY <1>1, <1>f DEF Cancel, Return, vars, static, contexts, pool, Parse, WorkerInv, FlagsInv, TypeOK, Holding
  <2>5. SlotOwnership'
    BY <1>1, <1>f DEF Cancel, Return, vars, static, contexts, pool, Parse, SlotOwnership, FlagsInv, TypeOK, Holding, Filled, SlotInv
  <2>6. SuccessIsComplete'
    BY <1>1, <1>f DEF Cancel, Return, vars, static, contexts, pool, Parse, SuccessIsComplete, FlagsInv, TypeOK, Pending, Canceled
  <2>7. QED
    BY <2>1, <2>2, <2>3, <2>4, <2>5, <2>6
<1>2. CASE Propagate
  <2>1. TypeOK'
    BY <1>2, <1>f DEF Propagate, Return, vars, static, contexts, pool, Parse, TypeOK, Result, Empty, Pending, Canceled, Outcomes
  <2>2. FlagsInv'
    BY <1>2, <1>f DEF Propagate, Return, vars, static, contexts, pool, Parse, FlagsInv, TypeOK, Pending, Canceled, AllExited
  <2>3. SlotInv'
    BY <1>2, <1>f DEF Propagate, Return, vars, static, contexts, pool, Parse, SlotInv, FlagsInv, TypeOK, Filled, Held, Holding, Indices
  <2>4. WorkerInv'
    BY <1>2, <1>f DEF Propagate, Return, vars, static, contexts, pool, Parse, WorkerInv, FlagsInv, TypeOK, Holding
  <2>5. SlotOwnership'
    BY <1>2, <1>f DEF Propagate, Return, vars, static, contexts, pool, Parse, SlotOwnership, FlagsInv, TypeOK, Holding, Filled, SlotInv
  <2>6. SuccessIsComplete'
    BY <1>2, <1>f DEF Propagate, Return, vars, static, contexts, pool, Parse, SuccessIsComplete, FlagsInv, TypeOK, Pending, Canceled
  <2>7. QED
    BY <2>1, <2>2, <2>3, <2>4, <2>5, <2>6
<1>3. CASE StartEmpty
  <2>1. TypeOK'
    <3>1. results \in [Indices -> Result]
      BY <1>3, <1>f DEF StartEmpty, TypeOK, Indices
    <3>2. QED
      BY <1>3, <1>f, <3>1 DEF StartEmpty, Return, TypeOK, Result, static, contexts, pool
  <2>2. FlagsInv'
    BY <1>3, <1>f DEF StartEmpty, Return, vars, static, contexts, pool, Parse, FlagsInv, TypeOK, Pending, Canceled, AllExited
  <2>3. SlotInv'
    BY <1>3, <1>f DEF StartEmpty, Return, vars, static, contexts, pool, Parse, SlotInv, FlagsInv, TypeOK, Filled, Held, Holding, Indices
  <2>4. WorkerInv'
    BY <1>3, <1>f DEF StartEmpty, Return, vars, static, contexts, pool, Parse, WorkerInv, FlagsInv, TypeOK, Holding
  <2>5. SlotOwnership'
    BY <1>3, <1>f DEF StartEmpty, Return, vars, static, contexts, pool, Parse, SlotOwnership, FlagsInv, TypeOK, Holding, Filled, SlotInv
  <2>6. SuccessIsComplete'
    BY <1>3, <1>f DEF StartEmpty, Return, SuccessIsComplete, TypeOK, Indices
  <2>7. QED
    BY <2>1, <2>2, <2>3, <2>4, <2>5, <2>6
<1>4. CASE StartSequential
  <2>1. TypeOK'
    BY <1>4, <1>f DEF StartSequential, Return, vars, static, contexts, pool, Parse, TypeOK, Result, Empty, Pending, Canceled, Outcomes
  <2>2. FlagsInv'
    BY <1>4, <1>f DEF StartSequential, Return, vars, static, contexts, pool, Parse, FlagsInv, TypeOK, Pending, Canceled, AllExited
  <2>3. SlotInv'
    BY <1>4, <1>f DEF StartSequential, Return, vars, static, contexts, pool, Parse, SlotInv, FlagsInv, TypeOK, Filled, Held, Holding, Indices
  <2>4. WorkerInv'
    BY <1>4, <1>f DEF StartSequential, Return, vars, static, contexts, pool, Parse, WorkerInv, FlagsInv, TypeOK, Holding
  <2>5. SlotOwnership'
    BY <1>4, <1>f DEF StartSequential, Return, vars, static, contexts, pool, Parse, SlotOwnership, FlagsInv, TypeOK, Holding, Filled, SlotInv
  <2>6. SuccessIsComplete'
    BY <1>4, <1>f DEF StartSequential, Return, vars, static, contexts, pool, Parse, SuccessIsComplete, FlagsInv, TypeOK, Pending, Canceled
  <2>7. QED
    BY <2>1, <2>2, <2>3, <2>4, <2>5, <2>6
<1>5. CASE StartPool
  <2>1. TypeOK'
    BY <1>5, <1>f DEF StartPool, Return, vars, static, contexts, pool, Parse, TypeOK, Result, Empty, Pending, Canceled, Outcomes
  <2>2. FlagsInv'
    BY <1>5, <1>f DEF StartPool, Return, vars, static, contexts, pool, Parse, FlagsInv, TypeOK, Pending, Canceled, AllExited
  <2>3. SlotInv'
    BY <1>5, <1>f DEF StartPool, Return, vars, static, contexts, pool, Parse, SlotInv, FlagsInv, TypeOK, Filled, Held, Holding, Indices
  <2>4. WorkerInv'
    BY <1>5, <1>f DEF StartPool, Return, vars, static, contexts, pool, Parse, WorkerInv, FlagsInv, TypeOK, Holding
  <2>5. SlotOwnership'
    BY <1>5, <1>f DEF StartPool, Return, vars, static, contexts, pool, Parse, SlotOwnership, FlagsInv, TypeOK, Holding, Filled, SlotInv
  <2>6. SuccessIsComplete'
    BY <1>5, <1>f DEF StartPool, Return, vars, static, contexts, pool, Parse, SuccessIsComplete, FlagsInv, TypeOK, Pending, Canceled
  <2>7. QED
    BY <2>1, <2>2, <2>3, <2>4, <2>5, <2>6
<1>6. CASE SeqCheck
  <2>1. TypeOK'
    BY <1>6, <1>f DEF SeqCheck, Return, vars, static, contexts, pool, Parse, TypeOK, Result, Empty, Pending, Canceled, Outcomes
  <2>2. FlagsInv'
    BY <1>6, <1>f DEF SeqCheck, Return, vars, static, contexts, pool, Parse, FlagsInv, TypeOK, Pending, Canceled, AllExited
  <2>3. SlotInv'
    <3>1. ASSUME NEW i \in Indices PROVE results[i].outcome # "canceled"
      BY <1>6, <1>f DEF SeqCheck, SlotInv, Filled, Empty
    <3>2. QED
      BY <1>6, <1>f, <3>1
         DEF SeqCheck, SlotInv, FlagsInv, TypeOK, Filled, Held, Holding, static, contexts, pool
  <2>4. WorkerInv'
    BY <1>6, <1>f DEF SeqCheck, Return, vars, static, contexts, pool, Parse, WorkerInv, FlagsInv, TypeOK, Holding
  <2>5. SlotOwnership'
    BY <1>6, <1>f DEF SeqCheck, Return, vars, static, contexts, pool, Parse, SlotOwnership, FlagsInv, TypeOK, Holding, Filled, SlotInv
  <2>6. SuccessIsComplete'
    BY <1>6, <1>f DEF SeqCheck, Return, vars, static, contexts, pool, Parse, SuccessIsComplete, FlagsInv, TypeOK, Pending, Canceled
  <2>7. QED
    BY <2>1, <2>2, <2>3, <2>4, <2>5, <2>6
<1>7. CASE SeqCanceled
  <2>1. TypeOK'
    BY <1>7, <1>f DEF SeqCanceled, Return, vars, static, contexts, pool, Parse, TypeOK, Result, Empty, Pending, Canceled, Outcomes
  <2>2. FlagsInv'
    BY <1>7, <1>f DEF SeqCanceled, Return, vars, static, contexts, pool, Parse, FlagsInv, TypeOK, Pending, Canceled, AllExited
  <2>3. SlotInv'
    BY <1>7, <1>f DEF SeqCanceled, Return, vars, static, contexts, pool, Parse, SlotInv, FlagsInv, TypeOK, Filled, Held, Holding, Indices
  <2>4. WorkerInv'
    BY <1>7, <1>f DEF SeqCanceled, Return, vars, static, contexts, pool, Parse, WorkerInv, FlagsInv, TypeOK, Holding
  <2>5. SlotOwnership'
    BY <1>7, <1>f DEF SeqCanceled, Return, vars, static, contexts, pool, Parse, SlotOwnership, FlagsInv, TypeOK, Holding, Filled, SlotInv
  <2>6. SuccessIsComplete'
    BY <1>7, <1>f DEF SeqCanceled, Return, vars, static, contexts, pool, Parse, SuccessIsComplete, FlagsInv, TypeOK, Pending, Canceled
  <2>7. QED
    BY <2>1, <2>2, <2>3, <2>4, <2>5, <2>6
<1>8. CASE SeqParse
  <2>a. /\ next \in Indices /\ files[next] \in Indices
        /\ Parse(next, ctxDone) \in Outcomes
    BY <1>8, <1>f, ParseType DEF SeqParse, FlagsInv, TypeOK, Indices
  <2> DEFINE r == [id |-> files[next], outcome |-> Parse(next, ctxDone)]
  <2>c. r \in Result /\ r # Empty
    BY <1>f, <2>a DEF Result, Empty, Indices
  <2>b. /\ results'[next] = r
        /\ \A i \in Indices : i # next => results'[i] = results[i]
        /\ results' \in [Indices -> Result \union {Empty}]
        /\ results'[next] # Empty
    BY <1>8, <1>f, <2>a, <2>c DEF SeqParse, TypeOK
  <2>1. TypeOK'
    <3>1. next' \in 1..(N + 1) /\ pc' = "seqCheck"
      BY <1>8, <1>f, <2>a DEF SeqParse, TypeOK, Indices
    <3>2. QED
      BY <1>8, <1>f, <2>b, <3>1
         DEF SeqParse, TypeOK, Result, Empty, static, contexts, pool
  <2>2. FlagsInv'
    BY <1>8, <1>f DEF SeqParse, Return, vars, static, contexts, pool, Parse, FlagsInv, TypeOK, Pending, Canceled, AllExited
  <2>3. SlotInv'
    <3>1. ASSUME NEW i \in Indices, results'[i] # Empty
          PROVE  /\ i < next' /\ results'[i].id = files[i]
                 /\ \/ results'[i].outcome = Stage!Truth(files[i])
                    \/ results'[i].outcome = "canceled" /\ ctxDone /\ i = next' - 1
      BY <1>8, <1>f, <2>a, <2>b, <3>1
         DEF SeqParse, SlotInv, FlagsInv, TypeOK, Filled, Parse
    <3>2. \A i \in Indices : i < next' => results'[i] # Empty
      BY <1>8, <1>f, <2>a, <2>b DEF SeqParse, SlotInv, FlagsInv, TypeOK, Filled, Indices
    <3>3. QED
      <4>1. /\ next \in Nat /\ next' = next + 1 /\ pc' = "seqCheck" /\ workers = 1
            /\ UNCHANGED <<ctxDone, wctxDone>>
        BY <1>8, <1>f DEF SeqParse, FlagsInv, TypeOK, contexts
      <4>2. QED
        BY <1>f, <3>1, <3>2, <4>1 DEF SlotInv, Filled
  <2>4. WorkerInv'
    BY <1>8, <1>f DEF SeqParse, Return, vars, static, contexts, pool, Parse, WorkerInv, FlagsInv, TypeOK, Holding
  <2>5. SlotOwnership'
    BY <1>8, <1>f DEF SeqParse, Return, vars, static, contexts, pool, Parse, SlotOwnership, FlagsInv, TypeOK, Holding, Filled, SlotInv
  <2>6. SuccessIsComplete'
    BY <1>8, <1>f DEF SeqParse, Return, vars, static, contexts, pool, Parse, SuccessIsComplete, FlagsInv, TypeOK, Pending, Canceled
  <2>7. QED
    BY <2>1, <2>2, <2>3, <2>4, <2>5, <2>6
<1>9. CASE SeqReturn
  <2>a. /\ results \in [Indices -> Result]
        /\ \A i \in Indices : results[i].id = files[i]
    BY <1>9, <1>f DEF SeqReturn, SlotInv, FlagsInv, TypeOK, Filled, Indices
  <2>b. /\ SortResults(results) \in [Indices -> Result]
        /\ \A k \in Indices : \E i \in Indices :
             /\ SortResults(results)[k] = results[i]
             /\ results[i].id = k /\ files[i] = k
    BY <1>f, <2>a, SortComplete
  <2>1. TypeOK'
    BY <1>9, <1>f, <2>b DEF SeqReturn, Return, TypeOK, Result, static, contexts, pool
  <2>2. FlagsInv'
    BY <1>9, <1>f DEF SeqReturn, Return, vars, static, contexts, pool, Parse, FlagsInv, TypeOK, Pending, Canceled, AllExited
  <2>3. SlotInv'
    BY <1>9, <1>f DEF SeqReturn, Return, vars, static, contexts, pool, Parse, SlotInv, FlagsInv, TypeOK, Filled, Held, Holding, Indices
  <2>4. WorkerInv'
    BY <1>9, <1>f DEF SeqReturn, Return, vars, static, contexts, pool, Parse, WorkerInv, FlagsInv, TypeOK, Holding
  <2>5. SlotOwnership'
    BY <1>9, <1>f DEF SeqReturn, Return, vars, static, contexts, pool, Parse, SlotOwnership, FlagsInv, TypeOK, Holding, Filled, SlotInv
  <2>6. SuccessIsComplete'
    <3>1. ASSUME NEW i \in Indices
          PROVE  \/ results[i].outcome = Stage!Truth(files[i])
                 \/ results[i].outcome = "canceled" /\ ctxDone /\ workers = 1 /\ i = N
      BY <1>9, <1>f DEF SeqReturn, SlotInv, FlagsInv, TypeOK, Filled, Indices
    <3>2. QED
      BY <1>9, <1>f, <2>b, <3>1 DEF SeqReturn, Return, SuccessIsComplete, contexts
  <2>7. QED
    BY <2>1, <2>2, <2>3, <2>4, <2>5, <2>6
<1>10. CASE FeedCanceled
  <2>1. TypeOK'
    BY <1>10, <1>f DEF FeedCanceled, Return, vars, static, contexts, pool, Parse, TypeOK, Result, Empty, Pending, Canceled, Outcomes
  <2>2. FlagsInv'
    BY <1>10, <1>f DEF FeedCanceled, Return, vars, static, contexts, pool, Parse, FlagsInv, TypeOK, Pending, Canceled, AllExited
  <2>3. SlotInv'
    BY <1>10, <1>f DEF FeedCanceled, Return, vars, static, contexts, pool, Parse, SlotInv, FlagsInv, TypeOK, Filled, Held, Holding, Indices
  <2>4. WorkerInv'
    BY <1>10, <1>f DEF FeedCanceled, Return, vars, static, contexts, pool, Parse, WorkerInv, FlagsInv, TypeOK, Holding
  <2>5. SlotOwnership'
    BY <1>10, <1>f DEF FeedCanceled, Return, vars, static, contexts, pool, Parse, SlotOwnership, FlagsInv, TypeOK, Holding, Filled, SlotInv
  <2>6. SuccessIsComplete'
    BY <1>10, <1>f DEF FeedCanceled, Return, vars, static, contexts, pool, Parse, SuccessIsComplete, FlagsInv, TypeOK, Pending, Canceled
  <2>7. QED
    BY <2>1, <2>2, <2>3, <2>4, <2>5, <2>6
<1>11. CASE FeedDone
  <2>1. TypeOK'
    BY <1>11, <1>f DEF FeedDone, Return, vars, static, contexts, pool, Parse, TypeOK, Result, Empty, Pending, Canceled, Outcomes
  <2>2. FlagsInv'
    BY <1>11, <1>f DEF FeedDone, Return, vars, static, contexts, pool, Parse, FlagsInv, TypeOK, Pending, Canceled, AllExited
  <2>3. SlotInv'
    BY <1>11, <1>f DEF FeedDone, Return, vars, static, contexts, pool, Parse, SlotInv, FlagsInv, TypeOK, Filled, Held, Holding, Indices
  <2>4. WorkerInv'
    BY <1>11, <1>f DEF FeedDone, Return, vars, static, contexts, pool, Parse, WorkerInv, FlagsInv, TypeOK, Holding
  <2>5. SlotOwnership'
    BY <1>11, <1>f DEF FeedDone, Return, vars, static, contexts, pool, Parse, SlotOwnership, FlagsInv, TypeOK, Holding, Filled, SlotInv
  <2>6. SuccessIsComplete'
    BY <1>11, <1>f DEF FeedDone, Return, vars, static, contexts, pool, Parse, SuccessIsComplete, FlagsInv, TypeOK, Pending, Canceled
  <2>7. QED
    BY <2>1, <2>2, <2>3, <2>4, <2>5, <2>6
<1>12. CASE PoolReturn
  <2>1. CASE feedErr \/ ctxDone
    <3>1. ctxDone /\ Return(Canceled)
      BY <1>12, <2>1 DEF PoolReturn, FlagsInv
    <3>2. TypeOK' /\ SuccessIsComplete'
      BY <1>f, <3>1 DEF Return, TypeOK, Result, SuccessIsComplete, Canceled, static, contexts, pool
    <3>3. FlagsInv'
      BY <1>12, <1>f, <3>1 DEF PoolReturn, AllExited, Return, FlagsInv, Canceled, Pending, contexts, pool
    <3>4. SlotInv' /\ WorkerInv' /\ SlotOwnership'
      BY <1>f, <3>1 DEF Return, SlotInv, WorkerInv, SlotOwnership, Filled, Held, Holding, contexts, pool
    <3>5. QED
      BY <3>2, <3>3, <3>4
  <2>2. CASE ~(feedErr \/ ctxDone)
    <3>1. /\ ~ctxDone /\ ~wctxDone /\ next = N + 1
          /\ \A w \in Worker : wpc[w] = "exit"
          /\ Return([kind |-> "ok", out |-> SortResults(results)])
      BY <1>12, <2>2 DEF PoolReturn, AllExited, FlagsInv
    <3>2. \A i \in Indices : Filled(i)
      BY <1>f, <3>1, SMTT(30) DEF SlotInv, Held, Holding, Indices
    <3>3. /\ results \in [Indices -> Result]
          /\ \A i \in Indices : /\ results[i].id = files[i]
                                /\ results[i].outcome = Stage!Truth(files[i])
      BY <1>f, <3>1, <3>2 DEF SlotInv, Filled, TypeOK
    <3>4. /\ SortResults(results) \in [Indices -> Result]
          /\ \A k \in Indices : \E i \in Indices :
               /\ SortResults(results)[k] = results[i]
               /\ results[i].id = k /\ files[i] = k
      BY <1>f, <3>3, SortComplete
    <3>5. TypeOK'
      BY <1>f, <3>1, <3>4 DEF Return, TypeOK, Result, static, contexts, pool
    <3>6. FlagsInv'
      BY <1>f, <3>1 DEF Return, FlagsInv, Canceled, Pending, contexts, pool
    <3>7. SlotInv' /\ WorkerInv' /\ SlotOwnership'
      BY <1>f, <3>1 DEF Return, SlotInv, WorkerInv, SlotOwnership, Filled, Held, Holding, contexts, pool
    <3>8. SuccessIsComplete'
      BY <1>f, <3>1, <3>3, <3>4 DEF Return, SuccessIsComplete
    <3>9. QED
      BY <3>5, <3>6, <3>7, <3>8
  <2>3. QED
    BY <2>1, <2>2
<1>13. CASE Terminating
  <2>1. TypeOK'
    BY <1>13, <1>f DEF Terminating, Return, vars, static, contexts, pool, Parse, TypeOK, Result, Empty, Pending, Canceled, Outcomes
  <2>2. FlagsInv'
    BY <1>13, <1>f DEF Terminating, Return, vars, static, contexts, pool, Parse, FlagsInv, TypeOK, Pending, Canceled, AllExited
  <2>3. SlotInv'
    BY <1>13, <1>f DEF Terminating, Return, vars, static, contexts, pool, Parse, SlotInv, FlagsInv, TypeOK, Filled, Held, Holding, Indices
  <2>4. WorkerInv'
    BY <1>13, <1>f DEF Terminating, Return, vars, static, contexts, pool, Parse, WorkerInv, FlagsInv, TypeOK, Holding
  <2>5. SlotOwnership'
    BY <1>13, <1>f DEF Terminating, Return, vars, static, contexts, pool, Parse, SlotOwnership, FlagsInv, TypeOK, Holding, Filled, SlotInv
  <2>6. SuccessIsComplete'
    BY <1>13, <1>f DEF Terminating, Return, vars, static, contexts, pool, Parse, SuccessIsComplete, FlagsInv, TypeOK, Pending, Canceled
  <2>7. QED
    BY <2>1, <2>2, <2>3, <2>4, <2>5, <2>6
<1>14. ASSUME NEW w \in Worker, Feed(w) PROVE IInv'
  <2>a. next \in Indices /\ ~Filled(next)
    BY <1>14, <1>f DEF Feed, SlotInv, TypeOK, Indices
  <2>b. /\ Holding(w)' /\ idx'[w] = next
        /\ \A v \in Worker : v # w => (Holding(v)' <=> Holding(v)) /\ idx'[v] = idx[v]
    BY <1>14, <1>f DEF Feed, TypeOK, Holding
  <2>1. TypeOK'
    BY <1>14, <1>f DEF Feed, Return, vars, static, contexts, pool, Parse, TypeOK, Result, Empty, Pending, Canceled, Outcomes
  <2>2. FlagsInv'
    BY <1>14, <1>f DEF Feed, Return, vars, static, contexts, pool, Parse, FlagsInv, TypeOK, Pending, Canceled, AllExited
  <2>3. SlotInv'
    <3>1. \A i \in Indices : Held(i) => Held(i)'
      BY <1>14, <1>f, <2>b DEF Feed, Held, Holding
    <3>2. \E v \in Worker : Holding(v)' /\ idx'[v] = next
      BY <2>b
    <3>3. \A i \in Indices : Filled(i)' = Filled(i)
      BY <1>14 DEF Feed, Filled
    <3>4. \A i \in Indices : i < next' => i < next \/ i = next
      BY <1>14, <1>f DEF Feed, TypeOK, Indices
    <3>5. workers > 1 /\ next < next'
      BY <1>14, <1>f DEF Feed, FlagsInv, TypeOK
    <3>6. QED
      <4>1. /\ UNCHANGED <<pc, results, ctxDone, wctxDone>> /\ pc = "feed"
            /\ next' = next + 1 /\ next \in Nat
        BY <1>14, <1>f DEF Feed, contexts, TypeOK
      <4>2. \A i \in Indices : i < next' /\ ~Filled(i)' => Held(i)' \/ wctxDone'
        <5>1. ASSUME NEW i \in Indices, i < next', ~Filled(i)' PROVE Held(i)' \/ wctxDone'
          <6>1. CASE i = next
            BY <1>f, <3>2, <6>1 DEF Held
          <6>2. CASE i < next
            BY <1>f, <3>1, <3>3, <4>1, <5>1, <6>2 DEF SlotInv
          <6>3. QED
            BY <3>4, <5>1, <6>1, <6>2
        <5>2. QED
          BY <5>1
      <4>3. QED
        <5>1. ASSUME NEW i \in Indices, Filled(i)' PROVE Filled(i) /\ i < next /\ i < next'
          <6>1. Filled(i)
            BY <3>3, <5>1
          <6>2. i < next /\ i \in Nat
            BY <1>f, <6>1 DEF SlotInv, Indices
          <6>3. QED
            BY <4>1, <6>1, <6>2
        <5>2. QED
          BY <1>f, <3>5, <4>1, <4>2, <5>1 DEF SlotInv
  <2>4. WorkerInv'
    BY <1>14, <1>f, <2>a, <2>b DEF Feed, WorkerInv, FlagsInv, TypeOK, Holding, contexts
  <2>5. SlotOwnership'
    <3>1. next \in Nat /\ next' = next + 1 /\ UNCHANGED results
      BY <1>14, <1>f DEF Feed, TypeOK
    <3>2. \A v \in Worker : Holding(v) => idx[v] < next
      BY <1>f, <3>1 DEF SlotOwnership, Indices
    <3>3. ASSUME NEW v \in Worker, Holding(v)'
          PROVE  /\ idx'[v] \in 1..(next' - 1) /\ results'[idx'[v]] = Empty
                 /\ \A u \in Worker : Holding(u)' /\ idx'[u] = idx'[v] => u = v
      BY <1>f, <2>a, <2>b, <3>1, <3>2, <3>3, SMTT(30) DEF SlotOwnership, Filled, Indices
    <3>4. QED
      BY <1>f, <3>3 DEF SlotOwnership, Filled
  <2>6. SuccessIsComplete'
    BY <1>14, <1>f DEF Feed, Return, vars, static, contexts, pool, Parse, SuccessIsComplete, FlagsInv, TypeOK, Pending, Canceled
  <2>7. QED
    BY <2>1, <2>2, <2>3, <2>4, <2>5, <2>6
<1>15. ASSUME NEW w \in Worker, WorkerClosed(w) PROVE IInv'
  <2>1. TypeOK'
    BY <1>15, <1>f DEF WorkerClosed, Return, vars, static, contexts, pool, Parse, TypeOK, Result, Empty, Pending, Canceled, Outcomes
  <2>2. FlagsInv'
    BY <1>15, <1>f DEF WorkerClosed, Return, vars, static, contexts, pool, Parse, FlagsInv, TypeOK, Pending, Canceled, AllExited
  <2>3. SlotInv'
    <3>1. \A i \in Indices : Held(i) => Held(i)'
      BY <1>15, <1>f DEF WorkerClosed, Held, Holding, TypeOK
    <3>2. QED
      BY <1>15, <1>f, <3>1 DEF WorkerClosed, SlotInv, Filled, contexts, static
  <2>4. WorkerInv'
    BY <1>15, <1>f DEF WorkerClosed, Return, vars, static, contexts, pool, Parse, WorkerInv, FlagsInv, TypeOK, Holding
  <2>5. SlotOwnership'
    BY <1>15, <1>f DEF WorkerClosed, Return, vars, static, contexts, pool, Parse, SlotOwnership, FlagsInv, TypeOK, Holding, Filled, SlotInv
  <2>6. SuccessIsComplete'
    BY <1>15, <1>f DEF WorkerClosed, Return, vars, static, contexts, pool, Parse, SuccessIsComplete, FlagsInv, TypeOK, Pending, Canceled
  <2>7. QED
    BY <2>1, <2>2, <2>3, <2>4, <2>5, <2>6
<1>16. ASSUME NEW w \in Worker, WorkerStops(w) PROVE IInv'
  <2>1. TypeOK'
    BY <1>16, <1>f DEF WorkerStops, Return, vars, static, contexts, pool, Parse, TypeOK, Result, Empty, Pending, Canceled, Outcomes
  <2>2. FlagsInv'
    BY <1>16, <1>f DEF WorkerStops, Return, vars, static, contexts, pool, Parse, FlagsInv, TypeOK, Pending, Canceled, AllExited
  <2>3. SlotInv'
    BY <1>16, <1>f DEF WorkerStops, Return, vars, static, contexts, pool, Parse, SlotInv, FlagsInv, TypeOK, Filled, Held, Holding, Indices
  <2>4. WorkerInv'
    BY <1>16, <1>f DEF WorkerStops, Return, vars, static, contexts, pool, Parse, WorkerInv, FlagsInv, TypeOK, Holding
  <2>5. SlotOwnership'
    BY <1>16, <1>f DEF WorkerStops, Return, vars, static, contexts, pool, Parse, SlotOwnership, FlagsInv, TypeOK, Holding, Filled, SlotInv
  <2>6. SuccessIsComplete'
    BY <1>16, <1>f DEF WorkerStops, Return, vars, static, contexts, pool, Parse, SuccessIsComplete, FlagsInv, TypeOK, Pending, Canceled
  <2>7. QED
    BY <2>1, <2>2, <2>3, <2>4, <2>5, <2>6
<1>17. ASSUME NEW w \in Worker, WorkerGoesOn(w) PROVE IInv'
  <2>1. TypeOK'
    BY <1>17, <1>f DEF WorkerGoesOn, Return, vars, static, contexts, pool, Parse, TypeOK, Result, Empty, Pending, Canceled, Outcomes
  <2>2. FlagsInv'
    BY <1>17, <1>f DEF WorkerGoesOn, Return, vars, static, contexts, pool, Parse, FlagsInv, TypeOK, Pending, Canceled, AllExited
  <2>3. SlotInv'
    BY <1>17, <1>f DEF WorkerGoesOn, Return, vars, static, contexts, pool, Parse, SlotInv, FlagsInv, TypeOK, Filled, Held, Holding, Indices
  <2>4. WorkerInv'
    BY <1>17, <1>f DEF WorkerGoesOn, Return, vars, static, contexts, pool, Parse, WorkerInv, FlagsInv, TypeOK, Holding
  <2>5. SlotOwnership'
    BY <1>17, <1>f DEF WorkerGoesOn, Return, vars, static, contexts, pool, Parse, SlotOwnership, FlagsInv, TypeOK, Holding, Filled, SlotInv
  <2>6. SuccessIsComplete'
    BY <1>17, <1>f DEF WorkerGoesOn, Return, vars, static, contexts, pool, Parse, SuccessIsComplete, FlagsInv, TypeOK, Pending, Canceled
  <2>7. QED
    BY <2>1, <2>2, <2>3, <2>4, <2>5, <2>6
<1>18. ASSUME NEW w \in Worker, WorkerParses(w) PROVE IInv'
  <2>1. TypeOK'
    BY <1>18, <1>f DEF WorkerParses, Return, vars, static, contexts, pool, Parse, TypeOK, Result, Empty, Pending, Canceled, Outcomes
  <2>2. FlagsInv'
    BY <1>18, <1>f DEF WorkerParses, Return, vars, static, contexts, pool, Parse, FlagsInv, TypeOK, Pending, Canceled, AllExited
  <2>3. SlotInv'
    BY <1>18, <1>f DEF WorkerParses, Return, vars, static, contexts, pool, Parse, SlotInv, FlagsInv, TypeOK, Filled, Held, Holding, Indices
  <2>4. WorkerInv'
    BY <1>18, <1>f DEF WorkerParses, Return, vars, static, contexts, pool, Parse, WorkerInv, FlagsInv, TypeOK, Holding
  <2>5. SlotOwnership'
    BY <1>18, <1>f DEF WorkerParses, Return, vars, static, contexts, pool, Parse, SlotOwnership, FlagsInv, TypeOK, Holding, Filled, SlotInv
  <2>6. SuccessIsComplete'
    BY <1>18, <1>f DEF WorkerParses, Return, vars, static, contexts, pool, Parse, SuccessIsComplete, FlagsInv, TypeOK, Pending, Canceled
  <2>7. QED
    BY <2>1, <2>2, <2>3, <2>4, <2>5, <2>6
<1>19. ASSUME NEW w \in Worker, WorkerStores(w) PROVE IInv'
  <2>a. /\ idx[w] \in Indices /\ files[idx[w]] \in Indices /\ workers > 1
        /\ idx[w] < next /\ got[w] \in Outcomes
        /\ \/ got[w] = Stage!Truth(files[idx[w]])
           \/ got[w] = "canceled" /\ wctxDone
    <3>1. Holding(w) /\ got[w] \in Outcomes \union {"none"} /\ next \in Nat
      BY <1>19, <1>f DEF WorkerStores, Holding, TypeOK
    <3>2. /\ idx[w] \in Indices /\ workers > 1 /\ idx[w] \in 1..(next - 1)
          /\ \/ got[w] = Stage!Truth(files[idx[w]])
             \/ got[w] = "canceled" /\ wctxDone
      BY <1>19, <1>f, <3>1 DEF WorkerStores, WorkerInv, SlotOwnership
    <3>3. QED
      BY <1>f, <3>1, <3>2 DEF Outcomes
  <2>b. /\ results'[idx[w]] = [id |-> files[idx[w]], outcome |-> got[w]]
        /\ \A i \in Indices : i # idx[w] => results'[i] = results[i]
        /\ results' \in [Indices -> Result \union {Empty}]
        /\ results'[idx[w]] # Empty
    BY <1>19, <1>f, <2>a DEF WorkerStores, TypeOK, Result, Empty
  <2>1. TypeOK'
    BY <1>19, <2>b, <1>f DEF WorkerStores, Return, vars, static, contexts, pool, Parse, TypeOK, Result, Empty, Pending, Canceled, Outcomes
  <2>2. FlagsInv'
    BY <1>19, <1>f DEF WorkerStores, Return, vars, static, contexts, pool, Parse, FlagsInv, TypeOK, Pending, Canceled, AllExited
  <2>3. SlotInv'
    <3>1. \A i \in Indices : i # idx[w] /\ Held(i) => Held(i)'
      BY <1>19, <1>f DEF WorkerStores, Held, Holding, TypeOK
    <3>2. \A i \in Indices : i # idx[w] => Filled(i)' = Filled(i)
      BY <2>b DEF Filled
    <3>3. results'[idx[w]] # Empty /\ UNCHANGED next
      BY <1>19, <2>b DEF WorkerStores
    <3>4. pc # "seqParse"
      BY <1>f, <2>a DEF FlagsInv
    <3>5. QED
      BY <1>19, <1>f, <2>a, <2>b, <3>1, <3>2, <3>3, <3>4
         DEF WorkerStores, SlotInv, FlagsInv, Filled, contexts, static
  <2>4. WorkerInv'
    BY <1>19, <1>f DEF WorkerStores, Return, vars, static, contexts, pool, Parse, WorkerInv, FlagsInv, TypeOK, Holding
  <2>5. SlotOwnership'
    BY <1>19, <1>f DEF WorkerStores, Return, vars, static, contexts, pool, Parse, SlotOwnership, FlagsInv, TypeOK, Holding, Filled, SlotInv
  <2>6. SuccessIsComplete'
    BY <1>19, <1>f DEF WorkerStores, Return, vars, static, contexts, pool, Parse, SuccessIsComplete, FlagsInv, TypeOK, Pending, Canceled
  <2>7. QED
    BY <2>1, <2>2, <2>3, <2>4, <2>5, <2>6
<1>20. CASE UNCHANGED vars
  <2>1. TypeOK'
    BY <1>20, <1>f DEF vars, Return, vars, static, contexts, pool, Parse, TypeOK, Result, Empty, Pending, Canceled, Outcomes
  <2>2. FlagsInv'
    BY <1>20, <1>f DEF vars, Return, vars, static, contexts, pool, Parse, FlagsInv, TypeOK, Pending, Canceled, AllExited
  <2>3. SlotInv'
    BY <1>20, <1>f DEF vars, Return, vars, static, contexts, pool, Parse, SlotInv, FlagsInv, TypeOK, Filled, Held, Holding, Indices
  <2>4. WorkerInv'
    BY <1>20, <1>f DEF vars, Return, vars, static, contexts, pool, Parse, WorkerInv, FlagsInv, TypeOK, Holding
  <2>5. SlotOwnership'
    BY <1>20, <1>f DEF vars, Return, vars, static, contexts, pool, Parse, SlotOwnership, FlagsInv, TypeOK, Holding, Filled, SlotInv
  <2>6. SuccessIsComplete'
    BY <1>20, <1>f DEF vars, Return, vars, static, contexts, pool, Parse, SuccessIsComplete, FlagsInv, TypeOK, Pending, Canceled
  <2>7. QED
    BY <2>1, <2>2, <2>3, <2>4, <2>5, <2>6
<1>21. QED
  BY <1>1, <1>2, <1>3, <1>4, <1>5, <1>6, <1>7, <1>8, <1>9, <1>10, <1>11, <1>12, <1>13, <1>14, <1>15, <1>16, <1>17, <1>18, <1>19, <1>20 DEF Next, Main, WorkerStep

\* The invariant holds in every reachable state.
LEMMA Invariance == SafeSpec => []IInv
BY InitIInv, NextIInv, PTL DEF SafeSpec

-----------------------------------------------------------------------------
(* The results.                                                            *)

\* Every variable keeps its type; in particular a returned slice has exactly
\* one well-formed result per scanned file.
THEOREM Typing == SafeSpec => []TypeOK
<1>1. IInv => TypeOK
  BY DEF IInv
<1>2. QED
  BY <1>1, Invariance, PTL

\* parseFiles answers completely or not at all: for any number of files, any
\* worker count and any interleaving with a cancellation, a successful answer
\* holds every file in DocumentID order with the outcome parsing it gives, but
\* for the file scanned last on the sequential path.
THEOREM Completeness == SafeSpec => []SuccessIsComplete
<1>1. IInv => SuccessIsComplete
  BY DEF IInv
<1>2. QED
  BY <1>1, Invariance, PTL

\* No two goroutines ever own one slot of the shared results slice, and the
\* slot a worker owns has not been written: the stores need no lock.
THEOREM Ownership == SafeSpec => []SlotOwnership
<1>1. IInv => SlotOwnership
  BY DEF IInv
<1>2. QED
  BY <1>1, Invariance, PTL

\* The cancellation error reaches only a caller that canceled, and no answer
\* leaves a goroutine of the pool behind.
THEOREM Finality == SafeSpec => []AnswerIsFinal
<1>1. IInv => AnswerIsFinal
  BY DEF IInv, FlagsInv, AnswerIsFinal
<1>2. QED
  BY <1>1, Invariance, PTL

\* A stored result is never rewritten.
THEOREM WriteOnce == SafeSpec => StoredOnce
<1>1. ASSUME IInv, [Next]_vars
      PROVE  [\A i \in Indices : Filled(i) => results'[i] = results[i]]_vars
  <2>1. CASE SeqParse
    <3>1. next \in Indices /\ ~Filled(next)
      BY <1>1, <2>1 DEF IInv, SeqParse, FlagsInv, TypeOK, SlotInv, Indices
    <3>2. QED
      BY <1>1, <2>1, <3>1 DEF IInv, SeqParse, TypeOK
  <2>2. ASSUME NEW w \in Worker, WorkerStores(w)
        PROVE  \A i \in Indices : Filled(i) => results'[i] = results[i]
    <3>1. ~Filled(idx[w])
      BY <1>1, <2>2 DEF IInv, WorkerStores, SlotOwnership, Holding
    <3>2. QED
      BY <1>1, <2>2, <3>1 DEF IInv, WorkerStores, TypeOK
  <2>3. CASE UNCHANGED results
    BY <2>3
  <2>4. QED
    BY <1>1, <2>1, <2>2, <2>3
       DEF Next, Main, WorkerStep, vars, Cancel, Propagate, Return, StartEmpty,
           StartSequential, StartPool, SeqCheck, SeqCanceled, SeqReturn,
           FeedCanceled, FeedDone, PoolReturn, Terminating, Feed, WorkerClosed,
           WorkerStops, WorkerGoesOn, WorkerParses
<1>2. QED
  BY <1>1, Invariance, PTL DEF SafeSpec, StoredOnce

\* The pool's memory is safe, for any number of files and workers.
THEOREM Soundness == SafeSpec => []PoolIsSound
<1>1. TypeOK /\ SlotOwnership /\ AnswerIsFinal => PoolIsSound
  BY DEF PoolIsSound
<1>2. QED
  BY <1>1, Typing, Ownership, Finality, PTL

\* An answer without a canceled file is the stage's; one with such a file, only on the
\* sequential path and after a cancellation, is the stage's cancellation.
LEMMA PromisedAnswer ==
  IInv /\ ret.kind = "ok" =>
    \/ AsPromised = Canceled /\ ctxDone
    \/ AsPromised = Stage!Answer
<1> SUFFICES ASSUME IInv, ret.kind = "ok"
             PROVE  \/ AsPromised = Canceled /\ ctxDone
                    \/ AsPromised = Stage!Answer
  OBVIOUS
<1>1. /\ ret.out \in [Indices -> Result]
      /\ ret = [kind |-> "ok", out |-> ret.out]
  BY DEF IInv, TypeOK, Pending, Canceled
<1>2. DOMAIN ret.out = Indices /\ DOMAIN files = Indices
  BY <1>1 DEF IInv, TypeOK, Permutations, Indices
<1>3. CASE \E k \in Indices : ret.out[k].outcome = "canceled"
  <2>1. PICK k \in Indices : ret.out[k].outcome = "canceled"
    BY <1>3
  <2>2. ctxDone
    BY <2>1 DEF IInv, SuccessIsComplete, Stage!Truth
  <2>3. QED
    BY <1>2, <1>3, <2>2 DEF AsPromised
<1>4. CASE \A k \in Indices : ret.out[k].outcome # "canceled"
  <2>1. \A k \in Indices : ret.out[k].id = k /\ ret.out[k].outcome = Stage!Truth(k)
    BY <1>4 DEF IInv, SuccessIsComplete
  <2>2. ret.out = [k \in Indices |-> [id |-> k, outcome |-> Stage!Truth(k)]]
    BY <1>1, <2>1 DEF Result
  <2>3. AsPromised = ret
    BY <1>2, <1>4 DEF AsPromised
  <2>4. QED
    BY <1>1, <1>2, <2>2, <2>3 DEF Stage!Answer
<1>5. QED
  BY <1>3, <1>4

\* parseFiles implements the abstract stage, sequential or pooled, for any number of
\* files and workers: every step of every goroutine is one the stage allows or none.
THEOREM PoolRefinesStage == SafeSpec => Stage!Init /\ [][Stage!Next]_(Stage!vars)
<1>1. Init => Stage!Init
  BY DEF Init, Stage!Init, Pending, Stage!Pending, AsPromised
<1>2. (IInv /\ ret.kind = "ok" =>
         \/ AsPromised = Canceled /\ ctxDone
         \/ AsPromised = Stage!Answer)'
  BY PromisedAnswer, PTL
<1>3. ASSUME IInv, IInv', [Next]_vars
      PROVE  [Stage!Next]_(Stage!vars)
  <2> USE <1>3
  <2>1. CASE Cancel
    <3>1. AsPromised' = AsPromised
      BY <2>1 DEF Cancel, AsPromised
    <3>2. QED
      BY <2>1, <3>1 DEF Cancel, static, Stage!Next, Stage!Cancel
  <2>2. ASSUME NEW r, Return(r), ret = Pending, ret' = Canceled, ctxDone
        PROVE  Stage!Next
    <3>1. AsPromised = Pending /\ AsPromised' = Canceled
      BY <2>2 DEF AsPromised, Pending, Canceled
    <3>2. QED
      BY <2>2, <3>1 DEF Return, static, contexts, Canceled, Pending, Stage!Next,
                        Stage!Abort, Stage!Canceled, Stage!Pending
  <2>3. ASSUME NEW rs, Return([kind |-> "ok", out |-> rs]), ret = Pending
        PROVE  Stage!Next
    <3>1. AsPromised = Pending /\ ret'.kind = "ok"
      BY <2>3 DEF AsPromised, Pending, Return
    <3>2. UNCHANGED <<files, unreadable, ctxDone>>
      BY <2>3 DEF Return, static, contexts
    <3>3. (AsPromised' = Canceled /\ ctxDone') \/ AsPromised' = (Stage!Answer)'
      BY <1>2, <3>1
    <3>4. (Stage!Answer)' = Stage!Answer
      BY <3>2 DEF Stage!Answer, Stage!Truth
    <3>5. QED
      BY <3>1, <3>2, <3>3, <3>4 DEF Stage!Next, Stage!Abort, Stage!Deliver, Canceled,
                                    Pending, Stage!Canceled, Stage!Pending
  <2>4. CASE StartEmpty \/ SeqCanceled \/ SeqReturn \/ PoolReturn
    <3>1. ret = Pending
      BY <2>4 DEF IInv, FlagsInv, StartEmpty, SeqCanceled, SeqReturn, PoolReturn
    <3>2. QED
      BY <2>2, <2>3, <2>4, <3>1
         DEF IInv, FlagsInv, StartEmpty, SeqCanceled, SeqReturn, PoolReturn, Return
  <2>5. CASE UNCHANGED <<files, unreadable, ctxDone, ret>>
    BY <2>5 DEF Stage!vars, AsPromised
  <2>6. QED
    BY <2>1, <2>4, <2>5
       DEF Next, Main, WorkerStep, vars, static, contexts, Propagate, StartSequential,
           StartPool, SeqCheck, SeqParse, FeedCanceled, FeedDone, Terminating, Feed,
           WorkerClosed, WorkerStops, WorkerGoesOn, WorkerParses, WorkerStores
<1>4. QED
  BY <1>1, <1>3, Invariance, PTL DEF SafeSpec
=============================================================================
