----------------------------- MODULE ParsePool ------------------------------
(***************************************************************************)
(* Stage 2 of the pipeline: Pipeline.parseFiles and its goroutines         *)
(* (internal/application/parse.go).                                        *)
(*                                                                         *)
(* The calling goroutine ("main") either parses the files one after the    *)
(* other (one worker) or feeds their indices over the unbuffered channel   *)
(* jobs to a pool of workers, each of which stores its result in the slot  *)
(* of the index it received.  Two contexts matter: the caller's ctx and    *)
(* the pool's own wctx, canceled after ctx but not in the same instant.    *)
(*                                                                         *)
(* A DocumentID is its rank among the scanned identities, which are        *)
(* distinct because they are root-relative clean paths, so sorting by      *)
(* identity puts rank k at position k.  Parsing a file is reduced to the   *)
(* three outcomes the caller can tell apart.                               *)
(***************************************************************************)
EXTENDS Integers, Sequences, FiniteSets

CONSTANTS
  FileCounts,       \* numbers of files a scan may return
  Configured,       \* values of Config.ParseWorkers (none: autodetect)
  Procs,            \* values of runtime.GOMAXPROCS(0)
  MaxParseWorkers   \* the cap on the pool (16 in the code)

ASSUME ParsePoolAssumption ==
  /\ FileCounts \subseteq Nat
  /\ Configured \subseteq Int
  /\ Procs \subseteq Nat \ {0}
  /\ MaxParseWorkers \in Nat \ {0}

VARIABLES
  files,       \* index in the scan -> rank of the file's DocumentID
  unreadable,  \* ranks of the files os.ReadFile fails on
  workers,     \* effective worker count
  ctxDone,     \* ctx.Err() # nil
  wctxDone,    \* wctx.Err() # nil
  pc,          \* where main is
  next,        \* next index main parses or feeds
  closed,      \* jobs is closed
  feedErr,     \* the feeder stopped on wctx.Done
  wpc,         \* where each worker is
  idx,         \* the index each worker received last
  got,         \* the outcome each worker has not stored yet
  results,     \* one slot per file
  ret          \* what parseFiles returned

static   == <<files, unreadable, workers>>
contexts == <<ctxDone, wctxDone>>
pool     == <<wpc, idx, got>>
vars     == <<static, contexts, pc, next, closed, feedErr, pool, results, ret>>

-----------------------------------------------------------------------------
(* The data.                                                               *)

N       == Len(files)
Indices == 1..N
Worker  == 1..workers

Outcomes == {"doc", "readError", "canceled"}
Result   == [id : Indices, outcome : Outcomes]
Empty    == [id |-> 0, outcome |-> "none"]    \* the zero parseResult

Pending  == [kind |-> "none"]
Canceled == [kind |-> "canceled"]

Permutations(n) ==
  {f \in [1..n -> 1..n] : \A k \in 1..n : \E i \in 1..n : f[i] = k}

AtMost(a, b) == IF a > b THEN b ELSE a

\* resolveWorkerCount: zero or less means GOMAXPROCS, never above the cap or
\* the number of files, never below one.
ResolveWorkerCount(configured, procs, n) ==
  LET wanted == AtMost(IF configured <= 0 THEN procs ELSE configured, MaxParseWorkers)
  IN  IF AtMost(wanted, n) < 1 THEN 1 ELSE AtMost(wanted, n)

\* Parser.Parse: the file is read first; ParseBytes then looks at the context
\* before anything else and fails on no content.
Parse(f, canceled) ==
  IF files[f] \in unreadable THEN "readError"
  ELSE IF canceled THEN "canceled" ELSE "doc"

\* Mutant of SortResults: the results stay in the order of the scan.
Unsorted(rs) == [k \in DOMAIN rs |-> rs[k]]

\* sortResults: by DocumentID, that is the result of rank k at position k.
SortResults(rs) ==
  [k \in DOMAIN rs |-> rs[CHOOSE i \in DOMAIN rs : rs[i].id = k]]

-----------------------------------------------------------------------------
Init ==
  /\ \E n \in FileCounts : files \in Permutations(n)
  /\ unreadable \in SUBSET Indices
  /\ \E c \in Configured, p \in Procs : workers = ResolveWorkerCount(c, p, N)
  /\ ctxDone = FALSE /\ wctxDone = FALSE
  /\ pc = "start"
  /\ next = 1
  /\ closed = FALSE /\ feedErr = FALSE
  /\ wpc = [w \in Worker |-> "none"]
  /\ idx = [w \in Worker |-> 0]
  /\ got = [w \in Worker |-> "none"]
  /\ results = [i \in Indices |-> Empty]
  /\ ret = Pending

(* The environment.  ctx is canceled from outside at any time; wctx is     *)
(* derived from it and canceled by the context package some time later.    *)

Cancel ==
  /\ ~ctxDone
  /\ ctxDone' = TRUE
  /\ UNCHANGED <<static, wctxDone, pc, next, closed, feedErr, pool, results, ret>>

Propagate ==
  /\ ctxDone /\ ~wctxDone
  /\ wctxDone' = TRUE
  /\ UNCHANGED <<static, ctxDone, pc, next, closed, feedErr, pool, results, ret>>

Return(r) ==
  /\ ret' = r
  /\ pc' = "done"
  /\ UNCHANGED <<static, contexts, next, closed, feedErr, pool, results>>

(* parseFiles: no files, one worker, or a pool.                            *)

StartEmpty == pc = "start" /\ N = 0 /\ Return([kind |-> "ok", out |-> results])

StartSequential ==
  /\ pc = "start" /\ N > 0 /\ workers = 1
  /\ pc' = "seqCheck"
  /\ UNCHANGED <<static, contexts, next, closed, feedErr, pool, results, ret>>

StartPool ==
  /\ pc = "start" /\ N > 0 /\ workers > 1
  /\ pc' = "feed"
  /\ wpc' = [w \in Worker |-> "receive"]
  /\ UNCHANGED <<static, contexts, next, closed, feedErr, idx, got, results, ret>>

(* The sequential path: ctx is looked at before each file, and again by    *)
(* the parser; nothing looks at it after the last one.                     *)

SeqCheck ==
  /\ pc = "seqCheck" /\ next <= N /\ ~ctxDone
  /\ pc' = "seqParse"
  /\ UNCHANGED <<static, contexts, next, closed, feedErr, pool, results, ret>>

SeqCanceled == pc = "seqCheck" /\ next <= N /\ ctxDone /\ Return(Canceled)

SeqParse ==
  /\ pc = "seqParse"
  /\ results' = [results EXCEPT ![next] =
                   [id |-> files[next], outcome |-> Parse(next, ctxDone)]]
  /\ next' = next + 1
  /\ pc' = "seqCheck"
  /\ UNCHANGED <<static, contexts, closed, feedErr, pool, ret>>

SeqReturn ==
  /\ pc = "seqCheck" /\ next > N
  /\ Return([kind |-> "ok", out |-> SortResults(results)])

(* The feeder: a select between handing the next index to a worker that is *)
(* receiving and noticing that wctx is done.                               *)

\* Mutant of Feed: the loop variable does not advance.
FeedAgain(w) ==
  /\ pc = "feed" /\ next <= N /\ wpc[w] = "receive"
  /\ idx' = [idx EXCEPT ![w] = next]
  /\ wpc' = [wpc EXCEPT ![w] = "check"]
  /\ UNCHANGED <<static, contexts, pc, next, closed, feedErr, got, results, ret>>

Feed(w) ==
  /\ pc = "feed" /\ next <= N /\ wpc[w] = "receive"
  /\ idx' = [idx EXCEPT ![w] = next]
  /\ wpc' = [wpc EXCEPT ![w] = "check"]
  /\ next' = next + 1
  /\ UNCHANGED <<static, contexts, pc, closed, feedErr, got, results, ret>>

\* Mutant of FeedCanceled: the error path leaves without close(jobs).
FeedLeavesOpen ==
  /\ pc = "feed" /\ next <= N /\ wctxDone
  /\ feedErr' = TRUE
  /\ pc' = "wait"
  /\ UNCHANGED <<static, contexts, next, closed, pool, results, ret>>

FeedCanceled ==
  /\ pc = "feed" /\ next <= N /\ wctxDone
  /\ feedErr' = TRUE
  /\ closed' = TRUE
  /\ pc' = "wait"
  /\ UNCHANGED <<static, contexts, next, pool, results, ret>>

FeedDone ==
  /\ pc = "feed" /\ next > N
  /\ closed' = TRUE
  /\ pc' = "wait"
  /\ UNCHANGED <<static, contexts, next, feedErr, pool, results, ret>>

\* wg.Wait, then the two cancellation checks, then the sorted results.
AllExited == \A w \in Worker : wpc[w] = "exit"

PoolReturn ==
  /\ pc = "wait" /\ AllExited
  /\ IF feedErr \/ ctxDone
     THEN Return(Canceled)
     ELSE Return([kind |-> "ok", out |-> SortResults(results)])

(* A worker: range over jobs, look at wctx, parse, store.                  *)

WorkerClosed(w) ==
  /\ wpc[w] = "receive" /\ closed
  /\ wpc' = [wpc EXCEPT ![w] = "exit"]
  /\ UNCHANGED <<static, contexts, pc, next, closed, feedErr, idx, got, results, ret>>

WorkerStops(w) ==
  /\ wpc[w] = "check" /\ wctxDone
  /\ wpc' = [wpc EXCEPT ![w] = "exit"]
  /\ UNCHANGED <<static, contexts, pc, next, closed, feedErr, idx, got, results, ret>>

WorkerGoesOn(w) ==
  /\ wpc[w] = "check" /\ ~wctxDone
  /\ wpc' = [wpc EXCEPT ![w] = "parse"]
  /\ UNCHANGED <<static, contexts, pc, next, closed, feedErr, idx, got, results, ret>>

WorkerParses(w) ==
  /\ wpc[w] = "parse"
  /\ got' = [got EXCEPT ![w] = Parse(idx[w], wctxDone)]
  /\ wpc' = [wpc EXCEPT ![w] = "store"]
  /\ UNCHANGED <<static, contexts, pc, next, closed, feedErr, idx, results, ret>>

\* Mutant of WorkerStores: the slot is the feeder's index, shared by all.
StoresAtShared(w) ==
  /\ wpc[w] = "store"
  /\ results' = [results EXCEPT ![next - 1] =
                   [id |-> files[idx[w]], outcome |-> got[w]]]
  /\ got' = [got EXCEPT ![w] = "none"]
  /\ wpc' = [wpc EXCEPT ![w] = "receive"]
  /\ UNCHANGED <<static, contexts, pc, next, closed, feedErr, idx, ret>>

WorkerStores(w) ==
  /\ wpc[w] = "store"
  /\ results' = [results EXCEPT ![idx[w]] =
                   [id |-> files[idx[w]], outcome |-> got[w]]]
  /\ got' = [got EXCEPT ![w] = "none"]
  /\ wpc' = [wpc EXCEPT ![w] = "receive"]
  /\ UNCHANGED <<static, contexts, pc, next, closed, feedErr, idx, ret>>

WorkerStep(w) ==
  \/ WorkerClosed(w) \/ WorkerStops(w) \/ WorkerGoesOn(w)
  \/ WorkerParses(w) \/ WorkerStores(w)

Main ==
  \/ StartEmpty \/ StartSequential \/ StartPool
  \/ SeqCheck \/ SeqCanceled \/ SeqParse \/ SeqReturn
  \/ FeedCanceled \/ FeedDone \/ PoolReturn
  \/ \E w \in Worker : Feed(w)

\* parseFiles returned and every goroutine it started is gone.
Terminating ==
  /\ pc = "done" /\ \A w \in Worker : wpc[w] \in {"none", "exit"}
  /\ UNCHANGED vars

Next == Cancel \/ Propagate \/ Main \/ Terminating \/ \E w \in Worker : WorkerStep(w)

\* The Go scheduler runs every runnable goroutine eventually, and canceling
\* a context cancels its children.  Nobody is bound to cancel ctx.
Fairness ==
  /\ WF_vars(Main)
  /\ WF_vars(Propagate)
  /\ \A w \in 1..MaxParseWorkers : WF_vars(w \in Worker /\ WorkerStep(w))

SafeSpec == Init /\ [][Next]_vars
Spec     == SafeSpec /\ Fairness

-----------------------------------------------------------------------------
(* Type invariant.                                                         *)

\* The types; an answer that is no error is a slice of well-formed results.
TypeOK ==
  /\ N \in FileCounts /\ files \in Permutations(N)
  /\ unreadable \subseteq Indices
  /\ workers \in 1..MaxParseWorkers
  /\ ctxDone \in BOOLEAN /\ wctxDone \in BOOLEAN
  /\ pc \in {"start", "seqCheck", "seqParse", "feed", "wait", "done"}
  /\ next \in 1..(N + 1)
  /\ closed \in BOOLEAN /\ feedErr \in BOOLEAN
  /\ wpc \in [Worker -> {"none", "receive", "check", "parse", "store", "exit"}]
  /\ idx \in [Worker -> 0..N]
  /\ got \in [Worker -> Outcomes \union {"none"}]
  /\ results \in [Indices -> Result \union {Empty}]
  /\ ret \in {Pending, Canceled} \union
             [kind : {"ok"}, out : [Indices -> Result]]

(* What the caller relies on.                                              *)

\* The answer as the stage knows it: a success that carries a cancellation error
\* (the sequential path, see NoCanceledFile) counts as the cancellation it is.
AsPromised ==
  IF ret.kind = "ok" /\ \E k \in DOMAIN ret.out : ret.out[k].outcome = "canceled"
  THEN Canceled ELSE ret

Stage == INSTANCE ParseStage WITH
           files <- files, unreadable <- unreadable, ctxDone <- ctxDone, ret <- AsPromised

Filled(i)  == results[i] # Empty
Holding(w) == wpc[w] \in {"check", "parse", "store"}
Held(i)    == \E w \in Worker : Holding(w) /\ idx[w] = i

\* A successful answer has every scanned file, at the position its DocumentID
\* sorts to, with the outcome parsing it gives, whatever the worker count and
\* the interleaving (parseFiles, "byte-identical to the sequential path at any
\* worker count").  One thing escapes: on the sequential path the file
\* scanned last may carry a cancellation error.
SuccessIsComplete ==
  ret.kind = "ok" =>
    /\ DOMAIN ret.out = Indices
    /\ \A k \in Indices :
         /\ ret.out[k].id = k
         /\ \/ ret.out[k].outcome = Stage!Truth(k)
            \/ /\ ret.out[k].outcome = "canceled"
               /\ ctxDone /\ workers = 1 /\ files[N] = k

\* parseFiles, "Context cancellation is the only fatal condition": no
\* cancellation error reaches a caller that did not cancel, and when one does,
\* or results do, no goroutine of the pool is left running.
AnswerIsFinal ==
  /\ ret = Canceled => ctxDone
  /\ ret # Pending => \A w \in Worker : wpc[w] \in {"none", "exit"}

\* Two workers never own the same slot, and an owned slot is still empty: the
\* unsynchronized stores into results cannot race ("Write into this index only").
SlotOwnership ==
  \A w \in Worker : Holding(w) =>
    /\ idx[w] \in 1..(next - 1) /\ ~Filled(idx[w])
    /\ \A v \in Worker : Holding(v) /\ idx[v] = idx[w] => v = w

\* The pool's state is safe: every variable has its type, every slot its owner, and
\* no goroutine or error outlasts or precedes what explains it.
PoolIsSound == TypeOK /\ SlotOwnership /\ AnswerIsFinal

\* A stored result is final: no later step of any goroutine rewrites a slot.
StoredOnce ==
  [][\A i \in Indices : Filled(i) => results'[i] = results[i]]_vars

\* Sequential or pooled, parseFiles is the abstract stage: one complete answer, or
\* none and only after a cancellation.
ImplementsStage == Stage!Spec

\* parseFiles returns, canceled or not: the feeder never waits for a worker
\* that has left, and no worker waits for a feeder that has.
Returns == <>(pc = "done")

\* parseFiles, "the function returns the cancellation error": a success never
\* carries one.  It is what "byte-identical ... at any worker count" asks.
NoCanceledFile ==
  ret.kind = "ok" => \A k \in DOMAIN ret.out : ret.out[k].outcome # "canceled"
=============================================================================
