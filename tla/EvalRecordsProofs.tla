-------------------------- MODULE EvalRecordsProofs --------------------------
(***************************************************************************)
(* What the offline evaluation keeps on the disk and in the container      *)
(* runtime, for every suite, every result root, any number of processes,   *)
(* edits, crashes and failures.                                            *)
(***************************************************************************)
EXTENDS EvalRecords, SequencesExt, FiniteSetTheorems, WellFoundedInduction, TLAPS

\* A set of numbers has a least one, because their order is well-founded.
LEMMA LeastOf ==
  ASSUME NEW S \in SUBSET Nat, S # {}
  PROVE  \E x \in S : \A y \in S : x <= y
<1> DEFINE R == {ss \in Nat \X Nat : ss[1] < ss[2]}
<1>1. IsWellFoundedOn(R, Nat)
  BY NatLessThanWellFounded DEF OpToRel
<1>2. \A x, y \in Nat : <<y, x>> \in R <=> y < x
  OBVIOUS
<1> HIDE DEF R
<1>3. PICK x \in S : \A y \in S : ~(<<y, x>> \in R)
  BY <1>1, WFMin
<1>4. ASSUME NEW y \in S PROVE x <= y
  <2>1. x \in Nat /\ y \in Nat
    OBVIOUS
  <2>2. ~(y < x)
    BY <1>2, <1>3, <2>1
  <2>3. QED BY <2>1, <2>2
<1>5. QED BY <1>4

-----------------------------------------------------------------------------

(* The verifier: its types, and what it owes to the runtime and the scores. *)

Ats     == {"queued", "prepare", "start", "client", "abort", "swept", "building",
            "cleanup", "ended"}
Clients == {"none", "alive", "stuck"}
Errs    == {"none", "failure", "fault", "mismatch"}
Routine == [at : Ats, case : Nat, stage : Stages, client : Clients, err : Errs]
Things  == Tasks \X Nat \X (Stages \union {"volume"})
Truths  == {"unknown", "good", "bad", "lost"}
Scored  == [score : {0, 1}, truth : Truths]

VerifierTypeOK ==
  /\ goroutine \in [Tasks -> Routine]
  /\ exists \subseteq Things /\ failedTo \subseteq Things
  /\ truth \in [Tasks -> Truths] /\ scores \in [Tasks -> Seq(Scored)]
  /\ canceled \in BOOLEAN /\ faults \in Nat
  /\ verdict \in {"idle", "running", "ok", "error", "crashed"}

\* What a goroutine is at says what else is true of it.
Staged(t) ==
  /\ goroutine[t].at = "building" => goroutine[t].stage = "build"
  /\ goroutine[t].at \notin {"cleanup", "ended"} => goroutine[t].err = "none"
  /\ goroutine[t].at \in {"cleanup", "ended"} /\ Stuck(t) => goroutine[t].err = "fault"
  /\ goroutine[t].at = "cleanup" => goroutine[t].err # "mismatch"
  /\ goroutine[t].client = "alive" => goroutine[t].at \in {"client", "abort", "swept"}
  /\ Stuck(t) => goroutine[t].at \in {"abort", "swept", "cleanup", "ended"}

\* What the runtime holds belongs to the current case of a task that has a slot, or a
\* cleanup failed; a client that would not die can only add what is already owed.
OwnInv ==
  /\ \A e \in exists \ failedTo : e[1] \in Holding /\ e[2] = goroutine[e[1]].case
  /\ \A t \in Tasks : Stuck(t) => Current(t) \in failedTo

\* The truth about a case is known when it is about to be scored.
Settled(t) ==
  goroutine[t].at = "cleanup" =>
    /\ goroutine[t].err = "none"    => truth[t] = "good"
    /\ goroutine[t].err = "failure" => truth[t] \in {"bad", "lost"}

StageInv == \A t \in Tasks : Staged(t) /\ Settled(t)

SlotInv == Cardinality(Holding) <= Slots
DoneInv == Returned => Holding = {}

VInv ==
  /\ VerifierTypeOK /\ StageInv /\ OwnInv /\ SlotInv /\ DoneInv
  /\ ScoreIsEarned

-----------------------------------------------------------------------------
(* The records: which command is where, and what it has read and written.  *)

Route ==
  [c \in Commands |->
     CASE c = "inspect-images" -> {"create", "fill"}
       [] c = "freeze --write" -> {"images", "build", "truncate", "rewrite"}
       [] c \in {"freeze", "probe"} -> {"gate", "build", "compare"}
       [] c = "verify"         -> {"gate", "build", "compare", "inspect", "again", "verifying"}
       [] c = "smoke"          -> {"trajectory", "result", "results", "trajectories"}
       [] c = "report"         -> {"results", "trajectories", "page", "print"}
       [] c = "validate"       -> {"results", "trajectories"}
       [] c = "none"           -> {}]

Suites == [1..2 -> Nat]
Rows   == UNION {[S -> ResultRecord] : S \in SUBSET DOMAIN results}

Process ==
  [cmd : Commands, at : (UNION {Route[c] : c \in Commands}) \union {"start", "ended"},
   mem : Suites \union {<<>>}, hash : Seq(Nat), want : FreezeRecord \union {Absent, Torn},
   id : Nat, rows : Rows, told : {"running", "ok", "error", "crashed"}]

RecordsTypeOK ==
  /\ proc \in [Procs -> Process]
  /\ stale \subseteq Procs /\ suite \in Suites /\ image \in Nat
  /\ audited \in Nat \union {Absent, Torn}
  /\ frozen \in FreezeRecord \union {Absent, Torn}
  /\ "smoke" \in DOMAIN results /\ "none" \notin DOMAIN results
  /\ results \in [DOMAIN results -> ResultRecord \union {Absent, Torn}]
  /\ trajectories \in [DOMAIN results -> TrajectoryRecord \union {Absent, Torn}]
  /\ edits \in Nat /\ crashes \in Nat

Routed(p) ==
  /\ proc[p].at \in Route[proc[p].cmd] \union {"start", "ended"}
  /\ proc[p].told = "running" <=> proc[p].at # "ended"
  /\ proc[p].at = "start" => proc[p].id = 0 /\ proc[p].cmd # "none"

\* The suite in memory is the one on the disk until somebody edits it, and what has been
\* hashed so far is a part of it, under the same proviso.
Hashed(p) ==
  /\ proc[p].at \notin {"start", "ended"} /\ p \notin stale => proc[p].mem = suite
  /\ proc[p].at \in {"start", "images", "gate"} => proc[p].hash = <<>>
  /\ proc[p].at = "build" => Len(proc[p].hash) < 2
  /\ proc[p].at \in {"compare", "rewrite", "truncate"} => Len(proc[p].hash) = 2
  /\ proc[p].at \in {"build", "compare"} /\ proc[p].cmd \in Gated => Whole(proc[p].want)
  /\ proc[p].at \in {"build", "compare"} /\ p \notin stale =>
       \A k \in 1..Len(proc[p].hash) : proc[p].hash[k] = proc[p].mem[k]

\* FrozenOrRefused, of one process.
Gate(p) ==
  Passed(p) => Whole(proc[p].want) /\ (p \notin stale => proc[p].mem = proc[p].want.suite)

\* Rows that were loaded are whole results on the disk, and once they are checked their
\* trajectories are there and their retries allowed.
OnDisk(rs) == \A a \in DOMAIN rs : a \in DOMAIN results /\ Whole(results[a]) /\ results[a] = rs[a]

Checked(rs) ==
  /\ OnDisk(rs)
  /\ \A a \in DOMAIN rs : Whole(trajectories[a]) /\ RetryIsAllowed(rs, a)

Rowed(p) ==
  /\ proc[p].at = "trajectories" => OnDisk(proc[p].rows)
  /\ proc[p].at \in {"page", "print"} => Checked(proc[p].rows)

Sound(p) == Routed(p) /\ Hashed(p) /\ Gate(p) /\ Rowed(p)

\* A file that is being filled is not whole, and one process fills it.
Filling(p, at) == proc[p].at = at /\ (at # "fill" => proc[p].id = 1)

FillInv ==
  /\ \A p, q \in Procs, at \in {"fill", "trajectory", "result"} :
       Filling(p, at) /\ Filling(q, at) => p = q
  /\ \A p \in Procs :
       /\ Filling(p, "fill")       => audited = Torn
       /\ Filling(p, "trajectory") => trajectories["smoke"] = Torn
       /\ Filling(p, "result")     => results["smoke"] = Torn

PageInv == Whole(page) => page \in Rows /\ Checked(page)

SoundInv == \A p \in Procs : Sound(p)

IInv == VInv /\ RecordsTypeOK /\ SoundInv /\ FillInv /\ PageInv

-----------------------------------------------------------------------------
(* One task of the verifier moves.                                          *)

LEMMA HoldingFinite ==
  ASSUME VerifierTypeOK
  PROVE  IsFiniteSet(Holding) /\ Cardinality(Holding) \in Nat
<1>1. IsFiniteSet(Tasks)
  BY VerifierAssumption
<1>2. Holding \subseteq Tasks
  BY DEF Holding
<1>3. QED BY <1>1, <1>2, FS_Subset, FS_CardinalityType

\* What a step of task t must show: it stays consistent, takes a slot only when one is
\* free, and what it adds to the runtime is of its current case, or owed.
LEMMA MoveInv ==
  ASSUME VInv, NEW t \in Tasks, verdict = "running", verdict' = "running",
         VerifierTypeOK',
         \A u \in Tasks \ {t} : goroutine'[u] = goroutine[u] /\ truth'[u] = truth[u],
         Staged(t)', Settled(t)',
         (t \in Holding)' => t \in Holding \/ Cardinality(Holding) < Slots,
         failedTo \subseteq failedTo',
         \A e \in exists' \ failedTo' :
           \/ e \in exists \ failedTo /\ e[1] # t
           \/ e[1] = t /\ (t \in Holding)' /\ e[2] = goroutine'[t].case,
         Stuck(t)' => (Current(t) \in failedTo)',
         ScoreIsEarned'
  PROVE  VInv'
<1>1. VerifierTypeOK /\ StageInv /\ OwnInv /\ SlotInv
  BY DEF VInv
<1>2. StageInv'
  BY <1>1 DEF StageInv, Staged, Settled, Stuck
<1>3. \A u \in Tasks \ {t} : (u \in Holding)' <=> u \in Holding
  BY DEF Holding
<1>4. OwnInv'
  <2>1. ASSUME NEW e \in exists' \ failedTo'
        PROVE  (e[1] \in Holding)' /\ e[2] = goroutine'[e[1]].case
    <3>1. CASE e \in exists \ failedTo /\ e[1] # t
      <4>1. e[1] \in Holding /\ e[2] = goroutine[e[1]].case
        BY <1>1, <3>1 DEF OwnInv
      <4>2. e[1] \in Tasks \ {t}
        BY <3>1, <4>1 DEF Holding
      <4>3. QED BY <1>3, <4>1, <4>2
    <3>2. QED BY <2>1, <3>1
  <2>2. \A u \in Tasks : Stuck(u)' => (Current(u) \in failedTo)'
    <3> SUFFICES ASSUME NEW u \in Tasks \ {t}, Stuck(u)' PROVE (Current(u) \in failedTo)'
      OBVIOUS
    <3>1. Stuck(u) /\ Current(u)' = Current(u)
      BY DEF Stuck, Current, Mine
    <3>2. QED BY <1>1, <3>1 DEF OwnInv
  <2>3. QED BY <2>1, <2>2 DEF OwnInv
<1>5. SlotInv'
  <2>1. IsFiniteSet(Holding) /\ Cardinality(Holding) \in Nat
    BY <1>1, HoldingFinite
  <2>2. CASE t \in Holding \/ (t \notin Holding)'
    <3>1. Holding' \subseteq Holding
      BY <1>3, <2>2 DEF Holding
    <3>2. Cardinality(Holding') <= Cardinality(Holding) /\ Cardinality(Holding') \in Nat
      BY <2>1, <3>1, FS_Subset, FS_CardinalityType
    <3>3. QED BY <1>1, <2>1, <3>2 DEF SlotInv, Slots
  <2>3. CASE t \notin Holding /\ (t \in Holding)'
    <3>1. Holding' = Holding \union {t}
      BY <1>3, <2>3 DEF Holding
    <3>2. Cardinality(Holding') = Cardinality(Holding) + 1
      BY <2>1, <2>3, <3>1, FS_AddElement
    <3>3. QED BY <2>1, <2>3, <3>2 DEF SlotInv, Slots
  <2>4. QED BY <2>2, <2>3
<1>6. DoneInv'
  BY DEF DoneInv, Returned
<1>7. QED BY <1>2, <1>4, <1>5, <1>6 DEF VInv

\* A step within a case: the task keeps its slot, and no case is scored.
LEMMA StepInv ==
  ASSUME VInv, NEW t \in Tasks, verdict = "running", verdict' = "running",
         t \in Holding, NEW r \in Routine, goroutine' = [goroutine EXCEPT ![t] = r],
         r.case = goroutine[t].case, r.at \notin {"queued", "ended"},
         truth' = truth \/ (\E w \in Truths : truth' = [truth EXCEPT ![t] = w]),
         exists' \subseteq exists \union AllMine(t),
         failedTo \subseteq failedTo', failedTo' \subseteq Things,
         UNCHANGED <<scores, canceled>>, faults' \in Nat,
         Staged(t)', Settled(t)',
         Stuck(t)' => (Current(t) \in failedTo)'
  PROVE  VInv'
<1>1. VerifierTypeOK /\ OwnInv /\ ScoreIsEarned
  BY DEF VInv
<1>2. /\ goroutine' \in [Tasks -> Routine] /\ goroutine'[t] = r
      /\ \A u \in Tasks \ {t} : goroutine'[u] = goroutine[u]
  BY <1>1 DEF VerifierTypeOK
<1>3. truth' \in [Tasks -> Truths] /\ \A u \in Tasks \ {t} : truth'[u] = truth[u]
  BY <1>1 DEF VerifierTypeOK
<1>4. goroutine[t] \in Routine
  BY <1>1 DEF VerifierTypeOK
<1>5. AllMine(t) \subseteq Things /\ \A e \in AllMine(t) : e[1] = t /\ e[2] = goroutine[t].case
  BY <1>4 DEF AllMine, Mine, Things, Routine
<1>6. VerifierTypeOK'
  BY <1>1, <1>2, <1>3, <1>5 DEF VerifierTypeOK
<1>7. (t \in Holding)'
  BY <1>2 DEF Holding
<1>8. ASSUME NEW e \in exists' \ failedTo'
      PROVE  \/ e \in exists \ failedTo /\ e[1] # t
             \/ e[1] = t /\ (t \in Holding)' /\ e[2] = goroutine'[t].case
  <2>1. CASE e \in AllMine(t)
    BY <1>2, <1>5, <1>7, <2>1
  <2>2. CASE e \in exists
    BY <1>1, <1>2, <1>7, <1>8, <2>2 DEF OwnInv
  <2>3. QED BY <1>8, <2>1, <2>2
<1>9. ScoreIsEarned'
  BY <1>1 DEF ScoreIsEarned
<1>10. QED BY <1>2, <1>3, <1>6, <1>8, <1>9, MoveInv

\* A goroutine and its fields.
LEMMA RoutineFacts ==
  ASSUME VInv, NEW t \in Tasks
  PROVE  /\ goroutine[t] \in Routine /\ goroutine \in [Tasks -> Routine]
         /\ goroutine[t].at \in Ats /\ goroutine[t].case \in Nat
         /\ goroutine[t].stage \in Stages /\ goroutine[t].client \in Clients
         /\ goroutine[t].err \in Errs
         /\ Staged(t) /\ Settled(t) /\ (Stuck(t) => Current(t) \in failedTo)
         /\ truth \in [Tasks -> Truths] /\ faults \in Nat
         /\ exists \subseteq Things /\ failedTo \subseteq Things
<1>1. goroutine \in [Tasks -> Routine]
  BY DEF VInv, VerifierTypeOK
<1>2. goroutine[t] \in Routine
  BY <1>1
<1>3. /\ goroutine[t].at \in Ats /\ goroutine[t].case \in Nat
      /\ goroutine[t].stage \in Stages /\ goroutine[t].client \in Clients
      /\ goroutine[t].err \in Errs
  BY <1>2 DEF Routine
<1>4. Staged(t) /\ Settled(t) /\ (Stuck(t) => Current(t) \in failedTo)
  BY DEF VInv, StageInv, OwnInv
<1>5. /\ truth \in [Tasks -> Truths] /\ faults \in Nat
      /\ exists \subseteq Things /\ failedTo \subseteq Things
  BY DEF VInv, VerifierTypeOK
<1>6. QED BY <1>1, <1>2, <1>3, <1>4, <1>5

\* A case ends with an error; it is the candidate's only if the candidate was bad, or
\* the runtime lost it.
LEMMA FailsInv ==
  ASSUME VInv, NEW t \in Tasks, verdict = "running", verdict' = "running",
         goroutine[t].at \in {"prepare", "start", "client", "abort", "swept", "building"},
         NEW err \in {"failure", "fault"}, Fails(t, err), Stuck(t) => err = "fault",
         NEW w \in Truths, truth' = truth \/ truth' = [truth EXCEPT ![t] = w],
         err = "failure" => truth'[t] \in {"bad", "lost"},
         exists' \subseteq exists \union AllMine(t),
         UNCHANGED <<failedTo, scores, canceled>>, faults' \in Nat
  PROVE  VInv'
<1>1. /\ goroutine \in [Tasks -> Routine] /\ goroutine[t] \in Routine
      /\ goroutine[t].at \in Ats /\ goroutine[t].case \in Nat
      /\ goroutine[t].stage \in Stages /\ goroutine[t].client \in Clients
      /\ Staged(t) /\ (Stuck(t) => Current(t) \in failedTo)
      /\ failedTo \subseteq Things
  BY RoutineFacts
<1> DEFINE stage  == IF Stuck(t) THEN goroutine[t].stage ELSE "check"
           client == IF Stuck(t) THEN goroutine[t].client ELSE "none"
           r == [goroutine[t] EXCEPT !.at = "cleanup", !.err = err,
                                     !.stage = stage, !.client = client]
<1>0. goroutine' = [goroutine EXCEPT ![t].at = "cleanup", ![t].err = err,
                                     ![t].stage = stage, ![t].client = client]
  BY <1>1 DEF Fails, Routine
<1>2. stage \in Stages /\ client \in Clients
  BY <1>1 DEF Stages, Clients
<1>11. Stuck(t) => stage = goroutine[t].stage /\ client = goroutine[t].client
  OBVIOUS
<1>12. ~Stuck(t) => client = "none"
  OBVIOUS
<1> HIDE DEF stage, client
<1>3. goroutine' = [goroutine EXCEPT ![t] = r]
  BY <1>0, <1>1 DEF Routine
<1>4. /\ r \in Routine /\ goroutine'[t] = r /\ r.at = "cleanup" /\ r.err = err
      /\ r.stage = stage /\ r.client = client /\ r.case = goroutine[t].case
  BY <1>1, <1>2, <1>3 DEF Routine, Ats, Errs
<1> HIDE DEF r
<1>5. Staged(t)'
  BY <1>4, <1>11, <1>12 DEF Staged, Stuck
<1>6. Settled(t)'
  BY <1>4 DEF Settled
<1>7. Stuck(t)' => (Current(t) \in failedTo)'
  BY <1>1, <1>4, <1>11, <1>12 DEF Stuck, Current, Mine
<1>8. t \in Holding
  BY DEF Holding
<1>9. r.case = goroutine[t].case /\ r.at \notin {"queued", "ended"}
  BY <1>4
<1>10. QED BY <1>1, <1>3, <1>4, <1>5, <1>6, <1>7, <1>8, <1>9, StepInv

\* A stage passes; the candidate was good if it was the last one.
LEMMA PassesInv ==
  ASSUME VInv, NEW t \in Tasks, verdict = "running", verdict' = "running",
         goroutine[t].at \in {"client", "building"}, ~Stuck(t), Passes(t),
         truth' = [truth EXCEPT ![t] = IF goroutine[t].stage = "run" THEN "good" ELSE @]
           \/ (goroutine[t].stage # "run" /\ truth' = truth),
         exists' \subseteq exists, UNCHANGED <<failedTo, scores, canceled, faults>>
  PROVE  VInv'
<1>1. /\ goroutine \in [Tasks -> Routine] /\ goroutine[t] \in Routine
      /\ goroutine[t].at \in Ats /\ goroutine[t].case \in Nat
      /\ goroutine[t].stage \in Stages /\ goroutine[t].err \in Errs
      /\ Staged(t) /\ failedTo \subseteq Things /\ truth \in [Tasks -> Truths]
      /\ faults \in Nat
  BY RoutineFacts
<1> DEFINE r == [at |-> IF goroutine[t].stage = "run" THEN "cleanup" ELSE "start",
                 case |-> goroutine[t].case, stage |-> Following[goroutine[t].stage],
                 client |-> "none", err |-> goroutine[t].err]
<1>2. Following[goroutine[t].stage] \in Stages
  BY <1>1 DEF Following, Stages
<1>3. r \in Routine
  BY <1>1, <1>2 DEF Routine, Ats, Clients
<1>4. goroutine' = [goroutine EXCEPT ![t] = r]
  BY <1>1 DEF Passes, Routine
<1>5. goroutine'[t] = r
  BY <1>1, <1>4
<1>6. goroutine[t].err = "none"
  BY <1>1 DEF Staged
<1>7. Staged(t)'
  BY <1>5, <1>6 DEF Staged, Stuck
<1>8. Settled(t)'
  BY <1>1, <1>5, <1>6 DEF Settled
<1>9. ~Stuck(t)'
  BY <1>5 DEF Stuck
<1>10. t \in Holding
  BY DEF Holding
<1>11. r.case = goroutine[t].case /\ r.at \notin {"queued", "ended"}
  OBVIOUS
<1>12. truth' = truth \/ \E w \in Truths : truth' = [truth EXCEPT ![t] = w]
  BY <1>1 DEF Truths
<1> HIDE DEF r
<1>13. QED BY <1>1, <1>3, <1>4, <1>7, <1>8, <1>9, <1>10, <1>11, <1>12, StepInv

-----------------------------------------------------------------------------
(* The steps of a task.                                                     *)

LEMMA AcquireInv ==
  ASSUME VInv, NEW t \in Tasks, Acquire(t)
  PROVE  VInv'
<1>1. /\ goroutine \in [Tasks -> Routine] /\ goroutine[t] \in Routine
      /\ Staged(t) /\ goroutine[t].at = "queued" /\ Cardinality(Holding) < Slots
      /\ verdict = "running" /\ verdict' = "running"
      /\ UNCHANGED exists /\ UNCHANGED failedTo /\ UNCHANGED truth /\ UNCHANGED scores
      /\ UNCHANGED canceled /\ UNCHANGED faults
  BY RoutineFacts DEF Acquire, At
<1>2. goroutine' = [goroutine EXCEPT ![t].at = "prepare"]
  BY DEF Acquire, Goes
<1>3. /\ goroutine' \in [Tasks -> Routine] /\ goroutine'[t].at = "prepare"
      /\ goroutine'[t].err = goroutine[t].err /\ goroutine'[t].client = goroutine[t].client
      /\ \A u \in Tasks \ {t} : goroutine'[u] = goroutine[u]
  BY <1>1, <1>2 DEF Routine, Ats
<1>4. VerifierTypeOK'
  BY <1>1, <1>3 DEF VInv, VerifierTypeOK
<1>5. Staged(t)' /\ Settled(t)' /\ ~Stuck(t)'
  BY <1>1, <1>3 DEF Staged, Settled, Stuck
<1>6. ASSUME NEW e \in exists' \ failedTo' PROVE e \in exists \ failedTo /\ e[1] # t
  BY <1>1, <1>6 DEF VInv, OwnInv, Holding
<1>7. ScoreIsEarned'
  BY <1>1 DEF VInv, ScoreIsEarned
<1>8. QED BY <1>1, <1>3, <1>4, <1>5, <1>6, <1>7, MoveInv

\* A step that only changes at.
LEMMA GoesInv ==
  ASSUME VInv, NEW t \in Tasks, verdict = "running", verdict' = "running",
         goroutine[t].at \in {"prepare", "client", "abort"},
         NEW at \in {"start", "abort", "swept"}, Goes(t, at),
         at \in {"start"} => goroutine[t].client = "none",
         exists' \subseteq exists \union AllMine(t),
         UNCHANGED <<failedTo, truth, scores, canceled>>, faults' \in Nat
  PROVE  VInv'
<1>1. /\ goroutine \in [Tasks -> Routine] /\ goroutine[t] \in Routine
      /\ Staged(t) /\ (Stuck(t) => Current(t) \in failedTo) /\ failedTo \subseteq Things
  BY RoutineFacts
<1> DEFINE r == [goroutine[t] EXCEPT !.at = at]
<1>2. /\ r \in Routine /\ r.at = at /\ r.case = goroutine[t].case
      /\ r.stage = goroutine[t].stage /\ r.client = goroutine[t].client
      /\ r.err = goroutine[t].err
  BY <1>1 DEF Routine, Ats
<1>3. goroutine' = [goroutine EXCEPT ![t] = r] /\ goroutine'[t] = r
  BY <1>1 DEF Goes
<1> HIDE DEF r
<1>4. Staged(t)' /\ Settled(t)'
  BY <1>1, <1>2, <1>3 DEF Staged, Settled, Stuck
<1>5. Stuck(t)' => (Current(t) \in failedTo)'
  BY <1>1, <1>2, <1>3 DEF Stuck, Current, Mine
<1>6. t \in Holding
  BY DEF Holding
<1>7. QED BY <1>1, <1>2, <1>3, <1>4, <1>5, <1>6, StepInv

LEMMA PrepareInv ==
  ASSUME VInv, NEW t \in Tasks, verdict = "running", Prepare(t)
  PROVE  VInv'
<1>1. /\ goroutine[t].at = "prepare" /\ verdict' = "running"
      /\ UNCHANGED <<failedTo, scores, canceled>>
  BY DEF Prepare, At
<1>2. goroutine[t].client = "none" /\ ~Stuck(t) /\ truth \in [Tasks -> Truths] /\ faults \in Nat
  BY <1>1, RoutineFacts DEF Staged, Stuck, Clients
<1>3. Mine(t, "volume") \in AllMine(t)
  BY DEF AllMine
<1>4. CASE /\ exists' = exists \union {Mine(t, "volume")} /\ Goes(t, "start")
           /\ UNCHANGED <<truth, faults>>
  BY <1>1, <1>2, <1>3, <1>4, GoesInv
<1>5. CASE /\ Fails(t, "failure") /\ truth' = [truth EXCEPT ![t] = "bad"]
           /\ UNCHANGED <<exists, faults>>
  <2>1. truth'[t] = "bad" /\ "bad" \in Truths
    BY <1>2, <1>5 DEF Truths
  <2>2. QED BY <1>1, <1>2, <1>5, <2>1, FailsInv
<1>6. CASE /\ Fault /\ Fails(t, "fault") /\ UNCHANGED truth
           /\ \E V \in SUBSET {Mine(t, "volume")} : exists' = exists \union V
  <2>1. faults' \in Nat /\ exists' \subseteq exists \union AllMine(t) /\ "bad" \in Truths
    BY <1>2, <1>3, <1>6 DEF Fault, Truths
  <2>2. QED BY <1>1, <1>2, <1>6, <2>1, FailsInv
<1>7. QED BY <1>4, <1>5, <1>6 DEF Prepare

LEMMA StartInv ==
  ASSUME VInv, NEW t \in Tasks, verdict = "running", Start(t)
  PROVE  VInv'
<1>1. /\ goroutine[t].at = "start" /\ verdict' = "running"
      /\ UNCHANGED <<failedTo, scores, canceled>> /\ UNCHANGED exists
  BY DEF Start, At
<1>2. /\ goroutine \in [Tasks -> Routine] /\ goroutine[t] \in Routine /\ Staged(t)
      /\ ~Stuck(t) /\ faults \in Nat /\ "lost" \in Truths /\ failedTo \subseteq Things
      /\ truth \in [Tasks -> Truths]
  BY <1>1, RoutineFacts DEF Staged, Stuck, Truths
<1>3. CASE /\ UNCHANGED <<truth, faults>>
           /\ goroutine' = [goroutine EXCEPT ![t].at = "client", ![t].client = "alive"]
  <2> DEFINE r == [goroutine[t] EXCEPT !.at = "client", !.client = "alive"]
  <2>1. /\ r \in Routine /\ r.at = "client" /\ r.case = goroutine[t].case
        /\ r.client = "alive" /\ r.err = goroutine[t].err
    BY <1>2 DEF Routine, Ats, Clients
  <2>2. goroutine' = [goroutine EXCEPT ![t] = r] /\ goroutine'[t] = r
    BY <1>2, <1>3 DEF Routine
  <2> HIDE DEF r
  <2>3. Staged(t)' /\ Settled(t)' /\ ~Stuck(t)'
    BY <1>1, <1>2, <2>1, <2>2 DEF Staged, Settled, Stuck
  <2>4. t \in Holding
    BY <1>1 DEF Holding
  <2>5. QED BY <1>1, <1>2, <1>3, <2>1, <2>2, <2>3, <2>4, StepInv
<1>4. CASE Fails(t, "fault") /\ (UNCHANGED faults \/ Fault) /\ UNCHANGED truth
  <2>1. faults' \in Nat
    BY <1>2, <1>4 DEF Fault
  <2>2. QED BY <1>1, <1>2, <1>4, <2>1, FailsInv
<1>5. CASE Fault /\ Fails(t, "failure") /\ truth' = [truth EXCEPT ![t] = "lost"]
  <2>1. truth'[t] = "lost" /\ faults' \in Nat
    BY <1>2, <1>5 DEF Fault
  <2>2. QED BY <1>1, <1>2, <1>5, <2>1, FailsInv
<1>6. QED BY <1>3, <1>4, <1>5 DEF Start

\* The runtime broke off, and the candidate is charged with it.
LEMMA RuntimeLosesInv ==
  ASSUME VInv, NEW t \in Tasks, verdict = "running", RuntimeLoses(t)
  PROVE  VInv'
<1>1. /\ goroutine[t].at \in {"client", "building"} /\ verdict' = "running"
      /\ Fault /\ Fails(t, "failure") /\ truth' = [truth EXCEPT ![t] = "lost"]
      /\ exists' \subseteq exists /\ UNCHANGED <<failedTo, scores, canceled>>
  BY DEF RuntimeLoses, At
<1>2. /\ ~Stuck(t) /\ faults \in Nat /\ "lost" \in Truths
      /\ truth \in [Tasks -> Truths]
  BY <1>1, RoutineFacts DEF Staged, Stuck, Truths
<1>3. truth'[t] = "lost" /\ faults' \in Nat
  BY <1>1, <1>2 DEF Fault
<1>4. QED BY <1>1, <1>2, <1>3, FailsInv

LEMMA ContainerEndsInv ==
  ASSUME VInv, NEW t \in Tasks, verdict = "running", ContainerEnds(t)
  PROVE  VInv'
<1>1. /\ goroutine[t].at = "client" /\ verdict' = "running"
      /\ UNCHANGED <<failedTo, scores, canceled>>
  BY DEF ContainerEnds, At
<1>2. /\ ~Stuck(t) /\ faults \in Nat /\ "bad" \in Truths
      /\ truth \in [Tasks -> Truths]
  BY <1>1, RoutineFacts DEF Staged, Stuck, Truths
<1>3. CASE /\ exists' = exists \ {Current(t)} /\ UNCHANGED faults
           /\ Passes(t) /\ truth' = [truth EXCEPT ![t] =
                                      IF goroutine[t].stage = "run" THEN "good" ELSE @]
  BY <1>1, <1>2, <1>3, PassesInv
<1>4. CASE /\ exists' = exists \ {Current(t)} /\ UNCHANGED faults
           /\ Fails(t, "failure") /\ truth' = [truth EXCEPT ![t] = "bad"]
  <2>1. truth'[t] = "bad"
    BY <1>2, <1>4
  <2>2. exists' \subseteq exists \union AllMine(t) /\ faults' \in Nat
    BY <1>2, <1>4
  <2>3. QED BY <1>1, <1>2, <1>4, <2>1, <2>2, FailsInv
<1>5. CASE /\ Fault /\ Fails(t, "fault")
           /\ \E C \in SUBSET {Current(t)} : exists' = exists \ C
           /\ truth' \in {truth, [truth EXCEPT ![t] = "bad"]}
  <2>1. exists' \subseteq exists \union AllMine(t) /\ faults' \in Nat
    BY <1>2, <1>5 DEF Fault
  <2>2. QED BY <1>1, <1>2, <1>5, <2>1, FailsInv
<1>6. QED BY <1>3, <1>4, <1>5 DEF ContainerEnds

\* The steps that end a case with a failure that is not the candidate's.
LEMMA FaultInv ==
  ASSUME VInv, NEW t \in Tasks, verdict = "running",
         SetupFails(t) \/ Abandon(t) \/ BuildKilled(t)
  PROVE  VInv'
<1>1. /\ verdict' = "running" /\ goroutine[t].at \in {"client", "swept"} /\ Fails(t, "fault")
      /\ exists' \subseteq exists /\ (UNCHANGED faults \/ Fault)
      /\ UNCHANGED <<failedTo, scores, canceled>> /\ UNCHANGED truth
  BY DEF SetupFails, Abandon, BuildKilled, At
<1>2. faults' \in Nat /\ "bad" \in Truths
  BY <1>1, RoutineFacts DEF Fault, Truths
<1>3. QED BY <1>1, <1>2, FailsInv

LEMMA AbortInv ==
  ASSUME VInv, NEW t \in Tasks, verdict = "running", Abort(t) \/ Sweep(t)
  PROVE  VInv'
<1>1. CASE Abort(t)
  <2>1. faults' \in Nat
    BY <1>1, RoutineFacts DEF Abort
  <2>2. QED BY <1>1, <2>1, GoesInv DEF Abort, At
<1>2. CASE Sweep(t)
  <2>1. faults' \in Nat /\ exists' \subseteq exists
    BY <1>2, RoutineFacts DEF Sweep, Fault
  <2>2. QED BY <1>2, <2>1, GoesInv DEF Sweep, At
<1>3. QED BY <1>1, <1>2

LEMMA KillInv ==
  ASSUME VInv, NEW t \in Tasks, verdict = "running", Kill(t)
  PROVE  VInv'
<1>1. /\ goroutine[t].at \in {"abort", "swept"} /\ verdict' = "running"
      /\ UNCHANGED <<scores, canceled>> /\ UNCHANGED truth /\ UNCHANGED exists
  BY DEF Kill
<1>2. /\ goroutine \in [Tasks -> Routine] /\ goroutine[t] \in Routine /\ Staged(t)
      /\ faults \in Nat /\ failedTo \subseteq Things
      /\ goroutine[t].case \in Nat /\ goroutine[t].stage \in Stages
  BY RoutineFacts
<1>3. PICK c \in {"none", "stuck"} :
        /\ goroutine' = [goroutine EXCEPT ![t].client = c]
        /\ c = "none"  => UNCHANGED <<failedTo, faults>>
        /\ c = "stuck" => Fault /\ failedTo' = failedTo \union {Current(t)}
  BY DEF Kill
<1> DEFINE r == [goroutine[t] EXCEPT !.client = c]
<1>4. /\ r \in Routine /\ r.at = goroutine[t].at /\ r.case = goroutine[t].case
      /\ r.stage = goroutine[t].stage /\ r.client = c /\ r.err = goroutine[t].err
  BY <1>2 DEF Routine, Clients
<1>5. goroutine' = [goroutine EXCEPT ![t] = r] /\ goroutine'[t] = r
  BY <1>2, <1>3 DEF Routine
<1> HIDE DEF r
<1>6. Staged(t)' /\ Settled(t)'
  BY <1>1, <1>2, <1>4, <1>5 DEF Staged, Settled, Stuck
<1>7. Current(t) \in Things
  BY <1>2 DEF Current, Mine, Things
<1>8. faults' \in Nat /\ failedTo \subseteq failedTo' /\ failedTo' \subseteq Things
  BY <1>2, <1>3, <1>7 DEF Fault
<1>9. Stuck(t)' => (Current(t) \in failedTo)'
  BY <1>3, <1>4, <1>5 DEF Stuck, Current, Mine
<1>10. t \in Holding
  BY <1>1 DEF Holding
<1>11. QED BY <1>1, <1>4, <1>5, <1>6, <1>8, <1>9, <1>10, StepInv

LEMMA BuildStartedInv ==
  ASSUME VInv, NEW t \in Tasks, verdict = "running", BuildStarted(t)
  PROVE  VInv'
<1>1. /\ goroutine[t].at = "client" /\ goroutine[t].stage = "build" /\ verdict' = "running"
      /\ UNCHANGED <<failedTo, scores, canceled>> /\ UNCHANGED truth /\ UNCHANGED exists
  BY DEF BuildStarted, At, Build
<1>2. /\ goroutine \in [Tasks -> Routine] /\ goroutine[t] \in Routine /\ Staged(t)
      /\ ~Stuck(t) /\ faults \in Nat /\ failedTo \subseteq Things /\ "bad" \in Truths
  BY <1>1, RoutineFacts DEF Staged, Stuck, Truths
<1>3. CASE /\ UNCHANGED faults
           /\ goroutine' = [goroutine EXCEPT ![t].at = "building", ![t].client = "none"]
  <2> DEFINE r == [goroutine[t] EXCEPT !.at = "building", !.client = "none"]
  <2>1. /\ r \in Routine /\ r.at = "building" /\ r.case = goroutine[t].case
        /\ r.stage = goroutine[t].stage /\ r.client = "none" /\ r.err = goroutine[t].err
    BY <1>2 DEF Routine, Ats, Clients
  <2>2. goroutine' = [goroutine EXCEPT ![t] = r] /\ goroutine'[t] = r
    BY <1>2, <1>3 DEF Routine
  <2> HIDE DEF r
  <2>3. Staged(t)' /\ Settled(t)' /\ ~Stuck(t)'
    BY <1>1, <1>2, <2>1, <2>2 DEF Staged, Settled, Stuck
  <2>4. t \in Holding
    BY <1>1 DEF Holding
  <2>5. QED BY <1>1, <1>2, <1>3, <2>1, <2>2, <2>3, <2>4, StepInv
<1>4. CASE Fault /\ Fails(t, "fault")
  <2>1. faults' \in Nat
    BY <1>2, <1>4 DEF Fault
  <2>2. QED BY <1>1, <1>2, <1>4, <2>1, FailsInv
<1>5. QED BY <1>3, <1>4 DEF BuildStarted

LEMMA BuildingInv ==
  ASSUME VInv, NEW t \in Tasks, verdict = "running", Building(t)
  PROVE  VInv'
<1>1. /\ goroutine[t].at = "building" /\ verdict' = "running"
      /\ UNCHANGED <<failedTo, scores, canceled>> /\ UNCHANGED exists /\ UNCHANGED faults
  BY DEF Building, At
<1>2. /\ Staged(t) /\ ~Stuck(t) /\ faults \in Nat /\ "bad" \in Truths
      /\ truth \in [Tasks -> Truths] /\ goroutine[t].stage = "build"
  BY <1>1, RoutineFacts DEF Staged, Stuck, Truths
<1>3. CASE Passes(t) /\ UNCHANGED truth
  BY <1>1, <1>2, <1>3, PassesInv
<1>4. CASE Fails(t, "failure") /\ truth' = [truth EXCEPT ![t] = "bad"]
  <2>1. truth'[t] = "bad"
    BY <1>2, <1>4
  <2>2. QED BY <1>1, <1>2, <1>4, <2>1, FailsInv
<1>5. CASE Fails(t, "fault") /\ UNCHANGED truth
  BY <1>1, <1>2, <1>5, FailsInv
<1>6. QED BY <1>3, <1>4, <1>5 DEF Building

\* The case is judged: what it held is gone, or owed; it is scored unless the fault is
\* not the candidate's, and a client that would not die is only there with a fault.
LEMMA JudgeInv ==
  ASSUME VInv, NEW t \in Tasks, verdict = "running", verdict' = "running",
         goroutine[t].at = "cleanup",
         NEW err \in {"none", "failure", "fault"},
         err # "fault" => err = goroutine[t].err, Judge(t, err),
         failedTo \subseteq failedTo', failedTo' \subseteq Things, exists' \subseteq exists,
         \A e \in exists' \ failedTo' : e \notin AllMine(t), faults' \in Nat
  PROVE  VInv'
<1>1. /\ goroutine \in [Tasks -> Routine] /\ goroutine[t] \in Routine
      /\ goroutine[t].case \in Nat /\ goroutine[t].client \in Clients
      /\ Staged(t) /\ Settled(t) /\ (Stuck(t) => Current(t) \in failedTo)
      /\ truth \in [Tasks -> Truths] /\ exists \subseteq Things
  BY RoutineFacts
<1>2. /\ canceled \in BOOLEAN /\ scores \in [Tasks -> Seq(Scored)] /\ ScoreIsEarned
      /\ OwnInv /\ VerifierTypeOK
  BY DEF VInv, VerifierTypeOK
<1>3. ASSUME NEW e \in exists' \ failedTo' PROVE e \in exists \ failedTo /\ e[1] # t
  <2>1. e \in exists \ failedTo /\ e \in Things
    BY <1>1, <1>3
  <2>2. PICK u \in Tasks, c \in Nat, x \in Stages \union {"volume"} : e = <<u, c, x>>
    BY <2>1 DEF Things
  <2>3. u = t => e \in AllMine(t)
    <3>1. c = goroutine[u].case
      BY <1>2, <2>1, <2>2 DEF OwnInv
    <3>2. QED BY <2>2, <3>1 DEF AllMine, Mine
  <2>4. QED BY <1>3, <2>1, <2>2, <2>3
<1>4. CASE err = "fault"
  <2>1. /\ goroutine' = [goroutine EXCEPT ![t].at = "ended", ![t].err = "fault"]
        /\ canceled' \in BOOLEAN /\ UNCHANGED truth /\ UNCHANGED scores
    BY <1>2, <1>4 DEF Judge, Ends
  <2>2. /\ goroutine' \in [Tasks -> Routine]
        /\ goroutine'[t].at = "ended" /\ goroutine'[t].err = "fault"
        /\ goroutine'[t].client = goroutine[t].client
        /\ goroutine'[t].case = goroutine[t].case /\ goroutine'[t].stage = goroutine[t].stage
        /\ \A u \in Tasks \ {t} : goroutine'[u] = goroutine[u]
    BY <1>1, <2>1 DEF Routine, Ats, Errs
  <2>3. VerifierTypeOK'
    BY <1>2, <2>1, <2>2 DEF VerifierTypeOK
  <2>4. Staged(t)' /\ Settled(t)'
    BY <1>1, <2>2 DEF Staged, Settled, Stuck
  <2>5. Stuck(t)' => (Current(t) \in failedTo)'
    BY <1>1, <2>2 DEF Stuck, Current, Mine
  <2>6. ~(t \in Holding)'
    BY <2>2 DEF Holding
  <2>7. ScoreIsEarned'
    BY <1>2, <2>1 DEF ScoreIsEarned
  <2>8. QED BY <1>3, <2>1, <2>2, <2>3, <2>4, <2>5, <2>6, <2>7, MoveInv
<1>5. CASE err # "fault"
  <2> DEFINE entry == [score |-> IF err = "none" THEN 1 ELSE 0, truth |-> truth[t]]
  <2>1. err = goroutine[t].err /\ ~Stuck(t) /\ goroutine[t].client = "none"
    BY <1>1, <1>5 DEF Staged, Stuck, Clients
  <2>2. /\ entry \in Scored
        /\ IF entry.score = 1 THEN entry.truth = "good" ELSE entry.truth \in {"bad", "lost"}
    BY <1>1, <1>5, <2>1 DEF Settled, Scored, Truths
  <2>3. /\ scores' = [scores EXCEPT ![t] = Append(@, entry)]
        /\ truth' = [truth EXCEPT ![t] = "unknown"]
    BY <1>5 DEF Judge
  <2> HIDE DEF entry
  <2>4. truth' \in [Tasks -> Truths] /\ \A u \in Tasks \ {t} : truth'[u] = truth[u]
    BY <1>1, <2>3 DEF Truths
  <2>5. /\ scores' \in [Tasks -> Seq(Scored)] /\ scores'[t] = Append(scores[t], entry)
        /\ \A u \in Tasks \ {t} : scores'[u] = scores[u]
    BY <1>2, <2>2, <2>3
  <2>6. ScoreIsEarned'
    <3> SUFFICES ASSUME NEW u \in Tasks, NEW i \in 1..Len(scores'[u])
                 PROVE  IF scores'[u][i].score = 1 THEN scores'[u][i].truth = "good"
                                                    ELSE scores'[u][i].truth \in {"bad", "lost"}
      BY DEF ScoreIsEarned
    <3>1. CASE u # t
      <4>1. scores'[u] = scores[u]
        BY <2>5, <3>1
      <4>2. i \in 1..Len(scores[u])
        BY <4>1
      <4>3. IF scores[u][i].score = 1 THEN scores[u][i].truth = "good"
                                    ELSE scores[u][i].truth \in {"bad", "lost"}
        BY <1>2, <4>2, Zenon DEF ScoreIsEarned
      <4>4. QED BY <4>1, <4>3, Zenon
    <3>2. CASE u = t
      <4>1. scores[t] \in Seq(Scored) /\ Len(scores[t]) \in Nat
        BY <1>2
      <4>2. i \in 1..Len(scores[t]) \/ i = Len(scores[t]) + 1
        BY <2>2, <2>5, <3>2, <4>1
      <4>3. CASE i \in 1..Len(scores[t])
        <5>1. scores'[u][i] = scores[t][i]
          BY <2>2, <2>5, <3>2, <4>1, <4>3
        <5>2. QED BY <1>2, <4>3, <5>1 DEF ScoreIsEarned
      <4>4. CASE i = Len(scores[t]) + 1
        <5>1. scores'[u][i] = entry
          BY <2>2, <2>5, <3>2, <4>1, <4>4
        <5>2. QED BY <2>2, <5>1
      <4>5. QED BY <4>2, <4>3, <4>4
    <3>3. QED BY <3>1, <3>2
  <2>7. /\ canceled' \in BOOLEAN
        /\ \/ \E e \in {"mismatch", "none"} :
                goroutine' = [goroutine EXCEPT ![t].at = "ended", ![t].err = e]
           \/ goroutine' = [goroutine EXCEPT ![t].at = "prepare",
                              ![t].case = goroutine[t].case + 1, ![t].err = "none"]
    BY <1>2, <1>5 DEF Judge, Ends
  <2>8. PICK at \in {"ended", "prepare"}, e \in {"mismatch", "none"}, c \in Nat :
          /\ at = "prepare" => e = "none"
          /\ goroutine' \in [Tasks -> Routine]
          /\ goroutine'[t].at = at /\ goroutine'[t].err = e
          /\ goroutine'[t].client = goroutine[t].client /\ goroutine'[t].case = c
          /\ \A u \in Tasks \ {t} : goroutine'[u] = goroutine[u]
    <3>1. ASSUME NEW e \in {"mismatch", "none"},
                 goroutine' = [goroutine EXCEPT ![t].at = "ended", ![t].err = e]
          PROVE  /\ goroutine' \in [Tasks -> Routine]
                 /\ goroutine'[t].at = "ended" /\ goroutine'[t].err = e
                 /\ goroutine'[t].client = goroutine[t].client
                 /\ goroutine'[t].case = goroutine[t].case
                 /\ \A u \in Tasks \ {t} : goroutine'[u] = goroutine[u]
      BY <1>1, <3>1 DEF Routine, Ats, Errs
    <3>2. CASE goroutine' = [goroutine EXCEPT ![t].at = "prepare",
                              ![t].case = goroutine[t].case + 1, ![t].err = "none"]
      <4>1. goroutine[t].case + 1 \in Nat
        BY <1>1
      <4>2. /\ goroutine' \in [Tasks -> Routine]
            /\ goroutine'[t].at = "prepare" /\ goroutine'[t].err = "none"
            /\ goroutine'[t].client = goroutine[t].client
            /\ goroutine'[t].case = goroutine[t].case + 1
            /\ \A u \in Tasks \ {t} : goroutine'[u] = goroutine[u]
        BY <1>1, <3>2, <4>1 DEF Routine, Ats, Errs
      <4>3. QED BY <4>1, <4>2
    <3>3. QED BY <1>1, <2>7, <3>1, <3>2
  <2>9. VerifierTypeOK'
    BY <1>2, <2>4, <2>5, <2>7, <2>8 DEF VerifierTypeOK
  <2>10. Staged(t)' /\ Settled(t)' /\ ~Stuck(t)'
    BY <2>1, <2>8 DEF Staged, Settled, Stuck
  <2>11. t \in Holding
    BY DEF Holding
  <2>12. QED BY <1>3, <2>4, <2>6, <2>8, <2>9, <2>10, <2>11, MoveInv
<1>6. QED BY <1>4, <1>5

LEMMA CleanupInv ==
  ASSUME VInv, NEW t \in Tasks, verdict = "running", Cleanup(t) \/ CleanupFails(t)
  PROVE  VInv'
<1>1. /\ goroutine[t].at = "cleanup" /\ verdict' = "running"
  BY DEF Cleanup, CleanupFails, At
<1>2. /\ goroutine[t].err \in {"none", "failure", "fault"} /\ goroutine[t].case \in Nat
      /\ faults \in Nat /\ failedTo \subseteq Things
  BY <1>1, RoutineFacts DEF Staged, Errs
<1>3. AllMine(t) \subseteq Things
  BY <1>2 DEF AllMine, Mine, Things
<1>4. CASE Cleanup(t)
  <2>1. /\ failedTo' = failedTo /\ faults' \in Nat /\ exists' = exists \ AllMine(t)
        /\ Judge(t, goroutine[t].err)
    BY <1>2, <1>4 DEF Cleanup
  <2>2. QED BY <1>1, <1>2, <2>1, JudgeInv
<1>5. CASE CleanupFails(t)
  <2>1. faults' \in Nat
    BY <1>2, <1>5 DEF CleanupFails, Fault
  <2>2. CASE /\ failedTo' = failedTo \union AllMine(t)
             /\ \E L \in SUBSET AllMine(t) : exists' = exists \ L
             /\ Judge(t, Joined(goroutine[t].err, TRUE))
    <3>1. /\ Joined(goroutine[t].err, TRUE) \in {"none", "failure", "fault"}
          /\ Joined(goroutine[t].err, TRUE) # "fault" =>
                Joined(goroutine[t].err, TRUE) = goroutine[t].err
      BY <1>2 DEF Joined
    <3>2. failedTo' \subseteq Things /\ exists' \subseteq exists
      BY <1>2, <1>3, <2>2
    <3>3. QED BY <1>1, <2>1, <2>2, <3>1, <3>2, JudgeInv
  <2>3. CASE exists' = exists \ AllMine(t) /\ Judge(t, "fault") /\ UNCHANGED failedTo
    BY <1>1, <1>2, <2>1, <2>3, JudgeInv
  <2>4. QED BY <1>5, <2>2, <2>3 DEF CleanupFails
<1>6. QED BY <1>4, <1>5

\* The runtime creates what a client asked for: of a case that holds a slot, or owed.
LEMMA CreateInv ==
  ASSUME VInv, NEW t \in Tasks, verdict = "running", Create(t)
  PROVE  VInv'
<1>1. /\ goroutine[t].client # "none" /\ exists' = exists \union {Current(t)}
      /\ verdict' = "running" /\ UNCHANGED goroutine /\ UNCHANGED failedTo
      /\ UNCHANGED truth /\ UNCHANGED scores /\ UNCHANGED canceled /\ UNCHANGED faults
  BY DEF Create
<1>2. /\ goroutine[t].case \in Nat /\ goroutine[t].stage \in Stages
      /\ goroutine[t].client \in Clients /\ Staged(t) /\ Settled(t)
      /\ (Stuck(t) => Current(t) \in failedTo)
  BY RoutineFacts
<1>3. VerifierTypeOK /\ OwnInv /\ ScoreIsEarned
  BY DEF VInv
<1>4. Current(t) \in Things /\ Current(t)[1] = t /\ Current(t)[2] = goroutine[t].case
  BY <1>2 DEF Current, Mine, Things
<1>5. VerifierTypeOK'
  BY <1>1, <1>3, <1>4 DEF VerifierTypeOK
<1>6. Current(t) \notin failedTo => t \in Holding
  BY <1>1, <1>2 DEF Staged, Stuck, Clients, Holding
<1>7. ASSUME NEW e \in exists' \ failedTo'
      PROVE  \/ e \in exists \ failedTo /\ e[1] # t
             \/ e[1] = t /\ (t \in Holding)' /\ e[2] = goroutine'[t].case
  <2>1. CASE e = Current(t)
    BY <1>1, <1>4, <1>6, <1>7, <2>1 DEF Holding
  <2>2. CASE e \in exists
    BY <1>1, <1>3, <1>7, <2>2 DEF OwnInv, Holding
  <2>3. QED BY <1>1, <1>7, <2>1, <2>2
<1>8. (t \in Holding)' => t \in Holding
  BY <1>1 DEF Holding
<1>9. Staged(t)' /\ Settled(t)' /\ (Stuck(t)' => (Current(t) \in failedTo)')
  BY <1>1, <1>2 DEF Staged, Settled, Stuck, Current, Mine
<1>10. ScoreIsEarned'
  BY <1>1, <1>3 DEF ScoreIsEarned
<1>11. QED BY <1>1, <1>5, <1>7, <1>8, <1>9, <1>10, MoveInv

\* Nothing of a task changes, only what the verifier has said.
LEMMA SameTasks ==
  ASSUME VInv, UNCHANGED <<goroutine, exists, failedTo, truth, scores, canceled, faults>>,
         verdict' \in {"idle", "running", "ok", "error", "crashed"},
         Returned' => Returned \/ Holding = {}
  PROVE  VInv'
<1>1. /\ UNCHANGED goroutine /\ UNCHANGED exists /\ UNCHANGED failedTo
      /\ UNCHANGED truth /\ UNCHANGED scores /\ UNCHANGED canceled /\ UNCHANGED faults
  OBVIOUS
<1>2. VerifierTypeOK'
  BY <1>1 DEF VInv, VerifierTypeOK
<1>3. StageInv'
  BY <1>1 DEF VInv, StageInv, Staged, Settled, Stuck
<1>4. OwnInv'
  BY <1>1 DEF VInv, OwnInv, Holding, Stuck, Current, Mine
<1>5. SlotInv' /\ DoneInv'
  BY <1>1 DEF VInv, SlotInv, DoneInv, Holding
<1>6. ScoreIsEarned'
  BY <1>1 DEF VInv, ScoreIsEarned
<1>7. QED BY <1>2, <1>3, <1>4, <1>5, <1>6 DEF VInv

LEMMA VerifierStepInv ==
  ASSUME VInv, VerifierStep
  PROVE  VInv'
<1>1. CASE VerifyReturns
  <2>1. Holding = {}
    BY <1>1 DEF VerifyReturns, Holding, At
  <2>2. QED BY <1>1, <2>1, SameTasks DEF VerifyReturns
<1>2. ASSUME verdict = "running", NEW t \in Tasks, TaskStep(t) PROVE VInv'
  <2>1. CASE Acquire(t)
    BY <2>1, AcquireInv
  <2>2. CASE Prepare(t)
    BY <1>2, <2>2, PrepareInv
  <2>3. CASE Start(t)
    BY <1>2, <2>3, StartInv
  <2>4. CASE ContainerEnds(t)
    BY <1>2, <2>4, ContainerEndsInv
  <2>5. CASE SetupFails(t) \/ Abandon(t) \/ BuildKilled(t)
    BY <1>2, <2>5, FaultInv
  <2>6. CASE Abort(t) \/ Sweep(t)
    BY <1>2, <2>6, AbortInv
  <2>7. CASE Kill(t)
    BY <1>2, <2>7, KillInv
  <2>8. CASE BuildStarted(t)
    BY <1>2, <2>8, BuildStartedInv
  <2>9. CASE Building(t)
    BY <1>2, <2>9, BuildingInv
  <2>10. CASE Cleanup(t) \/ CleanupFails(t)
    BY <1>2, <2>10, CleanupInv
  <2>11. CASE RuntimeLoses(t)
    BY <1>2, <2>11, RuntimeLosesInv
  <2>12. QED
    BY <1>2, <2>1, <2>2, <2>3, <2>4, <2>5, <2>6, <2>7, <2>8, <2>9, <2>10, <2>11 DEF TaskStep
<1>3. ASSUME verdict = "running", NEW t \in Tasks, Create(t) PROVE VInv'
  BY <1>3, CreateInv
<1>4. QED BY <1>1, <1>2, <1>3 DEF VerifierStep

LEMMA VerifierInitInv ==
  ASSUME NEW held, VerifierInit(held)
  PROVE  VInv
<1>1. VerifierTypeOK
  <2>1. goroutine \in [Tasks -> Routine]
    BY DEF VerifierInit, Routine, Ats, Stages, Clients, Errs
  <2>2. scores \in [Tasks -> Seq(Scored)]
    BY DEF VerifierInit
  <2>3. truth \in [Tasks -> Truths]
    BY DEF VerifierInit, Truths
  <2>4. exists = {} /\ failedTo = {} /\ canceled = FALSE /\ verdict = "idle" /\ faults = 0
    BY DEF VerifierInit
  <2>5. QED BY <2>1, <2>2, <2>3, <2>4 DEF VerifierTypeOK
<1>2. StageInv
  BY DEF VerifierInit, StageInv, Staged, Settled, Stuck
<1>3. OwnInv
  BY DEF VerifierInit, OwnInv, Stuck
<1>4. SlotInv
  <2>1. \A t \in Tasks : goroutine[t].at \in {"queued", "ended"}
    BY DEF VerifierInit
  <2>2. Holding = {}
    BY <2>1 DEF Holding
  <2>3. QED BY <2>2, FS_EmptySet DEF SlotInv, Slots
<1>5. DoneInv
  BY DEF VerifierInit, DoneInv, Returned
<1>6. ScoreIsEarned
  BY DEF VerifierInit, ScoreIsEarned
<1>7. QED BY <1>1, <1>2, <1>3, <1>4, <1>5, <1>6 DEF VInv

\* Two tasks hold a slot, and everything in the runtime is theirs or owed.
LEMMA RuntimeOf == VInv => RuntimeIsClean
<1> SUFFICES ASSUME VInv PROVE RuntimeIsClean
  OBVIOUS
<1> DEFINE Users == {e[1] : e \in exists \ failedTo}
<1>1. IsFiniteSet(Holding) /\ Cardinality(Holding) \in Nat /\ Cardinality(Holding) <= Slots
  BY HoldingFinite DEF VInv, SlotInv
<1>2. Users \subseteq Holding
  BY DEF VInv, OwnInv
<1>3. Cardinality(Users) <= Cardinality(Holding) /\ Cardinality(Users) \in Nat
  BY <1>1, <1>2, FS_Subset, FS_CardinalityType
<1>4. TwoAtATime
  <2> HIDE DEF Users
  <2>1. Cardinality(Users) <= Slots
    BY <1>1, <1>3 DEF Slots
  <2>2. QED BY <2>1 DEF TwoAtATime, Users
<1>5. LeftoversAreExplained
  BY DEF VInv, OwnInv, DoneInv, LeftoversAreExplained
<1>6. QED BY <1>4, <1>5 DEF RuntimeIsClean

-----------------------------------------------------------------------------
(* One process moves.                                                       *)

\* What a step may never do to the disk: WholeRecordsLast.
Lasting ==
  /\ \A a \in DOMAIN results : Whole(results[a]) => results'[a] = results[a]
  /\ \A a \in DOMAIN trajectories : Whole(trajectories[a]) => trajectories'[a] = trajectories[a]
  /\ Whole(audited) => audited' = audited

LEMMA RowsLast ==
  ASSUME IInv, Lasting, DOMAIN results' = DOMAIN results
  PROVE  /\ \A rs : OnDisk(rs) => OnDisk(rs)'
         /\ \A rs : Checked(rs) => Checked(rs)'
<1>1. DOMAIN trajectories = DOMAIN results
  BY DEF IInv, RecordsTypeOK
<1>2. ASSUME NEW rs, OnDisk(rs) PROVE OnDisk(rs)'
  BY <1>2 DEF OnDisk, Lasting, Whole
<1>3. ASSUME NEW rs, Checked(rs) PROVE Checked(rs)'
  BY <1>1, <1>2, <1>3 DEF Checked, OnDisk, Lasting, Whole, RetryIsAllowed
<1>4. QED BY <1>2, <1>3

\* What a step of process p must show: the process stays sound, what is whole stays, and
\* what the step says of the files it fills and of the page.
LEMMA ProcInv ==
  ASSUME IInv, NEW p \in Procs,
         \A q \in Procs \ {p} : proc'[q] = proc[q] /\ (q \in stale' <=> q \in stale),
         UNCHANGED suite, Lasting, DOMAIN results' = DOMAIN results,
         VInv', RecordsTypeOK', Sound(p)', FillInv', PageInv'
  PROVE  IInv'
<1>1. ASSUME NEW q \in Procs \ {p} PROVE Sound(q)'
  <2>1. Sound(q)
    BY DEF IInv, SoundInv
  <2>2. proc'[q] = proc[q] /\ (q \in stale' <=> q \in stale)
    OBVIOUS
  <2>3. Routed(q)'
    BY <2>1, <2>2 DEF Sound, Routed
  <2>4. Hashed(q)'
    BY <2>1, <2>2 DEF Sound, Hashed
  <2>5. Gate(q)'
    BY <2>1, <2>2 DEF Sound, Gate, Passed, Cmd
  <2>6. Rowed(q)'
    BY <2>1, <2>2, RowsLast DEF Sound, Rowed
  <2>7. QED BY <2>3, <2>4, <2>5, <2>6 DEF Sound
<1>2. SoundInv'
  BY <1>1 DEF SoundInv
<1>3. QED BY <1>2 DEF IInv

\* A step that fills no file.
LEMMA QuietInv ==
  ASSUME IInv, NEW p \in Procs, NEW r \in Process, proc' = [proc EXCEPT ![p] = r],
         stale' \in {stale, stale \ {p}},
         r.at \notin {"start", "fill"}, r.at \in {"trajectory", "result"} => r.id = 0,
         UNCHANGED <<suite, image, audited, records, page, edits>>,
         crashes' \in Nat, frozen' \in FreezeRecord \union {Absent, Torn},
         VInv', Sound(p)'
  PROVE  IInv'
<1>1. /\ UNCHANGED suite /\ UNCHANGED image /\ UNCHANGED audited /\ UNCHANGED results
      /\ UNCHANGED trajectories /\ UNCHANGED page /\ UNCHANGED edits
  BY DEF records
<1>2. RecordsTypeOK /\ FillInv /\ PageInv
  BY DEF IInv
<1>3. /\ proc' \in [Procs -> Process] /\ proc'[p] = r
      /\ \A q \in Procs \ {p} : proc'[q] = proc[q]
  <2>1. proc \in [Procs -> Process]
    BY <1>2 DEF RecordsTypeOK
  <2> HIDE DEF Process
  <2>2. QED BY <2>1
<1>4. RecordsTypeOK'
  <2>1. Rows' = Rows
    BY <1>1 DEF Rows
  <2>2. Process' = Process
    BY <2>1 DEF Process
  <2>3. proc' \in [Procs -> Process']
    BY <1>3, <2>2
  <2>4. QED BY <1>1, <1>2, <2>3 DEF RecordsTypeOK
<1>5. Lasting
  BY <1>1 DEF Lasting
<1>6. FillInv'
  <2>1. \A at \in {"fill", "trajectory", "result"} : ~Filling(p, at)'
    BY <1>3 DEF Filling
  <2>2. \A q \in Procs \ {p}, at \in {"fill", "trajectory", "result"} :
          Filling(q, at)' <=> Filling(q, at)
    BY <1>3 DEF Filling
  <2>3. QED BY <1>1, <1>2, <2>1, <2>2 DEF FillInv
<1>7. PageInv'
  BY <1>1, <1>2, <1>5, RowsLast DEF PageInv, Rows
<1>8. QED BY <1>1, <1>3, <1>4, <1>5, <1>6, <1>7, ProcInv

\* A process and its fields.
LEMMA ProcFacts ==
  ASSUME IInv, NEW p \in Procs
  PROVE  /\ proc \in [Procs -> Process] /\ proc[p] \in Process
         /\ proc[p].cmd \in Commands
         /\ proc[p].mem \in Suites \union {<<>>} /\ proc[p].hash \in Seq(Nat)
         /\ proc[p].want \in FreezeRecord \union {Absent, Torn}
         /\ proc[p].id \in Nat /\ proc[p].rows \in Rows
         /\ suite \in Suites /\ crashes \in Nat
         /\ frozen \in FreezeRecord \union {Absent, Torn}
         /\ audited \in Nat \union {Absent, Torn} /\ image \in Nat
         /\ Routed(p) /\ Hashed(p) /\ Gate(p) /\ Rowed(p) /\ VInv
<1>1. /\ proc \in [Procs -> Process] /\ suite \in Suites /\ crashes \in Nat
      /\ frozen \in FreezeRecord \union {Absent, Torn}
      /\ audited \in Nat \union {Absent, Torn} /\ image \in Nat
  BY DEF IInv, RecordsTypeOK
<1>2. Routed(p) /\ Hashed(p) /\ Gate(p) /\ Rowed(p) /\ VInv
  BY DEF IInv, SoundInv, Sound
<1>3. proc[p] \in Process
  <2> HIDE DEF Process
  <2>1. QED BY <1>1
<1>4. /\ proc[p].cmd \in Commands
      /\ proc[p].mem \in Suites \union {<<>>} /\ proc[p].hash \in Seq(Nat)
      /\ proc[p].want \in FreezeRecord \union {Absent, Torn}
      /\ proc[p].id \in Nat /\ proc[p].rows \in Rows
  BY <1>3 DEF Process
<1>5. QED BY <1>1, <1>2, <1>3, <1>4

\* The verifier stays as it is.
LEMMA SameVerifier ==
  ASSUME VInv, UNCHANGED verifierVars
  PROVE  VInv'
<1>1. /\ UNCHANGED <<goroutine, exists, failedTo, truth, scores, canceled, faults>>
      /\ UNCHANGED verdict
  BY DEF verifierVars
<1>2. verdict \in {"idle", "running", "ok", "error", "crashed"}
  BY DEF VInv, VerifierTypeOK
<1>3. Returned' => Returned
  BY <1>1 DEF Returned
<1>4. QED BY <1>1, <1>2, <1>3, SameTasks

\* A command goes from one place to another, or ends; nothing it has read changes.
LEMMA GoInv ==
  ASSUME IInv, NEW p \in Procs, NEW at, NEW told,
         proc' = [proc EXCEPT ![p].at = at, ![p].told = told],
         at \in Route[proc[p].cmd] \union {"ended"}, told \in {"running", "ok", "error", "crashed"},
         told = "running" <=> at # "ended",
         at \in {"truncate", "rewrite", "inspect", "again", "verifying", "page", "print", "ended"},
         at \in {"truncate", "rewrite"} => Len(proc[p].hash) = 2,
         at # "ended" => proc[p].at \notin {"start", "ended"},
         at \in {"page", "print"} => Checked(proc[p].rows),
         at \in {"inspect", "again", "verifying"} \/ (told = "ok" /\ Cmd(p) \in Gated) =>
           Whole(proc[p].want) /\ (p \notin stale => proc[p].mem = proc[p].want.suite),
         UNCHANGED <<stale, suite, image, audited, records, page, edits>>,
         crashes' \in Nat, frozen' \in FreezeRecord \union {Absent, Torn},
         VInv'
  PROVE  IInv'
<1>1. /\ proc \in [Procs -> Process] /\ proc[p] \in Process /\ proc[p].cmd \in Commands
      /\ Hashed(p)
  BY ProcFacts
<1> DEFINE r == [proc[p] EXCEPT !.at = at, !.told = told]
<1>2. at \in (UNION {Route[c] : c \in Commands}) \union {"start", "ended"}
  <2>1. CASE at \in Route[proc[p].cmd]
    BY <1>1, <2>1
  <2>2. CASE at = "ended"
    BY <2>2
  <2>3. QED BY <2>1, <2>2
<1>3. /\ r \in Process /\ r.at = at /\ r.told = told /\ r.cmd = proc[p].cmd
      /\ r.mem = proc[p].mem /\ r.hash = proc[p].hash /\ r.want = proc[p].want
      /\ r.id = proc[p].id /\ r.rows = proc[p].rows
  BY <1>1, <1>2 DEF Process
<1>4. proc' = [proc EXCEPT ![p] = r] /\ proc'[p] = r
  BY <1>1 DEF Process
<1> HIDE DEF r
<1>5. Routed(p)'
  BY <1>3, <1>4 DEF Routed
<1>6. Hashed(p)'
  BY <1>1, <1>3, <1>4 DEF Hashed
<1>7. Gate(p)'
  BY <1>3, <1>4 DEF Gate, Passed, Cmd
<1>8. Rowed(p)'
  <2>1. /\ UNCHANGED results /\ UNCHANGED trajectories
    BY DEF records
  <2>2. at \in {"page", "print"} => Checked(proc'[p].rows)
    BY <1>3, <1>4
  <2>3. QED BY <1>3, <1>4, <2>1, <2>2 DEF Rowed, Checked, OnDisk, Whole, RetryIsAllowed
<1>9. Sound(p)'
  BY <1>5, <1>6, <1>7, <1>8 DEF Sound
<1>10. QED BY <1>3, <1>4, <1>9, QuietInv

\* A command goes on.
LEMMA ToInv ==
  ASSUME IInv, NEW p \in Procs, NEW at, To(p, at), proc[p].at \notin {"start", "ended"},
         at \in Route[proc[p].cmd],
         at \in {"truncate", "rewrite", "inspect", "again", "verifying", "page"},
         at \in {"truncate", "rewrite"} => Len(proc[p].hash) = 2,
         at = "page" => Checked(proc[p].rows),
         at \in {"inspect", "again", "verifying"} =>
           Whole(proc[p].want) /\ (p \notin stale => proc[p].mem = proc[p].want.suite),
         UNCHANGED <<stale, suite, image, audited, records, page, edits>>,
         crashes' \in Nat, frozen' \in FreezeRecord \union {Absent, Torn},
         VInv'
  PROVE  IInv'
<1>1. proc \in [Procs -> Process] /\ proc[p] \in Process /\ proc[p].told = "running"
  BY ProcFacts DEF Routed
<1>2. proc' = [proc EXCEPT ![p].at = at, ![p].told = "running"]
  BY <1>1 DEF To, Process
<1>3. at # "ended"
  OBVIOUS
<1>4. QED BY <1>1, <1>2, <1>3, GoInv

\* A command ends; if it is a gated one that is content, it has passed the gate.
LEMMA TellsInv ==
  ASSUME IInv, NEW p \in Procs, NEW answer \in {"ok", "error", "crashed"}, Tells(p, answer),
         answer = "ok" /\ Cmd(p) \in Gated =>
           Whole(proc[p].want) /\ (p \notin stale => proc[p].mem = proc[p].want.suite),
         UNCHANGED <<stale, suite, image, audited, records, page, edits>>,
         crashes' \in Nat, frozen' \in FreezeRecord \union {Absent, Torn},
         VInv'
  PROVE  IInv'
<1>1. proc' = [proc EXCEPT ![p].at = "ended", ![p].told = answer]
  BY DEF Tells
<1>2. QED BY <1>1, GoInv

LEMMA BeginInv ==
  ASSUME IInv, NEW p \in Procs, Begin(p)
  PROVE  IInv'
<1>1. /\ proc \in [Procs -> Process] /\ proc[p] \in Process /\ proc[p].cmd \in Commands
      /\ Routed(p) /\ Hashed(p) /\ suite \in Suites /\ proc[p].at = "start"
      /\ frozen \in FreezeRecord \union {Absent, Torn} /\ crashes \in Nat /\ VInv
  BY ProcFacts DEF Begin, Is
<1>2. /\ stale' = stale \ {p} /\ UNCHANGED verifierVars
      /\ UNCHANGED <<suite, image, audited, records, page, edits>>
      /\ UNCHANGED crashes /\ UNCHANGED frozen /\ UNCHANGED suite
  BY DEF Begin, files
<1>3. /\ proc[p].told = "running" /\ proc[p].id = 0 /\ proc[p].hash = <<>>
      /\ proc[p].cmd # "none"
  BY <1>1 DEF Routed, Hashed
<1> DEFINE at == CASE Cmd(p) = "inspect-images" -> "create"
                   [] Cmd(p) = "freeze --write" -> "images"
                   [] Cmd(p) \in {"freeze", "verify", "probe"} -> "gate"
                   [] Cmd(p) = "smoke" -> "trajectory"
                   [] Cmd(p) \in {"report", "validate"} -> "results"
           r == [proc[p] EXCEPT !.mem = suite, !.at = at]
<1>4. /\ at \in Route[proc[p].cmd]
      /\ at \in {"create", "images", "gate", "trajectory", "results"}
  BY <1>1, <1>3 DEF Route, Commands, Cmd
<1>5. proc' = [proc EXCEPT ![p].mem = suite, ![p].at = at]
  BY DEF Begin
<1> HIDE DEF at
<1>6. at \in (UNION {Route[c] : c \in Commands}) \union {"start", "ended"}
  BY <1>1, <1>4
<1>7. /\ r \in Process /\ r.at = at /\ r.told = "running" /\ r.cmd = proc[p].cmd
      /\ r.mem = suite /\ r.hash = <<>> /\ r.id = 0
  BY <1>1, <1>3, <1>6 DEF Process
<1>8. proc' = [proc EXCEPT ![p] = r] /\ proc'[p] = r
  BY <1>1, <1>5 DEF Process
<1> HIDE DEF r
<1>9. Sound(p)'
  <2>1. Routed(p)'
    BY <1>3, <1>4, <1>7, <1>8 DEF Routed
  <2>2. Hashed(p)'
    BY <1>2, <1>4, <1>7, <1>8 DEF Hashed
  <2>3. Gate(p)'
    BY <1>4, <1>7, <1>8 DEF Gate, Passed
  <2>4. Rowed(p)'
    BY <1>4, <1>7, <1>8 DEF Rowed
  <2>5. QED BY <2>1, <2>2, <2>3, <2>4 DEF Sound
<1>10. VInv'
  BY <1>1, <1>2, SameVerifier
<1>11. /\ r.at \notin {"start", "fill"} /\ (r.at \in {"trajectory", "result"} => r.id = 0)
       /\ crashes' \in Nat /\ frozen' \in FreezeRecord \union {Absent, Torn}
  BY <1>1, <1>2, <1>4, <1>7
<1>12. QED BY <1>2, <1>7, <1>8, <1>9, <1>10, <1>11, QuietInv

LEMMA ReadImagesInv ==
  ASSUME IInv, NEW p \in Procs, ReadImages(p)
  PROVE  IInv'
<1>1. /\ proc \in [Procs -> Process] /\ proc[p] \in Process /\ proc[p].cmd \in Commands
      /\ Routed(p) /\ Hashed(p) /\ proc[p].at = "images"
      /\ frozen \in FreezeRecord \union {Absent, Torn} /\ crashes \in Nat /\ VInv
      /\ audited \in Nat \union {Absent, Torn}
  BY ProcFacts DEF ReadImages, Is
<1>2. /\ UNCHANGED stale /\ UNCHANGED verifierVars
      /\ UNCHANGED <<suite, image, audited, records, page, edits>>
      /\ UNCHANGED crashes /\ UNCHANGED frozen /\ UNCHANGED suite
  BY DEF ReadImages, files
<1>3. /\ VInv' /\ crashes' \in Nat /\ frozen' \in FreezeRecord \union {Absent, Torn}
  BY <1>1, <1>2, SameVerifier
<1>4. proc[p].cmd = "freeze --write"
  BY <1>1 DEF Routed, Route, Commands
<1>5. CASE Whole(audited) /\ proc' = [proc EXCEPT ![p].at = "build", ![p].id = audited]
  <2> DEFINE r == [proc[p] EXCEPT !.at = "build", !.id = audited]
  <2>0. audited \in Nat
    BY <1>1, <1>5 DEF Whole
  <2>1. "build" \in Route[proc[p].cmd]
    BY <1>4 DEF Route, Commands
  <2>2. "build" \in (UNION {Route[c] : c \in Commands}) \union {"start", "ended"}
    BY <1>1, <2>1
  <2>3. /\ r \in Process /\ r.at = "build" /\ r.told = proc[p].told /\ r.cmd = proc[p].cmd
        /\ r.mem = proc[p].mem /\ r.hash = proc[p].hash
    BY <1>1, <2>0, <2>2 DEF Process
  <2>4. proc' = [proc EXCEPT ![p] = r] /\ proc'[p] = r
    BY <1>1, <1>5 DEF Process
  <2> HIDE DEF r
  <2>5. Routed(p)'
    BY <1>1, <2>1, <2>3, <2>4 DEF Routed
  <2>6. Hashed(p)'
    <3>1. proc[p].cmd \notin Gated
      BY <1>4 DEF Gated
    <3>2. QED BY <1>1, <1>2, <2>3, <2>4, <3>1 DEF Hashed, Whole
  <2>7. Gate(p)' /\ Rowed(p)'
    BY <1>1, <2>3, <2>4 DEF Gate, Passed, Routed, Rowed
  <2>8. r.at \notin {"start", "fill"} /\ (r.at \in {"trajectory", "result"} => r.id = 0)
    BY <2>3
  <2>9. Sound(p)'
    BY <2>5, <2>6, <2>7 DEF Sound
  <2>10. QED BY <1>2, <1>3, <2>3, <2>4, <2>8, <2>9, QuietInv
<1>6. CASE Tells(p, "error")
  BY <1>2, <1>3, <1>6, TellsInv
<1>7. QED BY <1>5, <1>6 DEF ReadImages

LEMMA ReadFreezeInv ==
  ASSUME IInv, NEW p \in Procs, ReadFreeze(p)
  PROVE  IInv'
<1>1. /\ proc \in [Procs -> Process] /\ proc[p] \in Process /\ proc[p].cmd \in Commands
      /\ Routed(p) /\ Hashed(p) /\ proc[p].at = "gate"
      /\ frozen \in FreezeRecord \union {Absent, Torn} /\ crashes \in Nat /\ VInv
  BY ProcFacts DEF ReadFreeze, Is
<1>2. /\ UNCHANGED stale /\ UNCHANGED verifierVars
      /\ UNCHANGED <<suite, image, audited, records, page, edits>>
      /\ UNCHANGED crashes /\ UNCHANGED frozen /\ UNCHANGED suite
  BY DEF ReadFreeze, files
<1>3. /\ VInv' /\ crashes' \in Nat /\ frozen' \in FreezeRecord \union {Absent, Torn}
  BY <1>1, <1>2, SameVerifier
<1>4. proc[p].cmd \in Gated
  BY <1>1 DEF Routed, Route, Commands, Gated
<1>5. CASE Whole(frozen) /\ proc' = [proc EXCEPT ![p].at = "build", ![p].want = frozen]
  <2> DEFINE r == [proc[p] EXCEPT !.at = "build", !.want = frozen]
  <2>1. "build" \in Route[proc[p].cmd]
    BY <1>1, <1>4 DEF Route, Commands, Gated
  <2>2. "build" \in (UNION {Route[c] : c \in Commands}) \union {"start", "ended"}
    BY <1>1, <2>1
  <2>3. /\ r \in Process /\ r.at = "build" /\ r.told = proc[p].told /\ r.cmd = proc[p].cmd
        /\ r.mem = proc[p].mem /\ r.hash = proc[p].hash /\ r.want = frozen
    BY <1>1, <2>2 DEF Process
  <2>4. proc' = [proc EXCEPT ![p] = r] /\ proc'[p] = r
    BY <1>1, <1>5 DEF Process
  <2> HIDE DEF r
  <2>5. Routed(p)'
    BY <1>1, <2>1, <2>3, <2>4 DEF Routed
  <2>6. Hashed(p)'
    BY <1>1, <1>2, <1>5, <2>3, <2>4 DEF Hashed, Whole
  <2>7. Gate(p)' /\ Rowed(p)'
    BY <1>1, <2>3, <2>4 DEF Gate, Passed, Routed, Rowed
  <2>8. r.at \notin {"start", "fill"} /\ (r.at \in {"trajectory", "result"} => r.id = 0)
    BY <2>3
  <2>9. Sound(p)'
    BY <2>5, <2>6, <2>7 DEF Sound
  <2>10. QED BY <1>2, <1>3, <2>3, <2>4, <2>8, <2>9, QuietInv
<1>6. CASE Tells(p, "error")
  BY <1>2, <1>3, <1>6, TellsInv
<1>7. QED BY <1>5, <1>6 DEF ReadFreeze

\* One part of the suite is hashed: as it was loaded, unless somebody has edited it.
LEMMA BuildFreezeInv ==
  ASSUME IInv, NEW p \in Procs, BuildFreeze(p)
  PROVE  IInv'
<1>1. /\ proc \in [Procs -> Process] /\ proc[p] \in Process /\ proc[p].cmd \in Commands
      /\ Routed(p) /\ Hashed(p) /\ proc[p].at = "build" /\ proc[p].hash \in Seq(Nat)
      /\ frozen \in FreezeRecord \union {Absent, Torn} /\ crashes \in Nat /\ VInv
      /\ suite \in Suites
  BY ProcFacts DEF BuildFreeze, Is
<1>2. /\ UNCHANGED stale /\ UNCHANGED verifierVars
      /\ UNCHANGED <<suite, image, audited, records, page, edits>>
      /\ UNCHANGED crashes /\ UNCHANGED frozen /\ UNCHANGED suite
  BY DEF BuildFreeze, files
<1>3. /\ VInv' /\ crashes' \in Nat /\ frozen' \in FreezeRecord \union {Absent, Torn}
  BY <1>1, <1>2, SameVerifier
<1> DEFINE n == Len(proc[p].hash) + 1
           h == Append(proc[p].hash, suite[n])
           at == IF n < Len(Parts) THEN "build"
                 ELSE IF Cmd(p) = "freeze --write" THEN "truncate" ELSE "compare"
           r == [proc[p] EXCEPT !.hash = h, !.at = at]
<1>4. n \in 1..2 /\ Len(proc[p].hash) \in Nat
  BY <1>1 DEF Hashed
<1>5. suite[n] \in Nat
  BY <1>1, <1>4 DEF Suites
<1>6. /\ h \in Seq(Nat) /\ Len(h) = n /\ h[n] = suite[n]
      /\ \A k \in 1..n : k = n \/ (k \in 1..Len(proc[p].hash) /\ h[k] = proc[p].hash[k])
  BY <1>1, <1>4, <1>5
<1>7. proc' = [proc EXCEPT ![p].hash = h, ![p].at = at]
  BY <1>1 DEF BuildFreeze, Process
<1>8. /\ at = "build" => n < 2
      /\ at \in {"compare", "truncate"} => n = 2
      /\ at \in {"build", "compare", "truncate"}
      /\ at = "compare" => Cmd(p) # "freeze --write"
      /\ at = "truncate" => Cmd(p) = "freeze --write"
  <2>1. Len(Parts) = 2
    BY DEF Parts
  <2>2. n < 2 \/ n = 2
    BY <1>4
  <2> HIDE DEF n
  <2>3. CASE n < 2
    BY <2>1, <2>3
  <2>4. CASE n = 2
    BY <2>1, <2>4
  <2>5. QED BY <2>2, <2>3, <2>4
<1> HIDE DEF n, h, at
<1>9. at \in Route[proc[p].cmd]
  BY <1>1, <1>8 DEF Routed, Route, Commands, Cmd
<1>10. at \in (UNION {Route[c] : c \in Commands}) \union {"start", "ended"}
  BY <1>1, <1>9
<1>11. /\ r \in Process /\ r.at = at /\ r.told = proc[p].told /\ r.cmd = proc[p].cmd
       /\ r.mem = proc[p].mem /\ r.hash = h /\ r.want = proc[p].want
  BY <1>1, <1>6, <1>10 DEF Process
<1>12. proc' = [proc EXCEPT ![p] = r] /\ proc'[p] = r
  BY <1>1, <1>7 DEF Process
<1> HIDE DEF r
<1>13. Routed(p)'
  BY <1>1, <1>8, <1>9, <1>11, <1>12 DEF Routed
<1>14. Hashed(p)'
  <2>1. p \notin stale' => \A k \in 1..Len(h) : h[k] = proc[p].mem[k]
    BY <1>1, <1>2, <1>6 DEF Hashed
  <2>2. /\ proc'[p].at = at /\ proc'[p].hash = h /\ proc'[p].mem = proc[p].mem
        /\ proc'[p].want = proc[p].want /\ proc'[p].cmd = proc[p].cmd
    BY <1>11, <1>12
  <2>3. QED BY <1>1, <1>2, <1>6, <1>8, <2>1, <2>2 DEF Hashed, Whole
<1>15. Gate(p)' /\ Rowed(p)'
  BY <1>1, <1>8, <1>11, <1>12 DEF Gate, Passed, Routed, Rowed
<1>16. r.at \notin {"start", "fill"} /\ (r.at \in {"trajectory", "result"} => r.id = 0)
  BY <1>8, <1>11
<1>17. Sound(p)'
  BY <1>13, <1>14, <1>15 DEF Sound
<1>18. QED BY <1>2, <1>3, <1>11, <1>12, <1>16, <1>17, QuietInv

LEMMA FreezeWritesInv ==
  ASSUME IInv, NEW p \in Procs, Truncate(p) \/ WriteFreeze(p)
  PROVE  IInv'
<1>1. /\ proc[p].cmd \in Commands /\ Routed(p) /\ Hashed(p) /\ crashes \in Nat /\ VInv
      /\ proc[p].hash \in Seq(Nat) /\ proc[p].id \in Nat
      /\ frozen \in FreezeRecord \union {Absent, Torn}
      /\ proc[p].at \in {"truncate", "rewrite"}
  BY ProcFacts DEF Truncate, WriteFreeze, Is
<1>2. /\ UNCHANGED <<stale, suite, image, audited, records, page, edits>>
      /\ UNCHANGED verifierVars /\ UNCHANGED crashes
  BY DEF Truncate, WriteFreeze
<1>3. VInv' /\ crashes' \in Nat
  BY <1>1, <1>2, SameVerifier
<1>4. proc[p].cmd = "freeze --write" /\ Len(proc[p].hash) = 2
  BY <1>1 DEF Routed, Hashed, Route, Commands
<1>5. CASE Truncate(p)
  <2>1. "rewrite" \in Route[proc[p].cmd]
    BY <1>4 DEF Route, Commands
  <2>2. To(p, "rewrite") /\ frozen' \in FreezeRecord \union {Absent, Torn}
    BY <1>5 DEF Truncate
  <2>3. QED BY <1>1, <1>2, <1>3, <1>4, <2>1, <2>2, ToInv
<1>6. CASE WriteFreeze(p)
  <2>1. Cmd(p) \notin Gated
    BY <1>4 DEF Cmd, Gated
  <2>2. frozen' \in FreezeRecord \union {Absent, Torn}
    <3>1. proc[p].hash \in [1..2 -> Nat]
      <4>1. proc[p].hash \in [1..Len(proc[p].hash) -> Nat]
        BY <1>1
      <4>2. QED BY <1>4, <4>1
    <3>2. [suite |-> proc[p].hash, image |-> proc[p].id] \in FreezeRecord
      BY <1>1, <3>1 DEF FreezeRecord
    <3> DEFINE record == [suite |-> proc[p].hash, image |-> proc[p].id]
    <3>3. frozen' \in IF frozen \in {Torn, record} THEN {record} ELSE {record, Torn}
      BY <1>6 DEF WriteFreeze
    <3> HIDE DEF record
    <3>4. frozen' \in {record, Torn}
      BY <3>3
    <3>5. QED BY <3>2, <3>4 DEF record
  <2>3. QED BY <1>2, <1>3, <1>6, <2>1, <2>2, TellsInv DEF WriteFreeze
<1>7. QED BY <1>5, <1>6

\* The gate: the suite that was hashed, and so the one in memory unless somebody has
\* edited it, is the one of the record.
LEMMA CheckFreezeInv ==
  ASSUME IInv, NEW p \in Procs, CheckFreeze(p)
  PROVE  IInv'
<1>1. /\ proc[p].cmd \in Commands /\ Routed(p) /\ Hashed(p) /\ crashes \in Nat /\ VInv
      /\ proc[p].hash \in Seq(Nat) /\ suite \in Suites
      /\ frozen \in FreezeRecord \union {Absent, Torn}
      /\ proc[p].want \in FreezeRecord \union {Absent, Torn}
      /\ proc[p].at = "compare"
  BY ProcFacts DEF CheckFreeze, Is
<1>2. /\ UNCHANGED <<stale, suite, image, audited, records, page, edits>>
      /\ UNCHANGED verifierVars /\ UNCHANGED crashes /\ UNCHANGED frozen
  BY DEF CheckFreeze, files
<1>3. /\ VInv' /\ crashes' \in Nat /\ frozen' \in FreezeRecord \union {Absent, Torn}
  BY <1>1, <1>2, SameVerifier
<1>4. proc[p].cmd \in Gated /\ Len(proc[p].hash) = 2
  BY <1>1 DEF Routed, Hashed, Route, Commands, Gated
<1>5. Whole(proc[p].want) /\ proc[p].want \in FreezeRecord
  BY <1>1, <1>4 DEF Hashed, Whole
<1>6. CASE Tells(p, "error")
  BY <1>2, <1>3, <1>6, TellsInv
<1>7. CASE proc[p].hash = proc[p].want.suite
  <2>1. p \notin stale => proc[p].mem = proc[p].want.suite
    <3> SUFFICES ASSUME p \notin stale PROVE proc[p].mem = proc[p].want.suite
      OBVIOUS
    <3>1. proc[p].mem \in Suites /\ \A k \in 1..2 : proc[p].hash[k] = proc[p].mem[k]
      BY <1>1, <1>4 DEF Hashed
    <3>2. proc[p].want.suite \in Suites
      BY <1>5 DEF FreezeRecord, Suites
    <3>3. QED BY <1>7, <3>1, <3>2 DEF Suites
  <2>2. CASE Tells(p, "ok")
    BY <1>2, <1>3, <1>5, <2>1, <2>2, TellsInv
  <2>3. CASE Cmd(p) = "verify" /\ To(p, "inspect")
    <3>1. "inspect" \in Route[proc[p].cmd]
      BY <2>3 DEF Route, Commands, Cmd
    <3>2. QED BY <1>1, <1>2, <1>3, <1>5, <2>1, <2>3, <3>1, ToInv
  <2>4. QED BY <1>6, <1>7, <2>2, <2>3 DEF CheckFreeze
<1>8. QED BY <1>6, <1>7 DEF CheckFreeze

LEMMA InspectImageInv ==
  ASSUME IInv, NEW p \in Procs, InspectImage(p)
  PROVE  IInv'
<1>1. /\ proc \in [Procs -> Process] /\ proc[p] \in Process /\ proc[p].cmd \in Commands
      /\ Routed(p) /\ Hashed(p) /\ Gate(p) /\ proc[p].at = "inspect" /\ image \in Nat
      /\ frozen \in FreezeRecord \union {Absent, Torn} /\ crashes \in Nat /\ VInv
  BY ProcFacts DEF InspectImage, Is
<1>2. /\ UNCHANGED stale /\ UNCHANGED verifierVars
      /\ UNCHANGED <<suite, image, audited, records, page, edits>>
      /\ UNCHANGED crashes /\ UNCHANGED frozen /\ UNCHANGED suite
  BY DEF InspectImage, files
<1>3. /\ VInv' /\ crashes' \in Nat /\ frozen' \in FreezeRecord \union {Absent, Torn}
  BY <1>1, <1>2, SameVerifier
<1>4. proc[p].cmd = "verify"
  BY <1>1 DEF Routed, Route, Commands
<1> DEFINE r == [proc[p] EXCEPT !.at = "again", !.id = image]
<1>5. "again" \in Route[proc[p].cmd]
  BY <1>4 DEF Route, Commands
<1>6. "again" \in (UNION {Route[c] : c \in Commands}) \union {"start", "ended"}
  BY <1>1, <1>5
<1>7. /\ r \in Process /\ r.at = "again" /\ r.told = proc[p].told /\ r.cmd = proc[p].cmd
      /\ r.mem = proc[p].mem /\ r.hash = proc[p].hash /\ r.want = proc[p].want
  BY <1>1, <1>6 DEF Process
<1>8. proc' = [proc EXCEPT ![p] = r] /\ proc'[p] = r
  BY <1>1 DEF Process, InspectImage
<1> HIDE DEF r
<1>9. Routed(p)'
  BY <1>1, <1>5, <1>7, <1>8 DEF Routed
<1>10. Hashed(p)'
  BY <1>1, <1>2, <1>7, <1>8 DEF Hashed
<1>11. Gate(p)'
  BY <1>1, <1>2, <1>4, <1>7, <1>8 DEF Gate, Passed, Cmd, Gated, Whole
<1>12. Rowed(p)'
  BY <1>7, <1>8 DEF Rowed
<1>13. r.at \notin {"start", "fill"} /\ (r.at \in {"trajectory", "result"} => r.id = 0)
  BY <1>7
<1>14. Sound(p)'
  BY <1>9, <1>10, <1>11, <1>12 DEF Sound
<1>15. QED BY <1>2, <1>3, <1>7, <1>8, <1>13, <1>14, QuietInv

LEMMA FrozenRuntimeInv ==
  ASSUME IInv, NEW p \in Procs, FrozenRuntime(p)
  PROVE  IInv'
<1>1. /\ proc[p].cmd \in Commands /\ Routed(p) /\ Gate(p) /\ crashes \in Nat /\ VInv
      /\ frozen \in FreezeRecord \union {Absent, Torn} /\ proc[p].at = "again"
  BY ProcFacts DEF FrozenRuntime, Is
<1>2. /\ UNCHANGED <<stale, suite, image, audited, records, page, edits>>
      /\ UNCHANGED crashes /\ UNCHANGED frozen
  BY DEF FrozenRuntime, files
<1>3. /\ crashes' \in Nat /\ frozen' \in FreezeRecord \union {Absent, Torn}
  BY <1>1, <1>2
<1>4. proc[p].cmd = "verify"
  BY <1>1 DEF Routed, Route, Commands
<1>5. CASE Tells(p, "error") /\ UNCHANGED verifierVars
  BY <1>1, <1>2, <1>3, <1>5, SameVerifier, TellsInv
<1>6. CASE /\ To(p, "verifying") /\ verdict' = "running"
           /\ UNCHANGED <<goroutine, exists, failedTo, truth, scores, canceled, faults>>
  <2>1. VInv'
    BY <1>1, <1>6, SameTasks DEF Returned
  <2>2. "verifying" \in Route[proc[p].cmd]
    BY <1>4 DEF Route, Commands
  <2>3. Whole(proc[p].want) /\ (p \notin stale => proc[p].mem = proc[p].want.suite)
    BY <1>1, <1>4 DEF Gate, Passed, Cmd, Gated
  <2>4. QED BY <1>1, <1>2, <1>3, <1>6, <2>1, <2>2, <2>3, ToInv
<1>7. QED BY <1>5, <1>6 DEF FrozenRuntime

LEMMA VerifiedInv ==
  ASSUME IInv, NEW p \in Procs, Verified(p)
  PROVE  IInv'
<1>1. /\ proc[p].cmd \in Commands /\ Routed(p) /\ Gate(p) /\ crashes \in Nat /\ VInv
      /\ frozen \in FreezeRecord \union {Absent, Torn} /\ proc[p].at = "verifying"
  BY ProcFacts DEF Verified, Is
<1>2. /\ UNCHANGED <<stale, suite, image, audited, records, page, edits>>
      /\ UNCHANGED verifierVars /\ UNCHANGED crashes /\ UNCHANGED frozen
  BY DEF Verified, files
<1>3. /\ VInv' /\ crashes' \in Nat /\ frozen' \in FreezeRecord \union {Absent, Torn}
  BY <1>1, <1>2, SameVerifier
<1>4. Whole(proc[p].want) /\ (p \notin stale => proc[p].mem = proc[p].want.suite)
  BY <1>1 DEF Gate, Passed, Cmd, Gated, Routed, Route, Commands
<1>5. verdict \in {"ok", "error"} /\ Tells(p, verdict)
  BY DEF Verified, Returned
<1>6. QED BY <1>2, <1>3, <1>4, <1>5, TellsInv

\* The process and everything on the disk stay as they are.
LEMMA VerifyTasksInv ==
  ASSUME IInv, NEW p \in Procs, VerifyTasks(p)
  PROVE  IInv'
<1>1. /\ UNCHANGED proc /\ UNCHANGED stale /\ UNCHANGED suite /\ UNCHANGED image
      /\ UNCHANGED <<audited, frozen, results, trajectories, page>>
      /\ UNCHANGED edits /\ UNCHANGED crashes
  BY DEF VerifyTasks, files, records
<1>2. VInv'
  BY VerifierStepInv DEF VerifyTasks, IInv
<1>3. /\ RecordsTypeOK /\ SoundInv /\ FillInv /\ PageInv
  BY DEF IInv
<1>4. RecordsTypeOK'
  <2>1. Process' = Process
    BY <1>1 DEF Process, Rows
  <2>2. QED BY <1>1, <1>3, <2>1 DEF RecordsTypeOK
<1>5. SoundInv'
  <2>1. Lasting /\ DOMAIN results' = DOMAIN results
    BY <1>1 DEF Lasting
  <2>2. \A rs : (OnDisk(rs) => OnDisk(rs)') /\ (Checked(rs) => Checked(rs)')
    BY <2>1, RowsLast
  <2>3. QED BY <1>1, <1>3, <2>2
         DEF SoundInv, Sound, Routed, Hashed, Gate, Passed, Cmd, Rowed
<1>6. FillInv'
  BY <1>1, <1>3 DEF FillInv, Filling
<1>7. PageInv'
  BY <1>1, <1>3 DEF PageInv, Rows, Checked, OnDisk, Whole, RetryIsAllowed
<1>8. QED BY <1>2, <1>4, <1>5, <1>6, <1>7 DEF IInv

-----------------------------------------------------------------------------
(* The steps that fill a file, and those that read the records.             *)

\* A step that writes to the disk beside the freeze record.
LEMMA DiskInv ==
  ASSUME IInv, NEW p \in Procs, NEW r \in Process, proc' = [proc EXCEPT ![p] = r],
         UNCHANGED <<stale, suite, image, frozen, edits, crashes, verifierVars>>,
         audited' \in Nat \union {Absent, Torn},
         results' \in [DOMAIN results -> ResultRecord \union {Absent, Torn}],
         trajectories' \in [DOMAIN results -> TrajectoryRecord \union {Absent, Torn}],
         Lasting, FillInv', Sound(p)', page' = page \/ PageInv'
  PROVE  IInv'
<1>1. /\ UNCHANGED suite /\ UNCHANGED image /\ UNCHANGED stale /\ UNCHANGED frozen
      /\ UNCHANGED edits /\ UNCHANGED crashes /\ UNCHANGED verifierVars
  OBVIOUS
<1>2. VInv /\ RecordsTypeOK /\ PageInv
  BY DEF IInv
<1>3. /\ proc' \in [Procs -> Process] /\ proc'[p] = r
      /\ \A q \in Procs \ {p} : proc'[q] = proc[q]
  <2>1. proc \in [Procs -> Process]
    BY <1>2 DEF RecordsTypeOK
  <2> HIDE DEF Process
  <2>2. QED BY <2>1
<1>4. DOMAIN results' = DOMAIN results
  OBVIOUS
<1>5. Rows' = Rows /\ Process' = Process
  BY <1>4 DEF Rows, Process
<1>6. RecordsTypeOK'
  BY <1>1, <1>2, <1>3, <1>4, <1>5 DEF RecordsTypeOK
<1>7. VInv'
  BY <1>1, <1>2, SameVerifier
<1>8. PageInv'
  BY <1>2, <1>4, <1>5, RowsLast DEF PageInv
<1>9. QED BY <1>1, <1>3, <1>4, <1>6, <1>7, <1>8, ProcInv

LEMMA CreateImagesInv ==
  ASSUME IInv, NEW p \in Procs, CreateImages(p)
  PROVE  IInv'
<1>1. /\ proc \in [Procs -> Process] /\ proc[p] \in Process /\ proc[p].cmd \in Commands
      /\ Routed(p) /\ Hashed(p) /\ Gate(p) /\ proc[p].at = "create" /\ image \in Nat
      /\ frozen \in FreezeRecord \union {Absent, Torn} /\ crashes \in Nat /\ VInv
  BY ProcFacts DEF CreateImages, Is
<1>2. /\ UNCHANGED <<stale, suite, image, frozen, edits, crashes, verifierVars>>
      /\ UNCHANGED <<stale, suite, image, records, page, edits>>
      /\ UNCHANGED suite /\ UNCHANGED stale
      /\ UNCHANGED verifierVars /\ UNCHANGED page /\ UNCHANGED results /\ UNCHANGED trajectories
  BY DEF CreateImages, records
<1>3. RecordsTypeOK /\ FillInv
  BY DEF IInv
<1>4. CASE /\ audited = Absent /\ audited' = Torn
           /\ proc' = [proc EXCEPT ![p].at = "fill", ![p].id = image]
  <2> DEFINE r == [proc[p] EXCEPT !.at = "fill", !.id = image]
  <2>1. "fill" \in Route[proc[p].cmd]
    BY <1>1 DEF Routed, Route, Commands
  <2>2. "fill" \in (UNION {Route[c] : c \in Commands}) \union {"start", "ended"}
    BY <1>1, <2>1
  <2>3. /\ r \in Process /\ r.at = "fill" /\ r.told = proc[p].told /\ r.cmd = proc[p].cmd
        /\ r.mem = proc[p].mem
    BY <1>1, <2>2 DEF Process
  <2>4. proc' = [proc EXCEPT ![p] = r] /\ proc'[p] = r
    BY <1>1, <1>4 DEF Process
  <2> HIDE DEF r
  <2>5. \A q \in Procs \ {p} : proc'[q] = proc[q]
    BY <1>1, <2>4
  <2>6. Sound(p)'
    <3>1. Routed(p)'
      BY <1>1, <2>1, <2>3, <2>4 DEF Routed
    <3>2. Hashed(p)'
      BY <1>1, <1>2, <2>3, <2>4 DEF Hashed
    <3>3. Gate(p)' /\ Rowed(p)'
      BY <1>1, <2>3, <2>4 DEF Gate, Passed, Routed, Rowed
    <3>4. QED BY <3>1, <3>2, <3>3 DEF Sound
  <2>7. FillInv'
    <3>1. \A q \in Procs : ~Filling(q, "fill")
      BY <1>3, <1>4, EvalAssumption DEF FillInv
    <3>2. \A q \in Procs \ {p}, at \in {"fill", "trajectory", "result"} :
            Filling(q, at)' <=> Filling(q, at)
      BY <2>5 DEF Filling
    <3>3. ~Filling(p, "trajectory")' /\ ~Filling(p, "result")'
      BY <2>3, <2>4 DEF Filling
    <3>4. QED BY <1>2, <1>3, <1>4, <3>1, <3>2, <3>3 DEF FillInv
  <2>8. Lasting
    BY <1>2, <1>4 DEF Lasting, Whole
  <2>9. /\ audited' \in Nat \union {Absent, Torn}
        /\ results' \in [DOMAIN results -> ResultRecord \union {Absent, Torn}]
        /\ trajectories' \in [DOMAIN results -> TrajectoryRecord \union {Absent, Torn}]
    BY <1>2, <1>3, <1>4 DEF RecordsTypeOK
  <2>10. QED BY <1>2, <2>3, <2>4, <2>6, <2>7, <2>8, <2>9, DiskInv
<1>5. CASE Tells(p, "error") /\ UNCHANGED audited
  <2>1. VInv' /\ crashes' \in Nat /\ frozen' \in FreezeRecord \union {Absent, Torn}
    BY <1>1, <1>2, SameVerifier
  <2>2. QED BY <1>2, <1>5, <2>1, TellsInv
<1>6. QED BY <1>4, <1>5 DEF CreateImages

LEMMA FillImagesInv ==
  ASSUME IInv, NEW p \in Procs, FillImages(p)
  PROVE  IInv'
<1>1. /\ proc \in [Procs -> Process] /\ proc[p] \in Process /\ proc[p].cmd \in Commands
      /\ Routed(p) /\ Hashed(p) /\ proc[p].at = "fill" /\ proc[p].id \in Nat
  BY ProcFacts DEF FillImages, Is
<1>2. /\ UNCHANGED <<stale, suite, image, frozen, edits, crashes, verifierVars>>
      /\ UNCHANGED page /\ UNCHANGED results /\ UNCHANGED trajectories
      /\ audited' = proc[p].id
      /\ proc' = [proc EXCEPT ![p].at = "ended", ![p].told = "ok"]
  BY DEF FillImages, records, Tells
<1>3. RecordsTypeOK /\ FillInv
  BY DEF IInv
<1> DEFINE r == [proc[p] EXCEPT !.at = "ended", !.told = "ok"]
<1>4. r \in Process /\ r.at = "ended" /\ r.told = "ok" /\ r.cmd = proc[p].cmd
  BY <1>1 DEF Process
<1>5. proc' = [proc EXCEPT ![p] = r] /\ proc'[p] = r
  BY <1>1, <1>2 DEF Process
<1> HIDE DEF r
<1>6. \A q \in Procs \ {p} : proc'[q] = proc[q]
  BY <1>1, <1>5
<1>7. proc[p].cmd = "inspect-images"
  BY <1>1 DEF Routed, Route, Commands
<1>8. Sound(p)'
  <2>1. Routed(p)'
    BY <1>4, <1>5 DEF Routed
  <2>2. Hashed(p)' /\ Rowed(p)'
    BY <1>4, <1>5 DEF Hashed, Rowed
  <2>3. Gate(p)'
    BY <1>4, <1>5, <1>7 DEF Gate, Passed, Cmd, Gated
  <2>4. QED BY <2>1, <2>2, <2>3 DEF Sound
<1>9. FillInv'
  <2>1. \A q \in Procs \ {p} : ~Filling(q, "fill")
    BY <1>1, <1>3 DEF FillInv, Filling
  <2>2. \A q \in Procs \ {p}, at \in {"fill", "trajectory", "result"} :
          Filling(q, at)' <=> Filling(q, at)
    BY <1>6 DEF Filling
  <2>3. \A at \in {"fill", "trajectory", "result"} : ~Filling(p, at)'
    BY <1>4, <1>5 DEF Filling
  <2>4. QED BY <1>2, <1>3, <2>1, <2>2, <2>3 DEF FillInv
<1>10. Lasting
  BY <1>1, <1>2, <1>3 DEF Lasting, Whole, FillInv, Filling
<1>11. /\ audited' \in Nat \union {Absent, Torn}
       /\ results' \in [DOMAIN results -> ResultRecord \union {Absent, Torn}]
       /\ trajectories' \in [DOMAIN results -> TrajectoryRecord \union {Absent, Torn}]
  BY <1>1, <1>2, <1>3 DEF RecordsTypeOK
<1>12. QED BY <1>2, <1>4, <1>5, <1>8, <1>9, <1>10, <1>11, DiskInv

\* An exclusive write of a record: what the process becomes, and what the file.
LEMMA ExclusiveInv ==
  ASSUME IInv, NEW p \in Procs, NEW dir, NEW dirNext, NEW record, NEW next,
         NEW at \in {"trajectory", "result"}, proc[p].at = at,
         next = (IF at = "trajectory" THEN "result" ELSE "results"),
         DOMAIN dir = DOMAIN results,
         \/ /\ proc[p].id = 1 /\ dirNext = [dir EXCEPT !["smoke"] = record]
            /\ proc' = [proc EXCEPT ![p].at = next, ![p].id = 0]
         \/ /\ proc[p].id # 1 /\ dir["smoke"] = Absent
            /\ dirNext = [dir EXCEPT !["smoke"] = Torn]
            /\ proc' = [proc EXCEPT ![p].id = 1],
         UNCHANGED <<stale, suite>>
  PROVE  /\ \E r \in Process : proc' = [proc EXCEPT ![p] = r]
         /\ Sound(p)'
         /\ \A q \in Procs \ {p} : proc'[q] = proc[q]
         /\ DOMAIN dirNext = DOMAIN dir /\ dirNext["smoke"] \in {record, Torn}
         /\ \A a \in DOMAIN dir \ {"smoke"} : dirNext[a] = dir[a]
         /\ ~Filling(p, "fill")' /\ (\A x \in {"trajectory", "result"} \ {at} : ~Filling(p, x)')
         /\ \/ Filling(p, at) /\ ~Filling(p, at)'
            \/ dir["smoke"] = Absent /\ Filling(p, at)' /\ dirNext["smoke"] = Torn
<1>1. /\ proc \in [Procs -> Process] /\ proc[p] \in Process /\ proc[p].cmd \in Commands
      /\ Routed(p) /\ Hashed(p) /\ proc[p].id \in Nat
  BY ProcFacts
<1>2. proc[p].cmd = "smoke" /\ next \in {"result", "results"}
  BY <1>1 DEF Routed, Route, Commands
<1>3. next \in Route[proc[p].cmd] /\ at \in Route[proc[p].cmd]
  BY <1>2 DEF Route, Commands
<1>4. "smoke" \in DOMAIN dir
  BY DEF IInv, RecordsTypeOK
<1> DEFINE full == proc[p].id = 1
           to   == IF full THEN next ELSE at
           id   == IF full THEN 0 ELSE 1
<1>5. /\ proc' = [proc EXCEPT ![p].at = to, ![p].id = id]
      /\ \/ /\ to = next /\ id = 0 /\ proc[p].id = 1
            /\ dirNext = [dir EXCEPT !["smoke"] = record]
         \/ /\ to = at /\ id = 1 /\ dir["smoke"] = Absent
            /\ dirNext = [dir EXCEPT !["smoke"] = Torn]
  <2>1. CASE full
    BY <2>1
  <2>2. CASE ~full
    <3>1. proc' = [proc EXCEPT ![p].at = at, ![p].id = 1]
      BY <1>1, <2>2 DEF Process
    <3>2. QED BY <2>2, <3>1
  <2>3. QED BY <2>1, <2>2
<1> HIDE DEF full, to, id
<1>6. to \in Route[proc[p].cmd] /\ to \in {"trajectory", "result", "results"}
  BY <1>2, <1>3, <1>5
<1>7. to \in (UNION {Route[c] : c \in Commands}) \union {"start", "ended"}
  BY <1>1, <1>6
<1> DEFINE r == [proc[p] EXCEPT !.at = to, !.id = id]
<1>8. /\ r \in Process /\ r.at = to /\ r.told = proc[p].told /\ r.cmd = proc[p].cmd
      /\ r.mem = proc[p].mem /\ r.id = id
  <2>1. id \in Nat
    BY <1>5
  <2>2. QED BY <1>1, <1>7, <2>1 DEF Process
<1>9. proc' = [proc EXCEPT ![p] = r] /\ proc'[p] = r
  BY <1>1, <1>5 DEF Process
<1> HIDE DEF r
<1>10. \A q \in Procs \ {p} : proc'[q] = proc[q]
  BY <1>1, <1>9
<1>11. Sound(p)'
  <2>1. Routed(p)'
    BY <1>1, <1>6, <1>8, <1>9 DEF Routed
  <2>2. Hashed(p)'
    BY <1>1, <1>6, <1>8, <1>9 DEF Hashed
  <2>3. Gate(p)' /\ Rowed(p)'
    BY <1>1, <1>6, <1>8, <1>9 DEF Gate, Passed, Routed, Rowed
  <2>4. QED BY <2>1, <2>2, <2>3 DEF Sound
<1>12. /\ DOMAIN dirNext = DOMAIN dir /\ dirNext["smoke"] \in {record, Torn}
       /\ \A a \in DOMAIN dir \ {"smoke"} : dirNext[a] = dir[a]
  BY <1>4, <1>5
<1>13. /\ ~Filling(p, "fill")' /\ (\A x \in {"trajectory", "result"} \ {at} : ~Filling(p, x)')
       /\ \/ Filling(p, at) /\ ~Filling(p, at)'
          \/ dir["smoke"] = Absent /\ Filling(p, at)' /\ dirNext["smoke"] = Torn
  <2>1. /\ proc'[p].at = to /\ proc'[p].id = id
        /\ \A x \in {"fill", "trajectory", "result"} :
             Filling(p, x)' <=> (to = x /\ (x # "fill" => id = 1))
    BY <1>8, <1>9 DEF Filling
  <2>2. CASE to = next /\ id = 0 /\ proc[p].id = 1
    <3>1. \A x \in {"fill", "trajectory", "result"} : ~Filling(p, x)'
      BY <1>2, <2>1, <2>2
    <3>2. Filling(p, at)
      BY <2>2 DEF Filling
    <3>3. QED BY <3>1, <3>2
  <2>3. CASE /\ to = at /\ id = 1 /\ dir["smoke"] = Absent
             /\ dirNext = [dir EXCEPT !["smoke"] = Torn]
    BY <1>4, <2>1, <2>3
  <2>4. QED BY <1>5, <2>2, <2>3
<1>14. QED BY <1>8, <1>9, <1>10, <1>11, <1>12, <1>13

LEMMA Updated ==
  ASSUME NEW S, NEW T, NEW f \in [S -> T], NEW a, NEW w \in T
  PROVE  [f EXCEPT ![a] = w] \in [S -> T]
OBVIOUS

LEMMA WriteTrajectoryInv ==
  ASSUME IInv, NEW p \in Procs, WriteTrajectory(p)
  PROVE  IInv'
<1>1. /\ proc \in [Procs -> Process] /\ proc[p] \in Process /\ proc[p].cmd \in Commands
      /\ proc[p].at = "trajectory" /\ crashes \in Nat /\ VInv
      /\ frozen \in FreezeRecord \union {Absent, Torn}
  BY ProcFacts DEF WriteTrajectory, Is
<1>2. /\ UNCHANGED <<stale, suite, image, frozen, edits, crashes, verifierVars>>
      /\ UNCHANGED <<stale, suite>> /\ UNCHANGED verifierVars
      /\ UNCHANGED page /\ UNCHANGED results /\ UNCHANGED audited
  BY DEF WriteTrajectory
<1>3. RecordsTypeOK /\ FillInv
  BY DEF IInv
<1>4. DOMAIN trajectories = DOMAIN results /\ "smoke" \in DOMAIN trajectories
  BY <1>3 DEF RecordsTypeOK
<1> DEFINE Filled  == /\ proc[p].id = 1
                      /\ trajectories' = [trajectories EXCEPT !["smoke"] = SmokeTrajectory]
                      /\ proc' = [proc EXCEPT ![p].at = "result", ![p].id = 0]
           Created == /\ proc[p].id # 1 /\ trajectories["smoke"] = Absent
                      /\ trajectories' = [trajectories EXCEPT !["smoke"] = Torn]
                      /\ proc' = [proc EXCEPT ![p].id = 1]
           Refused == Tells(p, "error") /\ UNCHANGED trajectories
<1>5. Filled \/ Created \/ Refused
  BY DEF WriteTrajectory, WriteExclusive
<1>6. CASE Filled \/ Created
  <2>1. /\ \E r \in Process : proc' = [proc EXCEPT ![p] = r]
        /\ Sound(p)'
        /\ \A q \in Procs \ {p} : proc'[q] = proc[q]
        /\ DOMAIN trajectories' = DOMAIN trajectories /\ trajectories'["smoke"] \in {SmokeTrajectory, Torn}
        /\ \A a \in DOMAIN trajectories \ {"smoke"} : trajectories'[a] = trajectories[a]
        /\ ~Filling(p, "fill")'
        /\ \A x \in {"trajectory", "result"} \ {"trajectory"} : ~Filling(p, x)'
        /\ \/ Filling(p, "trajectory") /\ ~Filling(p, "trajectory")'
           \/ /\ trajectories["smoke"] = Absent /\ Filling(p, "trajectory")'
              /\ trajectories'["smoke"] = Torn
    <3> DEFINE here == "trajectory"
               next == "result"
    <3>1. here \in {"trajectory", "result"} /\ proc[p].at = here
      BY <1>1
    <3>2. next = (IF here = "trajectory" THEN "result" ELSE "results")
      OBVIOUS
    <3>3. \/ /\ proc[p].id = 1 /\ trajectories' = [trajectories EXCEPT !["smoke"] = SmokeTrajectory]
             /\ proc' = [proc EXCEPT ![p].at = next, ![p].id = 0]
          \/ /\ proc[p].id # 1 /\ trajectories["smoke"] = Absent
             /\ trajectories' = [trajectories EXCEPT !["smoke"] = Torn]
             /\ proc' = [proc EXCEPT ![p].id = 1]
      BY <1>6
    <3> HIDE DEF here, next
    <3>4. QED BY <1>2, <1>4, <3>1, <3>2, <3>3, ExclusiveInv, SMTT(30) DEF here, next
  <2>2. PICK r \in Process : proc' = [proc EXCEPT ![p] = r]
    BY <2>1
  <2>3. trajectories' \in [DOMAIN results -> TrajectoryRecord \union {Absent, Torn}]
    <3>1. SmokeTrajectory \in TrajectoryRecord
      BY EvalAssumption DEF SmokeTrajectory, TrajectoryRecord
    <3>2. trajectories \in [DOMAIN results -> TrajectoryRecord \union {Absent, Torn}]
      BY <1>3 DEF RecordsTypeOK
    <3>3. PICK w \in {SmokeTrajectory, Torn} : trajectories' = [trajectories EXCEPT !["smoke"] = w]
      BY <1>6
    <3>4. w \in TrajectoryRecord \union {Absent, Torn}
      BY <3>1, <3>3
    <3>5. QED BY <3>2, <3>3, <3>4, Updated
  <2>4. Filling(p, "trajectory") \/ trajectories["smoke"] = Absent
    BY <2>1
  <2>5. ~Whole(trajectories["smoke"])
    BY <1>3, <2>4 DEF FillInv, Whole
  <2>6. Lasting
    BY <1>2, <1>4, <2>1, <2>5 DEF Lasting
  <2>7. FillInv'
    <3>1. \A q \in Procs \ {p}, x \in {"fill", "trajectory", "result"} :
            Filling(q, x)' <=> Filling(q, x)
      BY <2>1 DEF Filling
    <3>2. \A q \in Procs \ {p} : ~Filling(q, "trajectory")
      BY <1>3, <2>4, EvalAssumption DEF FillInv
    <3>3. ~Filling(p, "fill")' /\ ~Filling(p, "result")'
      BY <2>1
    <3>4. Filling(p, "trajectory")' => trajectories'["smoke"] = Torn
      BY <2>1
    <3>5. QED BY <1>2, <1>3, <3>1, <3>2, <3>3, <3>4 DEF FillInv
  <2>8. /\ audited' \in Nat \union {Absent, Torn}
        /\ results' \in [DOMAIN results -> ResultRecord \union {Absent, Torn}]
    BY <1>2, <1>3 DEF RecordsTypeOK
  <2>9. QED BY <1>2, <2>1, <2>2, <2>3, <2>6, <2>7, <2>8, DiskInv
<1>7. CASE Refused
  <2>1. UNCHANGED <<stale, suite, image, audited, records, page, edits>>
    BY <1>2, <1>7 DEF records
  <2>2. VInv' /\ crashes' \in Nat /\ frozen' \in FreezeRecord \union {Absent, Torn}
    BY <1>1, <1>2, SameVerifier
  <2>3. QED BY <1>7, <2>1, <2>2, TellsInv
<1>8. QED BY <1>5, <1>6, <1>7

LEMMA WriteResultInv ==
  ASSUME IInv, NEW p \in Procs, WriteResult(p)
  PROVE  IInv'
<1>1. /\ proc \in [Procs -> Process] /\ proc[p] \in Process /\ proc[p].cmd \in Commands
      /\ proc[p].at = "result" /\ crashes \in Nat /\ VInv
      /\ frozen \in FreezeRecord \union {Absent, Torn}
  BY ProcFacts DEF WriteResult, Is
<1>2. /\ UNCHANGED <<stale, suite, image, frozen, edits, crashes, verifierVars>>
      /\ UNCHANGED <<stale, suite>> /\ UNCHANGED verifierVars
      /\ UNCHANGED page /\ UNCHANGED trajectories /\ UNCHANGED audited
  BY DEF WriteResult
<1>3. RecordsTypeOK /\ FillInv
  BY DEF IInv
<1>4. DOMAIN results = DOMAIN results /\ "smoke" \in DOMAIN results
  BY <1>3 DEF RecordsTypeOK
<1> DEFINE Filled  == /\ proc[p].id = 1
                      /\ results' = [results EXCEPT !["smoke"] = SmokeResult]
                      /\ proc' = [proc EXCEPT ![p].at = "results", ![p].id = 0]
           Created == /\ proc[p].id # 1 /\ results["smoke"] = Absent
                      /\ results' = [results EXCEPT !["smoke"] = Torn]
                      /\ proc' = [proc EXCEPT ![p].id = 1]
           Refused == Tells(p, "error") /\ UNCHANGED results
<1>5. Filled \/ Created \/ Refused
  BY DEF WriteResult, WriteExclusive
<1>6. CASE Filled \/ Created
  <2>1. /\ \E r \in Process : proc' = [proc EXCEPT ![p] = r]
        /\ Sound(p)'
        /\ \A q \in Procs \ {p} : proc'[q] = proc[q]
        /\ DOMAIN results' = DOMAIN results /\ results'["smoke"] \in {SmokeResult, Torn}
        /\ \A a \in DOMAIN results \ {"smoke"} : results'[a] = results[a]
        /\ ~Filling(p, "fill")'
        /\ \A x \in {"trajectory", "result"} \ {"result"} : ~Filling(p, x)'
        /\ \/ Filling(p, "result") /\ ~Filling(p, "result")'
           \/ /\ results["smoke"] = Absent /\ Filling(p, "result")'
              /\ results'["smoke"] = Torn
    <3> DEFINE here == "result"
               next == "results"
    <3>1. here \in {"trajectory", "result"} /\ proc[p].at = here
      BY <1>1
    <3>2. next = (IF here = "trajectory" THEN "result" ELSE "results")
      OBVIOUS
    <3>3. \/ /\ proc[p].id = 1 /\ results' = [results EXCEPT !["smoke"] = SmokeResult]
             /\ proc' = [proc EXCEPT ![p].at = next, ![p].id = 0]
          \/ /\ proc[p].id # 1 /\ results["smoke"] = Absent
             /\ results' = [results EXCEPT !["smoke"] = Torn]
             /\ proc' = [proc EXCEPT ![p].id = 1]
      BY <1>6
    <3> HIDE DEF here, next
    <3>4. QED BY <1>2, <1>4, <3>1, <3>2, <3>3, ExclusiveInv DEF here, next
  <2>2. PICK r \in Process : proc' = [proc EXCEPT ![p] = r]
    BY <2>1
  <2>3. results' \in [DOMAIN results -> ResultRecord \union {Absent, Torn}]
    <3>1. SmokeResult \in ResultRecord
      BY EvalAssumption DEF SmokeResult, ResultRecord, Statuses
    <3>2. results \in [DOMAIN results -> ResultRecord \union {Absent, Torn}]
      BY <1>3 DEF RecordsTypeOK
    <3>3. PICK w \in {SmokeResult, Torn} : results' = [results EXCEPT !["smoke"] = w]
      BY <1>6
    <3>4. w \in ResultRecord \union {Absent, Torn}
      BY <3>1, <3>3
    <3>5. QED BY <3>2, <3>3, <3>4, Updated
  <2>4. Filling(p, "result") \/ results["smoke"] = Absent
    BY <2>1
  <2>5. ~Whole(results["smoke"])
    BY <1>3, <2>4 DEF FillInv, Whole
  <2>6. Lasting
    BY <1>2, <1>4, <2>1, <2>5 DEF Lasting
  <2>7. FillInv'
    <3>1. \A q \in Procs \ {p}, x \in {"fill", "trajectory", "result"} :
            Filling(q, x)' <=> Filling(q, x)
      BY <2>1 DEF Filling
    <3>2. \A q \in Procs \ {p} : ~Filling(q, "result")
      BY <1>3, <2>4, EvalAssumption DEF FillInv
    <3>3. ~Filling(p, "fill")' /\ ~Filling(p, "trajectory")'
      BY <2>1
    <3>4. Filling(p, "result")' => results'["smoke"] = Torn
      BY <2>1
    <3>5. QED BY <1>2, <1>3, <3>1, <3>2, <3>3, <3>4 DEF FillInv
  <2>8. /\ audited' \in Nat \union {Absent, Torn}
        /\ trajectories' \in [DOMAIN results -> TrajectoryRecord \union {Absent, Torn}]
    BY <1>2, <1>3 DEF RecordsTypeOK
  <2>9. QED BY <1>2, <2>1, <2>2, <2>3, <2>6, <2>7, <2>8, DiskInv
<1>7. CASE Refused
  <2>1. UNCHANGED <<stale, suite, image, audited, records, page, edits>>
    BY <1>2, <1>7 DEF records
  <2>2. VInv' /\ crashes' \in Nat /\ frozen' \in FreezeRecord \union {Absent, Torn}
    BY <1>1, <1>2, SameVerifier
  <2>3. QED BY <1>7, <2>1, <2>2, TellsInv
<1>8. QED BY <1>5, <1>6, <1>7

\* What is loaded was on the disk, and whole.
LEMMA LoadResultsInv ==
  ASSUME IInv, NEW p \in Procs, LoadResults(p)
  PROVE  IInv'
<1>1. /\ proc \in [Procs -> Process] /\ proc[p] \in Process /\ proc[p].cmd \in Commands
      /\ Routed(p) /\ Hashed(p) /\ Gate(p) /\ proc[p].at = "results"
      /\ frozen \in FreezeRecord \union {Absent, Torn} /\ crashes \in Nat /\ VInv
  BY ProcFacts DEF LoadResults, Is
<1>2. /\ UNCHANGED stale /\ UNCHANGED verifierVars /\ UNCHANGED suite
      /\ UNCHANGED <<suite, image, audited, records, page, edits>>
      /\ UNCHANGED crashes /\ UNCHANGED frozen /\ UNCHANGED results
  BY DEF LoadResults, files, records
<1>3. /\ VInv' /\ crashes' \in Nat /\ frozen' \in FreezeRecord \union {Absent, Torn}
  BY <1>1, <1>2, SameVerifier
<1>4. CASE /\ Decodes(results)
           /\ proc' = [proc EXCEPT ![p].at = "trajectories", ![p].rows = Loaded(results)]
  <2> DEFINE rs == Loaded(results)
             r  == [proc[p] EXCEPT !.at = "trajectories", !.rows = rs]
  <2>1. rs \in Rows /\ OnDisk(rs)
    <3>1. results \in [DOMAIN results -> ResultRecord \union {Absent, Torn}]
      BY DEF IInv, RecordsTypeOK
    <3>2. DOMAIN rs = Files(results) /\ \A a \in Files(results) : rs[a] = results[a]
      BY DEF Loaded
    <3>3. Files(results) \subseteq DOMAIN results
      BY DEF Files
    <3>4. \A a \in Files(results) : Whole(results[a])
      BY <1>4 DEF Decodes
    <3>5. OnDisk(rs)
      BY <3>2, <3>3, <3>4 DEF OnDisk
    <3>6. \A a \in Files(results) : results[a] \in ResultRecord
      BY <3>1, <3>3, <3>4 DEF Whole
    <3>7. rs \in [Files(results) -> ResultRecord]
      BY <3>6 DEF Loaded
    <3>8. QED BY <3>3, <3>5, <3>7 DEF Rows
  <2> HIDE DEF rs
  <2>2. "trajectories" \in Route[proc[p].cmd]
    BY <1>1 DEF Routed, Route, Commands
  <2>3. "trajectories" \in (UNION {Route[c] : c \in Commands}) \union {"start", "ended"}
    BY <1>1, <2>2
  <2>4. /\ r \in Process /\ r.at = "trajectories" /\ r.told = proc[p].told
        /\ r.cmd = proc[p].cmd /\ r.mem = proc[p].mem /\ r.rows = rs
    BY <1>1, <2>1, <2>3 DEF Process
  <2>5. proc' = [proc EXCEPT ![p] = r] /\ proc'[p] = r
    BY <1>1, <1>4 DEF Process, rs
  <2> HIDE DEF r
  <2>6. Routed(p)' /\ Hashed(p)'
    BY <1>1, <1>2, <2>2, <2>4, <2>5 DEF Routed, Hashed
  <2>7. Gate(p)'
    BY <1>1, <2>4, <2>5 DEF Gate, Passed, Routed
  <2>8. Rowed(p)'
    BY <1>2, <2>1, <2>4, <2>5 DEF Rowed, OnDisk, Whole
  <2>9. Sound(p)'
    BY <2>6, <2>7, <2>8 DEF Sound
  <2>10. r.at \notin {"start", "fill"} /\ (r.at \in {"trajectory", "result"} => r.id = 0)
    BY <2>4
  <2>11. QED BY <1>2, <1>3, <2>4, <2>5, <2>9, <2>10, QuietInv
<1>5. CASE Tells(p, "error")
  BY <1>2, <1>3, <1>5, TellsInv
<1>6. QED BY <1>4, <1>5 DEF LoadResults

\* What is reported was validated with trajectories that were there, and whole.
LEMMA LoadTrajectoriesInv ==
  ASSUME IInv, NEW p \in Procs, LoadTrajectories(p)
  PROVE  IInv'
<1>1. /\ proc[p].cmd \in Commands /\ Routed(p) /\ Rowed(p) /\ proc[p].at = "trajectories"
      /\ frozen \in FreezeRecord \union {Absent, Torn} /\ crashes \in Nat /\ VInv
  BY ProcFacts DEF LoadTrajectories, Is
<1>2. /\ UNCHANGED <<stale, suite, image, audited, records, page, edits>>
      /\ UNCHANGED verifierVars /\ UNCHANGED crashes /\ UNCHANGED frozen
  BY DEF LoadTrajectories, files
<1>3. /\ VInv' /\ crashes' \in Nat /\ frozen' \in FreezeRecord \union {Absent, Torn}
  BY <1>1, <1>2, SameVerifier
<1>4. CASE Tells(p, "error")
  BY <1>2, <1>3, <1>4, TellsInv
<1>5. CASE /\ Decodes(trajectories) /\ ValidateRecords(proc[p].rows, Loaded(trajectories))
           /\ Cmd(p) = "report" /\ To(p, "page")
  <2> DEFINE rs == proc[p].rows
  <2>1. OnDisk(rs)
    BY <1>1 DEF Rowed
  <2>2. DOMAIN rs = Files(trajectories)
    BY <1>5 DEF ValidateRecords, Loaded
  <2>3. \A a \in DOMAIN rs : Whole(trajectories[a])
    BY <1>5, <2>2 DEF Decodes
  <2>4. \A a \in DOMAIN rs : RetryIsAllowed(rs, a)
    BY <1>5 DEF ValidateRecords
  <2>5. Checked(rs)
    BY <2>1, <2>3, <2>4 DEF Checked
  <2>6. "page" \in Route[proc[p].cmd]
    BY <1>5 DEF Cmd, Route, Commands
  <2>7. QED BY <1>1, <1>2, <1>3, <1>5, <2>5, <2>6, ToInv
<1>6. CASE Tells(p, "ok")
  <2>1. Cmd(p) \notin Gated
    BY <1>1 DEF Cmd, Gated, Routed, Route, Commands
  <2>2. QED BY <1>2, <1>3, <1>6, <2>1, TellsInv
<1>7. QED BY <1>4, <1>5, <1>6 DEF LoadTrajectories

\* The page is torn, or it shows the rows that were checked.
LEMMA WritePageInv ==
  ASSUME IInv, NEW p \in Procs, WritePage(p)
  PROVE  IInv'
<1>1. /\ proc \in [Procs -> Process] /\ proc[p] \in Process /\ proc[p].cmd \in Commands
      /\ Routed(p) /\ Hashed(p) /\ Rowed(p) /\ proc[p].at \in {"page", "print"}
      /\ proc[p].rows \in Rows
  BY ProcFacts DEF WritePage, Is
<1>2. /\ UNCHANGED <<stale, suite, image, frozen, edits, crashes, verifierVars>>
      /\ UNCHANGED suite /\ UNCHANGED stale
      /\ UNCHANGED audited /\ UNCHANGED results /\ UNCHANGED trajectories
  BY DEF WritePage, records
<1>3. RecordsTypeOK /\ FillInv
  BY DEF IInv
<1>4. proc[p].cmd = "report" /\ Checked(proc[p].rows) /\ proc[p].told = "running"
  BY <1>1 DEF Routed, Route, Commands, Rowed
<1>5. PICK at \in {"print", "ended"}, told \in {"running", "ok"} :
        /\ proc' = [proc EXCEPT ![p].at = at, ![p].told = told]
        /\ told = "running" <=> at # "ended"
        /\ page' = Torn \/ page' = proc[p].rows
  <2>1. CASE Is(p, "page") /\ page' = Torn /\ To(p, "print")
    <3>1. proc' = [proc EXCEPT ![p].at = "print", ![p].told = "running"]
      BY <1>1, <1>4, <2>1 DEF To, Process
    <3>2. QED BY <2>1, <3>1
  <2>2. CASE Is(p, "print") /\ page' = proc[p].rows /\ Tells(p, "ok")
    BY <2>2 DEF Tells
  <2>3. QED BY <2>1, <2>2 DEF WritePage
<1> DEFINE r == [proc[p] EXCEPT !.at = at, !.told = told]
<1>6. at \in Route[proc[p].cmd] \union {"start", "ended"}
  BY <1>4 DEF Route, Commands
<1>7. at \in (UNION {Route[c] : c \in Commands}) \union {"start", "ended"}
  BY <1>1, <1>6
<1>8. /\ r \in Process /\ r.at = at /\ r.told = told /\ r.cmd = proc[p].cmd
      /\ r.mem = proc[p].mem /\ r.rows = proc[p].rows
  BY <1>1, <1>7 DEF Process
<1>9. proc' = [proc EXCEPT ![p] = r] /\ proc'[p] = r
  BY <1>1, <1>5 DEF Process
<1> HIDE DEF r
<1>10. \A rs : Checked(rs) => Checked(rs)'
  BY <1>2 DEF Checked, OnDisk, Whole, RetryIsAllowed
<1>11. Sound(p)'
  <2>1. Routed(p)'
    BY <1>5, <1>6, <1>8, <1>9 DEF Routed
  <2>2. Hashed(p)'
    BY <1>1, <1>2, <1>8, <1>9 DEF Hashed
  <2>3. Gate(p)'
    BY <1>4, <1>8, <1>9 DEF Gate, Passed, Cmd, Gated
  <2>4. Rowed(p)'
    BY <1>4, <1>8, <1>9, <1>10 DEF Rowed
  <2>5. QED BY <2>1, <2>2, <2>3, <2>4 DEF Sound
<1>12. FillInv'
  <2>1. \A q \in Procs \ {p} : proc'[q] = proc[q]
    BY <1>1, <1>9
  <2>2. \A x \in {"fill", "trajectory", "result"} : ~Filling(p, x)'
    BY <1>8, <1>9 DEF Filling
  <2>3. \A q \in Procs \ {p}, x \in {"fill", "trajectory", "result"} :
          Filling(q, x)' <=> Filling(q, x)
    BY <2>1 DEF Filling
  <2>4. QED BY <1>2, <1>3, <2>2, <2>3 DEF FillInv
<1>13. PageInv'
  <2>1. Rows' = Rows
    BY <1>2 DEF Rows
  <2>2. QED BY <1>1, <1>4, <1>5, <1>10, <2>1 DEF PageInv, Whole
<1>14. Lasting
  BY <1>2 DEF Lasting
<1>15. /\ audited' \in Nat \union {Absent, Torn}
       /\ results' \in [DOMAIN results -> ResultRecord \union {Absent, Torn}]
       /\ trajectories' \in [DOMAIN results -> TrajectoryRecord \union {Absent, Torn}]
  BY <1>2, <1>3 DEF RecordsTypeOK
<1>16. QED BY <1>2, <1>8, <1>9, <1>11, <1>12, <1>13, <1>14, <1>15, DiskInv

-----------------------------------------------------------------------------
(* The environment moves, or nothing does.                                  *)

\* What is on the disk stays as it is when a call fails or a process is killed.
LEMMA BreakInv ==
  ASSUME IInv, NEW p \in Procs, Break(p)
  PROVE  IInv'
<1>1. /\ proc[p].cmd \in Commands /\ crashes \in Nat /\ VInv
      /\ frozen \in FreezeRecord \union {Absent, Torn}
  BY ProcFacts
<1>2. /\ UNCHANGED <<stale, suite, image, audited, records, page, edits>>
      /\ UNCHANGED <<goroutine, exists, failedTo, truth, scores, canceled, faults>>
      /\ UNCHANGED frozen
  BY DEF Break, files
<1>3. crashes' \in Nat /\ frozen' \in FreezeRecord \union {Absent, Torn}
  BY <1>1, <1>2 DEF Break
<1>4. verdict \in {"idle", "running", "ok", "error", "crashed"}
  BY <1>1 DEF VInv, VerifierTypeOK
<1>5. verdict' = verdict \/ verdict' = "crashed"
  BY DEF Break
<1>6. VInv'
  BY <1>1, <1>2, <1>4, <1>5, SameTasks DEF Returned
<1>7. Tells(p, "crashed")
  BY DEF Break
<1>8. QED BY <1>2, <1>3, <1>6, <1>7, TellsInv

\* Every process that runs is under the edit: what it has read may be another suite now.
LEMMA EditInv ==
  ASSUME IInv, NEW i \in 1..2, Edit(i)
  PROVE  IInv'
<1>1. /\ UNCHANGED proc /\ UNCHANGED image /\ UNCHANGED audited /\ UNCHANGED frozen
      /\ UNCHANGED results /\ UNCHANGED trajectories /\ UNCHANGED page
      /\ UNCHANGED crashes /\ UNCHANGED verifierVars
      /\ stale' = stale \union Running
  BY DEF Edit, files, records
<1>2. VInv /\ RecordsTypeOK /\ SoundInv /\ FillInv /\ PageInv
  BY DEF IInv
<1>3. RecordsTypeOK'
  <2>1. suite' \in Suites /\ edits' \in Nat
    BY <1>2 DEF RecordsTypeOK, Suites, Edit
  <2>2. stale' \subseteq Procs
    BY <1>1, <1>2 DEF RecordsTypeOK, Running
  <2>3. Process' = Process
    BY <1>1 DEF Process, Rows
  <2>4. QED BY <1>1, <1>2, <2>1, <2>2, <2>3 DEF RecordsTypeOK
<1>4. ASSUME NEW p \in Procs PROVE Sound(p)'
  <2>1. Sound(p)
    BY <1>2 DEF SoundInv
  <2>2. proc[p].at # "ended" => p \in stale'
    BY <1>1, <2>1 DEF Running, Sound, Routed
  <2>3. p \notin stale' => p \notin stale
    BY <1>1
  <2>4. Routed(p)'
    BY <1>1, <2>1 DEF Sound, Routed
  <2>5. Hashed(p)'
    BY <1>1, <2>1, <2>2 DEF Sound, Hashed
  <2>6. Gate(p)'
    BY <1>1, <2>1, <2>3 DEF Sound, Gate, Passed, Cmd
  <2>7. Rowed(p)'
    BY <1>1, <2>1 DEF Sound, Rowed, Checked, OnDisk, Whole, RetryIsAllowed
  <2>8. QED BY <2>4, <2>5, <2>6, <2>7 DEF Sound
<1>5. VInv'
  BY <1>1, <1>2, SameVerifier
<1>6. FillInv'
  BY <1>1, <1>2 DEF FillInv, Filling
<1>7. PageInv'
  BY <1>1, <1>2 DEF PageInv, Rows, Checked, OnDisk, Whole, RetryIsAllowed
<1>8. QED BY <1>3, <1>4, <1>5, <1>6, <1>7 DEF IInv, SoundInv

\* All but the image, which any process may find changed.
LEMMA PullInv ==
  ASSUME IInv, image' \in Nat, edits' \in Nat,
         UNCHANGED <<proc, stale, suite, files, crashes, verifierVars>>
  PROVE  IInv'
<1>1. /\ UNCHANGED proc /\ UNCHANGED stale /\ UNCHANGED suite /\ UNCHANGED audited
      /\ UNCHANGED frozen /\ UNCHANGED results /\ UNCHANGED trajectories
      /\ UNCHANGED page /\ UNCHANGED crashes /\ UNCHANGED verifierVars
  BY DEF files, records
<1>2. VInv /\ RecordsTypeOK /\ SoundInv /\ FillInv /\ PageInv
  BY DEF IInv
<1>3. RecordsTypeOK'
  <2>1. Process' = Process
    BY <1>1 DEF Process, Rows
  <2>2. QED BY <1>1, <1>2, <2>1 DEF RecordsTypeOK
<1>4. SoundInv'
  BY <1>1, <1>2, SMTT(30) DEF SoundInv, Sound, Routed, Hashed, Gate, Passed, Cmd, Rowed, Checked,
                    OnDisk, Whole, RetryIsAllowed
<1>5. VInv'
  BY <1>1, <1>2, SameVerifier
<1>6. FillInv'
  BY <1>1, <1>2 DEF FillInv, Filling
<1>7. PageInv'
  BY <1>1, <1>2 DEF PageInv, Rows, Checked, OnDisk, Whole, RetryIsAllowed
<1>8. QED BY <1>3, <1>4, <1>5, <1>6, <1>7 DEF IInv

LEMMA InitInv == Init => IInv
<1> SUFFICES ASSUME Init PROVE IInv
  OBVIOUS
<1>1. PICK script \in Scripts :
        /\ VerifierInit(script.tasks)
        /\ proc = [p \in Procs |->
             [cmd |-> script.cmd[p],
              at |-> IF script.cmd[p] = "none" THEN "ended" ELSE "start",
              mem |-> <<>>, hash |-> <<>>, want |-> Absent, id |-> 0, rows |-> <<>>,
              told |-> IF script.cmd[p] = "none" THEN "ok" ELSE "running"]]
        /\ stale = {} /\ suite = [i \in 1..2 |-> 0] /\ image = Min(Images)
        /\ audited = script.audited /\ frozen = script.frozen
        /\ results = script.results /\ trajectories = script.trajectories
        /\ page = Absent /\ edits = script.edits /\ crashes = script.crashes
  BY DEF Init
<1>2. VInv
  BY <1>1, VerifierInitInv
<1>3. \A p \in Procs :
        /\ proc[p].cmd = script.cmd[p] /\ proc[p].cmd \in Commands
        /\ proc[p].at = (IF proc[p].cmd = "none" THEN "ended" ELSE "start")
        /\ proc[p].told = (IF proc[p].cmd = "none" THEN "ok" ELSE "running")
        /\ proc[p].hash = <<>> /\ proc[p].id = 0
  BY <1>1, EvalAssumption
<1>4. RecordsTypeOK
  <2>1. image \in Nat
    <3>1. \E x \in Images : \A y \in Images : x =< y
      BY EvalAssumption, LeastOf
    <3>2. QED BY <1>1, <3>1, EvalAssumption DEF Min
  <2>2. /\ DOMAIN results = Attempts
        /\ results \in [DOMAIN results -> ResultRecord \union {Absent, Torn}]
        /\ trajectories \in [DOMAIN results -> TrajectoryRecord \union {Absent, Torn}]
        /\ "smoke" \in DOMAIN results /\ "none" \notin DOMAIN results
    BY <1>1, EvalAssumption
  <2>3. proc \in [Procs -> Process]
    <3>1. <<>> \in Rows
      <4>1. <<>> \in [{} -> ResultRecord]
        OBVIOUS
      <4>2. QED BY <4>1 DEF Rows
    <3>2. ASSUME NEW p \in Procs PROVE proc[p] \in Process
      <4> DEFINE cmd  == script.cmd[p]
                 at   == IF cmd = "none" THEN "ended" ELSE "start"
                 told == IF cmd = "none" THEN "ok" ELSE "running"
      <4>1. proc[p] = [cmd |-> cmd, at |-> at, mem |-> <<>>, hash |-> <<>>,
                       want |-> Absent, id |-> 0, rows |-> <<>>, told |-> told]
        BY <1>1
      <4>2. /\ cmd \in Commands /\ told \in {"running", "ok", "error", "crashed"}
            /\ at \in (UNION {Route[c] : c \in Commands}) \union {"start", "ended"}
        BY <1>3
      <4>3. <<>> \in Seq(Nat)
        OBVIOUS
      <4> HIDE DEF cmd, at, told
      <4>4. QED BY <3>1, <4>1, <4>2, <4>3 DEF Process
    <3> HIDE DEF Process
    <3>3. QED BY <1>1, <3>2
  <2>4. /\ stale \subseteq Procs /\ suite \in Suites
        /\ audited \in Nat \union {Absent, Torn}
        /\ frozen \in FreezeRecord \union {Absent, Torn}
        /\ edits \in Nat /\ crashes \in Nat
    BY <1>1, EvalAssumption DEF Suites
  <2>5. QED BY <2>1, <2>2, <2>3, <2>4 DEF RecordsTypeOK
<1>5. ASSUME NEW p \in Procs PROVE Sound(p)
  <2>1. Routed(p)
    BY <1>3 DEF Routed
  <2>2. Hashed(p)
    BY <1>3 DEF Hashed
  <2>3. Gate(p) /\ Rowed(p)
    BY <1>3 DEF Gate, Passed, Cmd, Gated, Rowed
  <2>4. QED BY <2>1, <2>2, <2>3 DEF Sound
<1>6. FillInv
  BY <1>3 DEF FillInv, Filling
<1>7. PageInv
  BY <1>1 DEF PageInv, Whole
<1>8. QED BY <1>2, <1>4, <1>5, <1>6, <1>7 DEF IInv, SoundInv

LEMMA NextInv ==
  ASSUME IInv, [Next]_evalVars
  PROVE  IInv'
<1>1. ASSUME NEW p \in Procs, Step(p) PROVE IInv'
  <2>1. CASE Begin(p)
    BY <2>1, BeginInv
  <2>2. CASE CreateImages(p) \/ FillImages(p) \/ ReadImages(p) \/ ReadFreeze(p)
    BY <2>2, CreateImagesInv, FillImagesInv, ReadImagesInv, ReadFreezeInv
  <2>3. CASE BuildFreeze(p) \/ Truncate(p) \/ WriteFreeze(p) \/ CheckFreeze(p)
    BY <2>3, BuildFreezeInv, FreezeWritesInv, CheckFreezeInv
  <2>4. CASE InspectImage(p) \/ FrozenRuntime(p) \/ VerifyTasks(p) \/ Verified(p)
    BY <2>4, InspectImageInv, FrozenRuntimeInv, VerifyTasksInv, VerifiedInv
  <2>5. CASE WriteTrajectory(p) \/ WriteResult(p)
    BY <2>5, WriteTrajectoryInv, WriteResultInv
  <2>6. CASE LoadResults(p) \/ LoadTrajectories(p) \/ WritePage(p)
    BY <2>6, LoadResultsInv, LoadTrajectoriesInv, WritePageInv
  <2>7. QED BY <1>1, <2>1, <2>2, <2>3, <2>4, <2>5, <2>6 DEF Step
<1>2. ASSUME NEW p \in Procs, Break(p) PROVE IInv'
  BY <1>2, BreakInv
<1>3. ASSUME NEW i \in 1..2, Edit(i) PROVE IInv'
  BY <1>3, EditInv
<1>4. ASSUME NEW i \in Images, Pull(i) PROVE IInv'
  <2>1. image' \in Nat /\ edits' \in Nat
    BY <1>4, EvalAssumption DEF Pull, IInv, RecordsTypeOK
  <2>2. QED BY <1>4, <2>1, PullInv DEF Pull
<1>5. CASE UNCHANGED evalVars
  <2>1. image' \in Nat /\ edits' \in Nat
    BY <1>5 DEF evalVars, IInv, RecordsTypeOK
  <2>2. QED BY <1>5, <2>1, PullInv DEF evalVars
<1>6. QED BY <1>1, <1>2, <1>3, <1>4, <1>5 DEF Next, Terminating

LEMMA Invariance == Spec => []IInv
<1>1. QED BY InitInv, NextInv, PTL DEF Spec

-----------------------------------------------------------------------------
(* What follows for the commands.                                           *)

\* A file is written by whoever has created it, and nobody creates one that is there.
LEMMA StepLasting ==
  ASSUME IInv, [Next]_evalVars
  PROVE  Lasting
<1>1. FillInv /\ RecordsTypeOK
  BY DEF IInv
<1>2. CASE UNCHANGED audited /\ UNCHANGED results /\ UNCHANGED trajectories
  BY <1>2 DEF Lasting
<1>3. ASSUME NEW p \in Procs, CreateImages(p) \/ FillImages(p) PROVE Lasting
  <2>1. UNCHANGED results /\ UNCHANGED trajectories
    BY <1>3 DEF CreateImages, FillImages, records
  <2>2. UNCHANGED audited \/ audited \in {Absent, Torn}
    BY <1>1, <1>3 DEF CreateImages, FillImages, Is, FillInv, Filling
  <2>3. QED BY <2>1, <2>2 DEF Lasting, Whole
<1>4. ASSUME NEW p \in Procs, WriteTrajectory(p) PROVE Lasting
  <2>1. UNCHANGED results /\ UNCHANGED audited
    BY <1>4 DEF WriteTrajectory
  <2>2. trajectories["smoke"] \in {Absent, Torn} \/ UNCHANGED trajectories
    BY <1>1, <1>4 DEF WriteTrajectory, WriteExclusive, Is, FillInv, Filling
  <2>3. \A a \in DOMAIN trajectories \ {"smoke"} : trajectories'[a] = trajectories[a]
    BY <1>4 DEF WriteTrajectory, WriteExclusive
  <2>4. QED BY <2>1, <2>2, <2>3 DEF Lasting, Whole
<1>5. ASSUME NEW p \in Procs, WriteResult(p) PROVE Lasting
  <2>1. UNCHANGED trajectories /\ UNCHANGED audited
    BY <1>5 DEF WriteResult
  <2>2. results["smoke"] \in {Absent, Torn} \/ UNCHANGED results
    BY <1>1, <1>5 DEF WriteResult, WriteExclusive, Is, FillInv, Filling
  <2>3. \A a \in DOMAIN results \ {"smoke"} : results'[a] = results[a]
    BY <1>5 DEF WriteResult, WriteExclusive
  <2>4. QED BY <2>1, <2>2, <2>3 DEF Lasting, Whole
<1>6. ASSUME NEW p \in Procs, Step(p) \/ Break(p) PROVE Lasting
  <2>1. CASE CreateImages(p) \/ FillImages(p) \/ WriteTrajectory(p) \/ WriteResult(p)
    BY <1>3, <1>4, <1>5, <2>1
  <2>2. CASE \/ Begin(p) \/ ReadImages(p) \/ ReadFreeze(p) \/ BuildFreeze(p) \/ CheckFreeze(p)
             \/ InspectImage(p) \/ FrozenRuntime(p) \/ VerifyTasks(p) \/ Verified(p)
             \/ LoadResults(p) \/ LoadTrajectories(p) \/ Break(p)
    <3>1. UNCHANGED files
      BY <2>2 DEF Begin, ReadImages, ReadFreeze, BuildFreeze, CheckFreeze, InspectImage,
                  FrozenRuntime, VerifyTasks, Verified, LoadResults, LoadTrajectories, Break
    <3>2. QED BY <1>2, <3>1 DEF files, records
  <2>3. CASE Truncate(p) \/ WriteFreeze(p) \/ WritePage(p)
    BY <1>2, <2>3 DEF Truncate, WriteFreeze, WritePage, records
  <2>4. QED BY <1>6, <2>1, <2>2, <2>3 DEF Step
<1>7. CASE (\E i \in 1..2 : Edit(i)) \/ (\E i \in Images : Pull(i)) \/ UNCHANGED evalVars
  <2>1. UNCHANGED files
    BY <1>7 DEF Edit, Pull, evalVars
  <2>2. QED BY <1>2, <2>1 DEF files, records
<1>8. QED BY <1>6, <1>7 DEF Next, Terminating

\* Whatever a retry goes back to is an allowed step further back: the good attempts are a
\* set that holds the parent and is closed under parents.
LEMMA ReportOf == IInv => ReportIsSound
<1> SUFFICES ASSUME IInv, Whole(page), NEW a \in DOMAIN page
    PROVE  /\ results[a] = page[a] /\ Whole(trajectories[a])
           /\ \A b \in Ancestors(page, a) :
                /\ b \in DOMAIN page /\ page[b].run = page[a].run
                /\ page[b].attempt < page[a].attempt /\ page[b].status \in Retryable
  BY DEF ReportIsSound
<1>1. page \in Rows /\ Checked(page) /\ "none" \notin DOMAIN results
  BY DEF IInv, PageInv, RecordsTypeOK
<1>2. /\ results[a] = page[a] /\ Whole(trajectories[a])
      /\ DOMAIN page \subseteq DOMAIN results
      /\ \A b \in DOMAIN page : RetryIsAllowed(page, b)
  BY <1>1 DEF Checked, OnDisk
<1>3. \A b \in DOMAIN page : page[b].attempt \in Nat
  <2>1. PICK S \in SUBSET DOMAIN results : page \in [S -> ResultRecord]
    BY <1>1 DEF Rows
  <2>2. \A b \in DOMAIN page : page[b] \in ResultRecord
    BY <2>1
  <2>3. QED BY <2>2 DEF ResultRecord
<1> DEFINE Named == {page[b].parent : b \in DOMAIN page} \union {"none"}
           Good  == {b \in DOMAIN page : /\ page[b].run = page[a].run
                                         /\ page[b].attempt < page[a].attempt
                                         /\ page[b].status \in Retryable}
           S     == (Good \intersect Named) \union {"none"}
<1>4. page[a].parent \in S
  <2>1. page[a].parent \in Named
    OBVIOUS
  <2>2. page[a].parent # "none" => page[a].parent \in Good
    BY <1>2 DEF RetryIsAllowed
  <2>3. QED BY <2>1, <2>2
<1>5. ASSUME NEW b \in S \intersect DOMAIN page PROVE page[b].parent \in S
  <2>1. b \in Good
    BY <1>1, <1>2
  <2>2. page[b].parent \in Named
    OBVIOUS
  <2>3. page[b].parent # "none" => page[b].parent \in Good
    <3> SUFFICES ASSUME page[b].parent # "none" PROVE page[b].parent \in Good
      OBVIOUS
    <3> DEFINE c == page[b].parent
    <3>1. /\ c \in DOMAIN page /\ page[c].run = page[b].run
          /\ page[c].attempt < page[b].attempt /\ page[c].status \in Retryable
      BY <1>2 DEF RetryIsAllowed
    <3>2. page[c].attempt < page[a].attempt
      BY <1>3, <2>1, <3>1
    <3>3. QED BY <2>1, <3>1, <3>2
  <2>4. QED BY <2>2, <2>3
<1>6. ASSUME NEW b \in Ancestors(page, a) PROVE b \in Good
  <2>1. S \in SUBSET Named
    OBVIOUS
  <2>2. b \in S /\ b # "none"
    <3> HIDE DEF S
    <3>1. QED BY <1>4, <1>5, <1>6, <2>1 DEF Ancestors
  <2>3. QED BY <2>2
<1>7. QED BY <1>2, <1>6

\* A case is scored 1 only if the candidate passed its stages, and 0 only if it failed
\* one or its client or container was lost unasked: no deadline, cancellation, aborted
\* stage or setup failure is a point or a zero (verifyCase, runOwnedContainer).
THEOREM ScoresEarned == Spec => []ScoreIsEarned
<1>1. IInv => ScoreIsEarned
  BY DEF IInv, VInv
<1>2. QED BY <1>1, Invariance, PTL

\* Whatever goes wrong, two tasks at most use the runtime, and when verify has returned
\* nothing is left in it but what a cleanup that failed left.
THEOREM CleanRuntime == Spec => []RuntimeIsClean
<1>1. IInv => RuntimeIsClean
  BY RuntimeOf DEF IInv
<1>2. QED BY <1>1, Invariance, PTL

\* No command passes the gate on half a record, or with a suite that is not the record's.
THEOREM FrozenGate == Spec => []FrozenOrRefused
<1>1. IInv => FrozenOrRefused
  BY DEF IInv, SoundInv, Sound, Gate, FrozenOrRefused
<1>2. QED BY <1>1, Invariance, PTL

\* A report shows what is on the disk, and retries that were allowed all the way back.
THEOREM SoundReport == Spec => []ReportIsSound
<1>1. QED BY ReportOf, Invariance, PTL

\* No two commands, in whatever order and however they end, overwrite a whole record.
THEOREM WholeLast == Spec => WholeRecordsLast
<1>1. IInv /\ [Next]_evalVars =>
        [/\ \A a \in DOMAIN results : Whole(results[a]) => results'[a] = results[a]
         /\ \A a \in DOMAIN trajectories :
              Whole(trajectories[a]) => trajectories'[a] = trajectories[a]
         /\ Whole(audited) => audited' = audited]_evalVars
  BY StepLasting DEF Lasting
<1>2. QED BY <1>1, Invariance, PTL DEF Spec, WholeRecordsLast
=============================================================================
