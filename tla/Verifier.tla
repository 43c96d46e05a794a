------------------------------ MODULE Verifier ------------------------------
(***************************************************************************)
(* The private verifier of the Nimbus suite (eval/internal/nimbus:         *)
(* verifier.go): one goroutine per task behind a semaphore of two; per     *)
(* patch case three containers, one after the other, and a volume between  *)
(* the last two; a runtime client that races the stage's deadline; and the *)
(* cleanup of whatever may exist by then.                                  *)
(*                                                                         *)
(* The container runtime is external: it creates a container at any time   *)
(* while the client that asked for it lives.  BOUND: at most MaxFaults     *)
(* failures that are not the candidate's (a command of the runtime, a file *)
(* of the host, a client that cannot be started, dies by itself or         *)
(* outlives its kill, a container the runtime loses).                      *)
(***************************************************************************)
EXTENDS Integers, Sequences, FiniteSets

CONSTANTS
  Tasks,       \* the tasks a suite may hold, in order
  Expect,      \* per task, what each of its patch cases should do: PatchCase.ExpectPass
  MaxFaults

ASSUME VerifierAssumption ==
  /\ Tasks \subseteq Nat /\ IsFiniteSet(Tasks)
  /\ Expect \in [Tasks -> Seq(BOOLEAN)] /\ \A t \in Tasks : Expect[t] # <<>>
  /\ MaxFaults \in Nat

VARIABLES
  goroutine,   \* what the goroutine of each task is doing
  exists,      \* the containers and volumes the runtime holds
  failedTo,    \* those a failed cleanup, or a client that never died, may leave
  truth,       \* what the candidate of each task's current case really did: "good",
               \* "bad", or "lost" when the runtime broke off before it could tell
  scores,      \* taskResults: the completed cases, and what was true of each
  canceled,    \* verifyCtx
  verdict,     \* what Verify has returned
  faults       \* how many failures have happened

verifierVars ==
  <<goroutine, exists, failedTo, truth, scores, canceled, verdict, faults>>

Slots  == 2
Stages == {"check", "build", "run"}
Following == [check |-> "build", build |-> "run", run |-> "check"]

\* Containers and volumes carry a nonce: no two cases share one.
Mine(t, r) == <<t, goroutine[t].case, r>>
AllMine(t) == {Mine(t, r) : r \in Stages \union {"volume"}}
Current(t) == Mine(t, goroutine[t].stage)

\* A suite may hold some of the tasks only.
VerifierInit(held) ==
  /\ goroutine = [t \in Tasks |->
       [at |-> IF t \in held THEN "queued" ELSE "ended", case |-> 1, stage |-> "check",
        client |-> "none", err |-> "none"]]
  /\ exists = {} /\ failedTo = {}
  /\ truth = [t \in Tasks |-> "unknown"] /\ scores = [t \in Tasks |-> <<>>]
  /\ canceled = FALSE /\ verdict = "idle" /\ faults = 0

\* Something of the host or the runtime fails.
Fault == faults < MaxFaults /\ faults' = faults + 1

At(t, at)   == goroutine[t].at = at
Goes(t, at) == goroutine' = [goroutine EXCEPT ![t].at = at]

Stuck(t) == goroutine[t].client = "stuck"

\* The case is over with an error: a verificationFailure is the candidate's
\* ("failure"), everything else is the evaluator's ("fault").
Fails(t, err) ==
  goroutine' = [goroutine EXCEPT ![t].at = "cleanup", ![t].err = err,
                                 ![t].stage  = IF Stuck(t) THEN @ ELSE "check",
                                 ![t].client = IF Stuck(t) THEN @ ELSE "none"]

\* The task is over.
Ends(t, err) ==
  /\ goroutine' = [goroutine EXCEPT ![t].at = "ended", ![t].err = err]
  /\ canceled' = (canceled \/ err # "none")

\* The tasks that hold a place of the semaphore.
Holding == {t \in Tasks : goroutine[t].at \notin {"queued", "ended"}}

Acquire(t) ==
  /\ verdict = "running" /\ At(t, "queued")
  /\ Cardinality(Holding) < Slots
  /\ Goes(t, "prepare")
  /\ UNCHANGED <<exists, failedTo, truth, scores, canceled, verdict, faults>>

(* verifyTask and verifyCase up to the first container.  Workspace, hidden *)
(* cases and adapter come first: nothing exists yet in the runtime, and    *)
(* the deferred cleanup is not registered.                                 *)

\* Mutant of Prepare: the cleanup is deferred after the volume is created.
PrepareFirst(t) ==
  /\ At(t, "prepare")
  /\ \/ /\ exists' = exists \union {Mine(t, "volume")} /\ Goes(t, "start")
        /\ UNCHANGED <<truth, canceled, faults>>
     \/ /\ Fault /\ Ends(t, "fault") /\ UNCHANGED truth
        /\ \E V \in SUBSET {Mine(t, "volume")} : exists' = exists \union V
  /\ UNCHANGED <<failedTo, scores, verdict>>

\* Then ensureContainerAbsent, three times, and createOwnedVolume, which may have
\* created the volume when it fails.
Prepare(t) ==
  /\ At(t, "prepare")
  /\ \/ /\ exists' = exists \union {Mine(t, "volume")} /\ Goes(t, "start")
        /\ UNCHANGED <<truth, faults>>
     \/ \* the candidate uses a reserved path
        /\ Fails(t, "failure") /\ truth' = [truth EXCEPT ![t] = "bad"]
        /\ UNCHANGED <<exists, faults>>
     \/ /\ Fault /\ Fails(t, "fault") /\ UNCHANGED truth
        /\ \E V \in SUBSET {Mine(t, "volume")} : exists' = exists \union V
  /\ UNCHANGED <<failedTo, scores, canceled, verdict>>

(* The stages.  check and run go through runOwnedContainer, whose client   *)
(* knows no context; build through runDetachedBuild, whose client does.    *)

Build(t) == goroutine[t].stage = "build"

\* A client that does not start is the evaluator's failure for check and run.
\* runDetachedBuild hands boundedRun's error on as it is, unless its context is done,
\* and verifyCase makes a verificationFailure of it.
Start(t) ==
  /\ At(t, "start")
  /\ \/ /\ ~(canceled /\ Build(t)) /\ UNCHANGED <<truth, faults>>
        /\ goroutine' = [goroutine EXCEPT ![t].at = "client", ![t].client = "alive"]
     \/ canceled /\ Build(t) /\ Fails(t, "fault") /\ UNCHANGED <<truth, faults>>
     \/ Fault /\ ~Build(t) /\ Fails(t, "fault") /\ UNCHANGED truth
     \/ /\ Fault /\ Build(t) /\ ~canceled /\ Fails(t, "failure")
        /\ truth' = [truth EXCEPT ![t] = "lost"]
  /\ UNCHANGED <<exists, failedTo, scores, canceled, verdict>>

\* The runtime creates the container that a living client has asked for.
Create(t) ==
  /\ goroutine[t].client # "none" /\ Current(t) \notin exists
  /\ exists' = exists \union {Current(t)}
  /\ UNCHANGED <<goroutine, failedTo, truth, scores, canceled, verdict, faults>>

\* The case goes on, or it is over: with the last stage, or with an error.
Passes(t) ==
  goroutine' = [goroutine EXCEPT
                  ![t].client = "none",
                  ![t].at     = IF goroutine[t].stage = "run" THEN "cleanup" ELSE "start",
                  ![t].stage  = Following[@]]

\* runOwnedContainer, the client's end first: its container exists and has ended.
\* Ownership and cleanup must both succeed before the exit code counts; "bad" after
\* the last stage is also a wrong or a missing response (verifyResponses).
ContainerEnds(t) ==
  /\ At(t, "client") /\ ~Build(t) /\ Current(t) \in exists
  /\ \/ /\ exists' = exists \ {Current(t)} /\ UNCHANGED faults
        /\ \/ Passes(t) /\ truth' = [truth EXCEPT ![t] =
                                       IF goroutine[t].stage = "run" THEN "good" ELSE @]
           \/ Fails(t, "failure") /\ truth' = [truth EXCEPT ![t] = "bad"]
     \/ /\ Fault /\ Fails(t, "fault")
        /\ \E C \in SUBSET {Current(t)} : exists' = exists \ C
        /\ truth' \in {truth, [truth EXCEPT ![t] = "bad"]}
  /\ UNCHANGED <<failedTo, scores, canceled, verdict>>

\* Exit codes 125 to 127 (containerSetupFailure), with a container or without.
SetupFails(t) ==
  /\ At(t, "client")
  /\ Fails(t, "fault")
  /\ exists' = IF Build(t) THEN exists ELSE exists \ {Current(t)}
  /\ UNCHANGED <<failedTo, truth, scores, canceled, verdict, faults>>

\* The deadline, the cancellation or too much output, at any time, also when the
\* client has just ended.
Abort(t) ==
  /\ At(t, "client") /\ ~Build(t)
  /\ Goes(t, "abort")
  /\ UNCHANGED <<exists, failedTo, truth, scores, canceled, verdict, faults>>

\* The first cleanup runs beside the end of the client and may come too early, or
\* fail.
Sweep(t) ==
  /\ At(t, "abort")
  /\ \/ exists' = exists \ {Current(t)} /\ UNCHANGED faults
     \/ Fault /\ UNCHANGED exists
  /\ Goes(t, "swept")
  /\ UNCHANGED <<failedTo, truth, scores, canceled, verdict>>

\* Killed, the client ends; or does not within processWaitDelay and a second.
Kill(t) ==
  /\ goroutine[t].at \in {"abort", "swept"} /\ goroutine[t].client = "alive"
  /\ \/ /\ goroutine' = [goroutine EXCEPT ![t].client = "none"]
        /\ UNCHANGED <<failedTo, faults>>
     \/ /\ Fault /\ goroutine' = [goroutine EXCEPT ![t].client = "stuck"]
        /\ failedTo' = failedTo \union {Current(t)}
  /\ UNCHANGED <<exists, truth, scores, canceled, verdict>>

\* Mutant of Abandon: a stage that was aborted counts as the candidate's failure.
AbandonAsFailure(t) ==
  /\ At(t, "swept") /\ goroutine[t].client # "alive"
  /\ \/ exists' = exists \ {Current(t)} /\ UNCHANGED faults
     \/ Fault /\ UNCHANGED exists
  /\ Fails(t, "failure")
  /\ UNCHANGED <<failedTo, truth, scores, canceled, verdict>>

\* Mutant of Abandon: the client is asked for over and over, without an end.
AbandonWhenDead(t) ==
  /\ At(t, "swept") /\ goroutine[t].client # "alive"
  /\ exists' = exists \ {Current(t)}
  /\ IF Stuck(t) THEN UNCHANGED goroutine ELSE Fails(t, "fault")
  /\ UNCHANGED <<failedTo, truth, scores, canceled, verdict, faults>>

\* The second cleanup, "to close the create/remove race".
Abandon(t) ==
  /\ At(t, "swept") /\ goroutine[t].client # "alive"
  /\ \/ exists' = exists \ {Current(t)} /\ UNCHANGED faults
     \/ Fault /\ UNCHANGED exists
  /\ Fails(t, "fault")
  /\ UNCHANGED <<failedTo, truth, scores, canceled, verdict>>

\* The client or the container is gone by itself and its context is not done: killed
\* by a signal, output left open, an exit code of its own.  In check and run this
\* counts once ownership and cleanup have succeeded, in the build also for too much
\* output and in the readiness loop; it is a verificationFailure each time.
RuntimeLoses(t) ==
  /\ At(t, "client") \/ At(t, "building")
  /\ IF Build(t) THEN ~canceled ELSE Current(t) \in exists
  /\ Fault /\ Fails(t, "failure")
  /\ truth' = [truth EXCEPT ![t] = "lost"]
  /\ exists' = IF Build(t) THEN exists ELSE exists \ {Current(t)}
  /\ UNCHANGED <<failedTo, scores, canceled, verdict>>

\* runDetachedBuild: the deadline or the cancellation kills the client, which is
\* waited for.
BuildKilled(t) ==
  /\ At(t, "client") /\ Build(t)
  /\ Fails(t, "fault")
  /\ UNCHANGED <<exists, failedTo, truth, scores, canceled, verdict, faults>>

\* The client has started the container, and it is ours.
BuildStarted(t) ==
  /\ At(t, "client") /\ Build(t) /\ Current(t) \in exists
  /\ \/ goroutine' = [goroutine EXCEPT ![t].at = "building", ![t].client = "none"] /\ UNCHANGED faults
     \/ Fault /\ Fails(t, "fault")
  /\ UNCHANGED <<exists, failedTo, truth, scores, canceled, verdict>>

\* The readiness loop: ready, stopped, out of time, or the runtime fails.  With
\* a context that is done no command succeeds.
Building(t) ==
  /\ At(t, "building")
  /\ \/ ~canceled /\ Passes(t) /\ UNCHANGED truth
     \/ ~canceled /\ Fails(t, "failure") /\ truth' = [truth EXCEPT ![t] = "bad"]
     \/ Fails(t, "fault") /\ UNCHANGED truth
  /\ UNCHANGED <<exists, failedTo, scores, canceled, verdict, faults>>

(* The end of a case: the deferred cleanupVerifierResources, and verifyTask *)
(* with what it is told.  The errors of the case and of its cleanup are    *)
(* joined, and errors.As finds a verificationFailure in what comes out.    *)

Joined(err, left) == IF err = "none" /\ left THEN "fault" ELSE err

\* An evaluator failure and a score that is not the expected one end the task with
\* an error, which cancels the other tasks.
Judge(t, err) ==
  LET c     == goroutine[t].case
      score == IF err = "none" THEN 1 ELSE 0
  IN
  IF err = "fault" THEN Ends(t, "fault") /\ UNCHANGED <<truth, scores>>
  ELSE /\ scores' = [scores EXCEPT ![t] = Append(@, [score |-> score, truth |-> truth[t]])]
       /\ truth' = [truth EXCEPT ![t] = "unknown"]
       /\ IF (score = 1) # Expect[t][c] THEN Ends(t, "mismatch")
          ELSE IF c = Len(Expect[t]) THEN Ends(t, "none")
          ELSE /\ goroutine' = [goroutine EXCEPT
                                  ![t].at = "prepare", ![t].case = c + 1, ![t].err = "none"]
               /\ UNCHANGED canceled

Cleanup(t) ==
  /\ At(t, "cleanup")
  /\ exists' = exists \ AllMine(t)
  /\ Judge(t, goroutine[t].err)
  /\ UNCHANGED <<failedTo, verdict, faults>>

\* Some of it fails; or the host's directory of the case cannot be removed.
CleanupFails(t) ==
  /\ At(t, "cleanup") /\ Fault
  /\ \/ /\ failedTo' = failedTo \union AllMine(t)
        /\ \E L \in SUBSET AllMine(t) : exists' = exists \ L
        /\ Judge(t, Joined(goroutine[t].err, TRUE))
     \/ exists' = exists \ AllMine(t) /\ Judge(t, "fault") /\ UNCHANGED failedTo
  /\ UNCHANGED verdict

\* wg.Wait, and the first error in the order of the tasks.
VerifyReturns ==
  /\ verdict = "running" /\ \A t \in Tasks : At(t, "ended")
  /\ verdict' = IF \A t \in Tasks : goroutine[t].err = "none" THEN "ok" ELSE "error"
  /\ UNCHANGED <<goroutine, exists, failedTo, truth, scores, canceled, faults>>

TaskStep(t) ==
  \/ Acquire(t) \/ Prepare(t) \/ Start(t) \/ ContainerEnds(t) \/ SetupFails(t)
  \/ Abort(t) \/ Sweep(t) \/ Kill(t) \/ Abandon(t)
  \/ RuntimeLoses(t) \/ BuildKilled(t) \/ BuildStarted(t) \/ Building(t) \/ Cleanup(t) \/ CleanupFails(t)

VerifierStep ==
  \/ VerifyReturns
  \/ verdict = "running" /\ \E t \in Tasks : TaskStep(t) \/ Create(t)

-----------------------------------------------------------------------------
Returned == verdict \in {"ok", "error"}

\* containerSetupFailure, evaluatorFailure and verificationFailure tell whose
\* fault an error is: a case is scored 1 only if the candidate passed all three
\* stages, and 0 only if it failed one or the runtime lost its client or container
\* unasked; never for a deadline, a cancellation from another task, too much output
\* of a stage that was aborted, or a setup failure.
ScoreIsEarned ==
  \A t \in Tasks : \A i \in 1..Len(scores[t]) :
    IF scores[t][i].score = 1 THEN scores[t][i].truth = "good"
                              ELSE scores[t][i].truth \in {"bad", "lost"}

\* Whatever stage, race or error ended a case, nothing of it is left in the
\* runtime except what a cleanup that failed left, or a client that would not die.
LeftoversAreExplained == Returned => exists \subseteq failedTo

\* "concurrency := make(chan struct{}, 2)": at any time the containers and volumes
\* in use, those of abandoned cleanups apart, belong to two tasks.
TwoAtATime == Cardinality({e[1] : e \in exists \ failedTo}) <= Slots

\* The runtime is clean: nothing more than two tasks need while the verifier runs,
\* nothing unexplained when it has returned.
RuntimeIsClean == TwoAtATime /\ LeftoversAreExplained

\* eval/README.md: "absence is checked after success, error, timeout, or
\* cancellation", and verifierRecipe "verified cleanup": a verification that
\* reports success leaves nothing behind.
LeftoversAreReported == verdict = "ok" => exists = {}
=============================================================================
