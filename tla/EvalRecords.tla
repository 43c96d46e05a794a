---------------------------- MODULE EvalRecords ----------------------------
(***************************************************************************)
(* The commands of the offline evaluation (eval/cmd/eval/main.go) and what *)
(* they leave on the disk: the freeze record of the Nimbus suite           *)
(* (internal/nimbus: model.go, freeze.go), the file of audited images, and *)
(* the records of attempts with the report on them (internal: evalfs,      *)
(* harness, manifest, report).                                             *)
(*                                                                         *)
(* Commands run beside each other, the suite is edited under them, and a   *)
(* command may be killed between any two of its calls: main installs no    *)
(* signal handler.  A write is two steps, since no command but replaceOne  *)
(* writes to a temporary file first: the file is created or truncated,     *)
(* then it is whole.  `nimbus verify` runs the tasks of Verifier.          *)
(*                                                                         *)
(* BOUND: each script bounds the edits of suite and image, and the crashes. *)
(* The suite has two parts, read one after the other; docker and podman    *)
(* are one runtime, with one image.                                        *)
(***************************************************************************)
EXTENDS Verifier, FiniteSetsExt

CONSTANTS
  Procs,        \* processes
  Scripts,      \* what may run on what: a command per process, and the disk at first
  Images,       \* the identities an image of the runtime may have
  Attempts,     \* the names of the attempts of a result root
  Schedules,    \* what an attempt is an attempt of
  Absent,       \* no file
  Torn          \* a file created or truncated, and not written to the end

Commands == {"inspect-images", "freeze --write", "freeze", "verify", "probe",
             "smoke", "report", "validate", "none"}

\* Retryable, completed, and the rest of allStatuses.
Retryable == {"environment-failure", "mcp-failure", "provider-failure", "evaluator-failure"}
Statuses  == Retryable \union
  {"completed", "agent-timeout", "budget-exhausted", "agent-protocol-failure",
   "invalid-task", "infra-exhausted"}

FreezeRecord     == [suite : [1..2 -> Nat], image : Nat]
ResultRecord     == [run : Schedules, attempt : Nat, status : Statuses,
                     parent : Attempts \union {"none"}]
TrajectoryRecord == [run : Schedules]

\* No attempt has an empty name, which "none" stands for.
ASSUME EvalAssumption ==
  /\ \A s \in Scripts :
       /\ s.cmd \in [Procs -> Commands] /\ s.tasks \subseteq Tasks
       /\ s.edits \in Nat /\ s.crashes \in Nat
       /\ Cardinality({p \in Procs : s.cmd[p] = "verify"}) <= 1
       /\ s.audited \in Nat \union {Absent, Torn}
       /\ s.frozen \in FreezeRecord \union {Absent, Torn}
       /\ s.results \in [Attempts -> ResultRecord \union {Absent, Torn}]
       /\ s.trajectories \in [Attempts -> TrajectoryRecord \union {Absent, Torn}]
  /\ "smoke" \in Attempts \intersect Schedules /\ "none" \notin Attempts
  /\ Images \subseteq Nat /\ Images # {}
  /\ Absent # Torn

VARIABLES
  proc,      \* what each process is doing
  stale,     \* processes under which the suite was edited
  suite,     \* the versions of the suite's parts
  image,     \* the image the runtime has
  audited,   \* the file of audited images
  frozen,    \* freeze.json
  results, trajectories,   \* the files of a result root: attempt -> content
  page,      \* report.md
  edits, crashes   \* how many are still to come

records  == <<results, trajectories>>
files    == <<audited, frozen, records, page>>
evalVars == <<proc, stale, suite, image, files, edits, crashes, verifierVars>>

Parts  == <<"public", "private">>
Whole(content) == content \notin {Absent, Torn}

-----------------------------------------------------------------------------
(* Records (manifest.go).  The field run stands for run, task and arm; the *)
(* hash of a record is right exactly if its file is whole.                 *)

Files(dir) == {a \in DOMAIN dir : dir[a] # Absent}

\* DecodeResult and DecodeTrajectory are strict: one value, nothing after it.
Decodes(dir) == \A a \in Files(dir) : Whole(dir[a])
Loaded(dir)  == [a \in Files(dir) |-> dir[a]]

\* Mutant of RetryIsAllowed: whatever failed or not, it may be retried.
RetryOfAnything(rs, a) ==
  rs[a].parent # "none" =>
    /\ rs[a].parent \in DOMAIN rs
    /\ LET parent == rs[rs[a].parent]
       IN  parent.run = rs[a].run /\ parent.attempt < rs[a].attempt

\* The parent is a result of the same schedule, of an earlier attempt, with a
\* status that may be retried.  (Cycles and self-parents, for which the code has
\* errors of their own, are never of an earlier attempt.)
RetryIsAllowed(rs, a) ==
  rs[a].parent # "none" =>
    /\ rs[a].parent \in DOMAIN rs
    /\ LET parent == rs[rs[a].parent]
       IN  /\ parent.run = rs[a].run /\ parent.attempt < rs[a].attempt
           /\ parent.status \in Retryable

ValidateRecords(rs, ts) ==
  /\ DOMAIN rs = DOMAIN ts
  /\ \A a \in DOMAIN rs : ts[a].run = rs[a].run /\ RetryIsAllowed(rs, a)

\* harness.Run and the mock agent: one fixed attempt.
SmokeResult     == [run |-> "smoke", attempt |-> 1, status |-> "completed", parent |-> "none"]
SmokeTrajectory == [run |-> "smoke"]

-----------------------------------------------------------------------------
Init ==
  \E script \in Scripts :
    /\ VerifierInit(script.tasks)
    /\ proc = [p \in Procs |->
         [cmd |-> script.cmd[p], at |-> IF script.cmd[p] = "none" THEN "ended" ELSE "start",
          mem |-> <<>>, hash |-> <<>>, want |-> Absent, id |-> 0, rows |-> <<>>,
          told |-> IF script.cmd[p] = "none" THEN "ok" ELSE "running"]]
    /\ stale = {} /\ suite = [i \in 1..2 |-> 0] /\ image = Min(Images)
    /\ audited = script.audited /\ frozen = script.frozen
    /\ results = script.results /\ trajectories = script.trajectories
    /\ page = Absent /\ edits = script.edits /\ crashes = script.crashes

Is(p, at) == proc[p].at = at
Cmd(p)     == proc[p].cmd
To(p, at)  == proc' = [proc EXCEPT ![p].at = at]
Tells(p, answer) == proc' = [proc EXCEPT ![p].at = "ended", ![p].told = answer]

Running == {p \in Procs : proc[p].told = "running"}

\* nimbus.Load reads the suite into memory; the other commands read their tasks.
Begin(p) ==
  /\ Is(p, "start")
  /\ proc' = [proc EXCEPT
       ![p].mem = suite,
       ![p].at = CASE Cmd(p) = "inspect-images" -> "create"
                   [] Cmd(p) = "freeze --write" -> "images"
                   [] Cmd(p) \in {"freeze", "verify", "probe"} -> "gate"
                   [] Cmd(p) = "smoke" -> "trajectory"
                   [] Cmd(p) \in {"report", "validate"} -> "results"]
  /\ stale' = stale \ {p}
  /\ UNCHANGED <<suite, image, files, edits, crashes, verifierVars>>

(* inspect-images: openExclusive, then the content.                        *)

CreateImages(p) ==
  /\ Is(p, "create")
  /\ IF audited = Absent
     THEN audited' = Torn /\ proc' = [proc EXCEPT ![p].at = "fill", ![p].id = image]
     ELSE Tells(p, "error") /\ UNCHANGED audited
  /\ UNCHANGED <<stale, suite, image, frozen, records, page, edits, crashes, verifierVars>>

FillImages(p) ==
  /\ Is(p, "fill")
  /\ audited' = proc[p].id /\ Tells(p, "ok")
  /\ UNCHANGED <<stale, suite, image, frozen, records, page, edits, crashes, verifierVars>>

(* freeze: BuildFreeze reads the parts of the suite in order, for --write  *)
(* and for the gate alike.                                                 *)

ReadImages(p) ==
  /\ Is(p, "images")
  /\ IF Whole(audited)
     THEN proc' = [proc EXCEPT ![p].at = "build", ![p].id = audited]
     ELSE Tells(p, "error")
  /\ UNCHANGED <<stale, suite, image, files, edits, crashes, verifierVars>>

\* CheckFreeze reads the record first; decodeStrict refuses a torn one.
ReadFreeze(p) ==
  /\ Is(p, "gate")
  /\ IF Whole(frozen)
     THEN proc' = [proc EXCEPT ![p].at = "build", ![p].want = frozen]
     ELSE Tells(p, "error")
  /\ UNCHANGED <<stale, suite, image, files, edits, crashes, verifierVars>>

\* Mutant of BuildFreeze: the private part is left out.
BuildPublic(p) ==
  /\ Is(p, "build")
  /\ proc' = [proc EXCEPT
       ![p].hash = <<suite[1], 0>>,
       ![p].at = IF Cmd(p) = "freeze --write" THEN "truncate" ELSE "compare"]
  /\ UNCHANGED <<stale, suite, image, files, edits, crashes, verifierVars>>

BuildFreeze(p) ==
  /\ Is(p, "build")
  /\ LET n == Len(proc[p].hash) + 1 IN
     proc' = [proc EXCEPT
       ![p].hash = Append(@, suite[n]),
       ![p].at = IF n < Len(Parts) THEN "build"
                 ELSE IF Cmd(p) = "freeze --write" THEN "truncate" ELSE "compare"]
  /\ UNCHANGED <<stale, suite, image, files, edits, crashes, verifierVars>>

Truncate(p) ==
  /\ Is(p, "truncate")
  /\ frozen' = Torn /\ To(p, "rewrite")
  /\ UNCHANGED <<stale, suite, image, audited, records, page, edits, crashes, verifierVars>>

\* os.WriteFile in place.  Over another record written meanwhile, a shorter one
\* keeps the other's tail.
WriteFreeze(p) ==
  /\ Is(p, "rewrite")
  /\ LET record == [suite |-> proc[p].hash, image |-> proc[p].id] IN
     frozen' \in IF frozen \in {Torn, record} THEN {record} ELSE {record, Torn}
  /\ Tells(p, "ok")
  /\ UNCHANGED <<stale, suite, image, audited, records, page, edits, crashes, verifierVars>>

\* The gate.  After it probe only computes, and freeze is done.
CheckFreeze(p) ==
  /\ Is(p, "compare")
  /\ IF proc[p].hash # proc[p].want.suite THEN Tells(p, "error")
     ELSE IF Cmd(p) = "verify" THEN To(p, "inspect") ELSE Tells(p, "ok")
  /\ UNCHANGED <<stale, suite, image, files, edits, crashes, verifierVars>>

InspectImage(p) ==
  /\ Is(p, "inspect")
  /\ proc' = [proc EXCEPT ![p].at = "again", ![p].id = image]
  /\ UNCHANGED <<stale, suite, image, files, edits, crashes, verifierVars>>

\* frozenRuntime reads the record a second time; then the tasks start.
FrozenRuntime(p) ==
  /\ Is(p, "again")
  /\ IF ~Whole(frozen) \/ (Whole(frozen) /\ frozen.image # proc[p].id)
     THEN Tells(p, "error") /\ UNCHANGED verifierVars
     ELSE /\ To(p, "verifying") /\ verdict' = "running"
          /\ UNCHANGED <<goroutine, exists, failedTo, truth, scores, canceled, faults>>
  /\ UNCHANGED <<stale, suite, image, files, edits, crashes>>

VerifyTasks(p) ==
  /\ Is(p, "verifying") /\ VerifierStep
  /\ UNCHANGED <<proc, stale, suite, image, files, edits, crashes>>

Verified(p) ==
  /\ Is(p, "verifying") /\ Returned
  /\ Tells(p, verdict)
  /\ UNCHANGED <<stale, suite, image, files, edits, crashes, verifierVars>>

(* smoke: two exclusive writes, then a look at all that is there.          *)

\* Mutant of WriteExclusive: an existing file is overwritten.
WriteOver(p, dir, record, next) ==
  IF dir["smoke"] = Torn /\ proc[p].id = 1
  THEN /\ dir' = [dir EXCEPT !["smoke"] = record]
       /\ proc' = [proc EXCEPT ![p].at = next, ![p].id = 0]
  ELSE dir' = [dir EXCEPT !["smoke"] = Torn] /\ proc' = [proc EXCEPT ![p].id = 1]

\* The file is created if it is not there, and then written by its creator.
WriteExclusive(p, dir, record, next) ==
  IF proc[p].id = 1
  THEN /\ dir' = [dir EXCEPT !["smoke"] = record]
       /\ proc' = [proc EXCEPT ![p].at = next, ![p].id = 0]
  ELSE IF dir["smoke"] = Absent
  THEN dir' = [dir EXCEPT !["smoke"] = Torn] /\ proc' = [proc EXCEPT ![p].id = 1]
  ELSE Tells(p, "error") /\ UNCHANGED dir

WriteTrajectory(p) ==
  /\ Is(p, "trajectory")
  /\ WriteExclusive(p, trajectories, SmokeTrajectory, "result")
  /\ UNCHANGED <<stale, suite, image, audited, frozen, results, page, edits, crashes,
                 verifierVars>>

WriteResult(p) ==
  /\ Is(p, "result")
  /\ WriteExclusive(p, results, SmokeResult, "results")
  /\ UNCHANGED <<stale, suite, image, audited, frozen, trajectories, page, edits, crashes,
                 verifierVars>>

(* loadRecords and ValidateRecords: smoke, report and validate alike.      *)

LoadResults(p) ==
  /\ Is(p, "results")
  /\ IF Decodes(results)
     THEN proc' = [proc EXCEPT ![p].at = "trajectories", ![p].rows = Loaded(results)]
     ELSE Tells(p, "error")
  /\ UNCHANGED <<stale, suite, image, files, edits, crashes, verifierVars>>

LoadTrajectories(p) ==
  /\ Is(p, "trajectories")
  /\ IF Decodes(trajectories) /\ ValidateRecords(proc[p].rows, Loaded(trajectories))
     THEN IF Cmd(p) = "report" THEN To(p, "page") ELSE Tells(p, "ok")
     ELSE Tells(p, "error")
  /\ UNCHANGED <<stale, suite, image, files, edits, crashes, verifierVars>>

\* report.md is truncated and written in place.
WritePage(p) ==
  /\ \/ Is(p, "page") /\ page' = Torn /\ To(p, "print")
     \/ Is(p, "print") /\ page' = proc[p].rows /\ Tells(p, "ok")
  /\ UNCHANGED <<stale, suite, image, audited, frozen, records, edits, crashes, verifierVars>>

Step(p) ==
  \/ Begin(p) \/ CreateImages(p) \/ FillImages(p) \/ ReadImages(p) \/ ReadFreeze(p)
  \/ BuildFreeze(p) \/ Truncate(p) \/ WriteFreeze(p) \/ CheckFreeze(p)
  \/ InspectImage(p) \/ FrozenRuntime(p) \/ VerifyTasks(p) \/ Verified(p)
  \/ WriteTrajectory(p) \/ WriteResult(p) \/ LoadResults(p) \/ LoadTrajectories(p)
  \/ WritePage(p)

(* The environment.                                                        *)

\* A call fails, or the process is killed: what is on the disk stays as it is, and
\* with a killed verify its goroutines are gone.
Break(p) ==
  /\ p \in Running /\ proc[p].at # "start" /\ crashes > 0
  /\ crashes' = crashes - 1
  /\ Tells(p, "crashed")
  /\ verdict' = IF Is(p, "verifying") /\ verdict = "running" THEN "crashed" ELSE verdict
  /\ UNCHANGED <<stale, suite, image, files, edits, goroutine, exists, failedTo, truth,
                 scores, canceled, faults>>

Edit(i) ==
  /\ edits > 0 /\ edits' = edits - 1
  /\ suite' = [suite EXCEPT ![i] = @ + 1] /\ stale' = stale \union Running
  /\ UNCHANGED <<proc, image, files, crashes, verifierVars>>

\* `verify --prepare` of another process, or a prune, replaces the image.
Pull(i) ==
  /\ edits > 0 /\ edits' = edits - 1
  /\ image # i /\ image' = i
  /\ UNCHANGED <<proc, stale, suite, files, crashes, verifierVars>>

Terminating == Running = {} /\ UNCHANGED evalVars

Next ==
  \/ \E p \in Procs : Step(p) \/ Break(p)
  \/ \E i \in 1..2 : Edit(i)
  \/ \E i \in Images : Pull(i)
  \/ Terminating

\* A process is scheduled, and so is each goroutine of the verifier.
Spec ==
  /\ Init /\ [][Next]_evalVars
  /\ \A p \in Procs : WF_evalVars(Step(p))
  /\ \A t \in Tasks : WF_evalVars(\E p \in Procs : Is(p, "verifying") /\ TaskStep(t)
                                   /\ UNCHANGED <<proc, stale, suite, image, files,
                                                  edits, crashes>>)

-----------------------------------------------------------------------------
Gated == {"freeze", "verify", "probe"}

Passed(p) ==
  /\ Cmd(p) \in Gated
  /\ proc[p].told = "ok" \/ proc[p].at \in {"inspect", "again", "verifying"}

\* "nimbus freeze gate failed": a command passes only with a record that a freeze
\* --write finished, and, if nobody edited the suite since it was loaded, with the
\* suite in memory exactly that record's; half a record, a record of a suite that
\* was edited while it was hashed, or of another suite never passes.
FrozenOrRefused ==
  \A p \in Procs : Passed(p) =>
    Whole(proc[p].want) /\ (p \notin stale => proc[p].mem = proc[p].want.suite)

\* "new append-only output directory", "exclusive create": a record or an image
\* file that is whole is never written again, by any two commands in any order.
WholeRecordsLast ==
  [][/\ \A a \in DOMAIN results : Whole(results[a]) => results'[a] = results[a]
     /\ \A a \in DOMAIN trajectories : Whole(trajectories[a]) => trajectories'[a] = trajectories[a]
     /\ Whole(audited) => audited' = audited]_evalVars

\* The attempts a retry goes back to: those in every set that holds its parent and the
\* parents of its members.
Ancestors(rs, a) ==
  LET Named     == {rs[b].parent : b \in DOMAIN rs} \union {"none"}
      Closed(S) == \A b \in S \intersect DOMAIN rs : rs[b].parent \in S
  IN  {b \in Named \ {"none"} :
         \A S \in SUBSET Named : rs[a].parent \in S /\ Closed(S) => b \in S}

\* A whole report shows whole results that are on the disk with their
\* trajectories, and no attempt that goes back, over any number of retries, to one
\* that is missing, not earlier, of another schedule, completed or timed out.
ReportIsSound ==
  Whole(page) =>
    \A a \in DOMAIN page :
      /\ results[a] = page[a] /\ Whole(trajectories[a])
      /\ \A b \in Ancestors(page, a) :
           /\ b \in DOMAIN page /\ page[b].run = page[a].run
           /\ page[b].attempt < page[a].attempt /\ page[b].status \in Retryable

\* Every command ends, in the verifier too.
CommandsEnd == <>(Running = {})
=============================================================================
