---------------------------- MODULE EvalAttempt ----------------------------
(***************************************************************************)
(* One evaluation attempt seen from the host: isolatedRun with the OCI     *)
(* command runtime (eval/internal/agentoutcome: oci.go, agentoutcome.go),  *)
(* together with the container of EvalSupervisor.                          *)
(*                                                                         *)
(* The host starts the runtime's CLI, which creates the container and      *)
(* copies its frames to the host; it waits for the CLI, the deadline, a    *)
(* cancellation or too much output, whichever comes first, stops what is   *)
(* still running, and then classifies the attempt from the frames, removes *)
(* the container, and only then opens what the container captured.         *)
(***************************************************************************)
EXTENDS EvalSupervisor, FiniteSets, FiniteSetsExt

CONSTANTS
  RuntimeFaults,  \* BOOLEAN: commands of the container runtime may fail
  HostFaults,     \* BOOLEAN: writes below the run directory may fail
  Interrupts      \* BOOLEAN: the deadline may pass and the caller may cancel

ASSUME EvalAttemptAssumption ==
  {CaptureFaults, RuntimeFaults, HostFaults, Interrupts} \subseteq BOOLEAN

VARIABLES
  pc,        \* where isolatedRun is
  ctx,       \* the attempt's context: "live", "deadline" or "canceled"
  cli,       \* the runtime's CLI: "none", "running" or "gone"
  got,       \* frames the CLI had copied to the host when it ended
  vols,      \* volumes that exist
  verdict,   \* protocol ("ok" or "bad"), exposed and status, from the frames
  execution, \* the status in execution.json; "lost" when its write has failed
  diskFailed,\* a write below the run directory has failed and ended the attempt
  outcome,   \* the status in outcome.json, "none" while it is not whole
  result     \* "none", "failed" (nonzero, not gradeable) or an outcome's status

hostVars == <<pc, ctx, cli, got, vols, verdict, execution, diskFailed, outcome, result>>
vars == <<boxVars, hostVars>>

Volumes == {"workspace", "tmp"}

-----------------------------------------------------------------------------
(* parseControl.                                                           *)

ValidTerminalStatus(status, exposed) ==
  IF exposed THEN status \in Statuses ELSE status = "environment-failure"

\* Frame f is accepted after the accepted frames kept.
Accepts(kept, f) ==
  /\ Len(kept) < 2
  /\ \/ f.type = "exposure" /\ kept = <<>> /\ f.exposed
     \/ /\ f.type = "terminal"
        /\ Len(kept) = 1 => kept[1].type = "exposure"
        /\ f.exposed = (Len(kept) = 1)
        /\ ValidTerminalStatus(f.status, f.exposed)

\* The frames before the first one that is rejected.
Kept(read) ==
  LET good(n) == \A i \in 1..n : Accepts(SubSeq(read, 1, i - 1), read[i])
  IN  SubSeq(read, 1, Max({n \in 0..Len(read) : good(n)}))

ProtocolOk(read) ==
  /\ Kept(read) = read
  /\ read # <<>> /\ read[Len(read)].type = "terminal"

Expired == ctx # "live"

\* The record isolatedRun makes of the frames it was given.
Verdict(read) ==
  LET kept    == Kept(read)
      exposed == \E i \in DOMAIN kept : kept[i].type = "exposure"
      ends    == {i \in DOMAIN kept : kept[i].type = "terminal"}
  IN  [protocol |-> IF ProtocolOk(read) THEN "ok" ELSE "bad",
       exposed  |-> exposed,
       status   |-> CASE Expired /\ exposed -> "agent-timeout"
                      [] ~(Expired /\ exposed) /\ ends # {} -> kept[Max(ends)].status
                      [] OTHER -> "environment-failure"]

Init ==
  /\ SupervisorInit
  /\ pc = "prepare" /\ ctx = "live" /\ cli = "none"
  /\ got = 0 /\ vols = {}
  /\ verdict = [protocol |-> "none", exposed |-> FALSE, status |-> "none"]
  /\ execution = "none" /\ diskFailed = FALSE
  /\ outcome = "none" /\ result = "none"

-----------------------------------------------------------------------------
(* The clock and the caller.                                               *)

\* The deadline counts from just before the container is run.
Deadline ==
  /\ Interrupts /\ ctx = "live" /\ pc \notin {"prepare", "volumes", "done"}
  /\ ctx' = "deadline"
  /\ UNCHANGED <<boxVars, pc, cli, got, vols, verdict, execution, diskFailed, outcome, result>>

Cancel ==
  /\ Interrupts /\ ctx = "live" /\ pc # "done"
  /\ ctx' = "canceled"
  /\ UNCHANGED <<boxVars, pc, cli, got, vols, verdict, execution, diskFailed, outcome, result>>

-----------------------------------------------------------------------------
(* Preparation.                                                            *)

\* Anything before the volumes: identifiers, task, trees, image, fresh name.
Prepare ==
  /\ pc = "prepare"
  /\ \/ ~Expired /\ pc' = "volumes" /\ UNCHANGED result
     \/ pc' = "done" /\ result' = "failed"
  /\ UNCHANGED <<boxVars, ctx, cli, got, vols, verdict, execution, diskFailed, outcome>>

\* PrepareWorkspace, one volume at a time.  When a command fails the volumes made
\* so far are removed under the same context, and isolatedRun returns.
CreateVolume ==
  /\ pc = "volumes"
  /\ LET next == IF vols = {} THEN "workspace" ELSE "tmp" IN
     \/ /\ ~Expired
        /\ vols' = vols \union {next}
        /\ pc' = IF next = "tmp" THEN "start" ELSE pc
        /\ UNCHANGED result
     \/ /\ Expired \/ RuntimeFaults
        /\ vols' \in SUBSET (vols \union {next})
        /\ Expired => vols \subseteq vols'
        /\ pc' = "done" /\ result' = "failed"
  /\ UNCHANGED <<boxVars, ctx, cli, got, verdict, execution, diskFailed, outcome>>

-----------------------------------------------------------------------------
(* commandRuntime.Run.                                                     *)

StartRun ==
  /\ pc = "start"
  /\ \/ ~Expired /\ cli' = "running" /\ pc' = "select"
     \/ (Expired \/ RuntimeFaults) /\ pc' = "classify" /\ UNCHANGED cli
  /\ UNCHANGED <<boxVars, ctx, got, vols, verdict, execution, diskFailed, outcome, result>>

\* The CLI creates and starts the container.  Whether it leaves a cidfile makes no
\* difference: without one the container is found by its name.
CliCreates ==
  /\ cli = "running" /\ box = "none"
  /\ BoxStarts
  /\ UNCHANGED hostVars

\* The CLI ends with its container once all output is copied, or breaks off.
CliEnds ==
  /\ cli = "running"
  /\ cli' = "gone"
  /\ \/ box = "stopped" /\ got' = Len(frames)
     \/ RuntimeFaults /\ got' \in 0..Len(frames)
  /\ UNCHANGED <<boxVars, pc, ctx, vols, verdict, execution, diskFailed, outcome, result>>

\* The error Run returns makes no difference to an attempt whose frames are in.
Waited ==
  /\ pc = "select" /\ cli = "gone"
  /\ pc' = "classify"
  /\ UNCHANGED <<boxVars, ctx, cli, got, vols, verdict, execution, diskFailed, outcome, result>>

\* The context is done, or the CLI's output passed its limit.
Interrupted ==
  /\ pc = "select" /\ (Expired \/ RuntimeFaults)
  /\ pc' = "stop"
  /\ UNCHANGED <<boxVars, ctx, cli, got, vols, verdict, execution, diskFailed, outcome, result>>

\* stopOwnedContainer: an absent container needs no stop.
Stop ==
  /\ pc = "stop"
  /\ \/ /\ box = "none" \/ RuntimeFaults
        /\ pc' = "drain" /\ UNCHANGED boxVars
     \/ /\ box # "none"
        /\ pc' = "stopping" /\ BoxTerm
  /\ UNCHANGED <<ctx, cli, got, vols, verdict, execution, diskFailed, outcome, result>>

\* "stop --time 1" ends when the supervisor does or with a SIGKILL, unless its
\* own timeout ends it first.
Stopped ==
  /\ pc = "stopping"
  /\ pc' = "drain"
  /\ \/ (box = "stopped" \/ RuntimeFaults) /\ UNCHANGED boxVars
     \/ box = "running" /\ BoxEnds("stopped")
  /\ UNCHANGED <<ctx, cli, got, vols, verdict, execution, diskFailed, outcome, result>>

\* Mutant of Drain: no grace period ends the wait for the CLI.
DrainForever ==
  /\ pc = "drain" /\ cli = "gone"
  /\ pc' = "classify"
  /\ UNCHANGED <<boxVars, ctx, cli, got, vols, verdict, execution, diskFailed, outcome, result>>

\* Mutant of Drain: after the grace period the CLI is left running.
DrainAndLeave ==
  /\ pc = "drain"
  /\ pc' = "classify"
  /\ IF cli = "gone" THEN UNCHANGED got ELSE got' \in 0..Len(frames)
  /\ UNCHANGED <<boxVars, ctx, cli, vols, verdict, execution, diskFailed, outcome, result>>

\* Output drains until the CLI ends or the grace period does; then it is killed.
Drain ==
  /\ pc = "drain"
  /\ pc' = "classify" /\ cli' = "gone"
  /\ IF cli = "gone" THEN UNCHANGED got ELSE got' \in 0..Len(frames)
  /\ UNCHANGED <<boxVars, ctx, vols, verdict, execution, diskFailed, outcome, result>>

-----------------------------------------------------------------------------
(* Classification, cleanup, capture.                                       *)

Classify ==
  /\ pc = "classify"
  /\ verdict' = Verdict(SubSeq(frames, 1, got))
  /\ pc' = "cleanup"
  /\ UNCHANGED <<boxVars, ctx, cli, got, vols, execution, diskFailed, outcome, result>>

\* Cleanup and EnsureContainerAbsent, under a context of their own.  The container
\* is found by its cidfile or else by name.
Absent == box \in {"none", "removed"}

CleanupFails ==
  /\ RuntimeFaults
  /\ \/ UNCHANGED <<boxVars, vols>>
     \/ /\ IF Absent THEN UNCHANGED boxVars ELSE BoxEnds("removed")
        /\ vols' \in SUBSET vols

\* Mutant of CleanupOk: the absence check after a removal is left out.
CleanupUnverified == CleanupFails \/ (BoxEnds("removed") /\ vols' = {})

CleanupOk ==
  /\ IF Absent THEN UNCHANGED boxVars ELSE BoxEnds("removed")
  /\ vols' = {}

\* writeJSON of execution.json.  Its error is dropped: nobody learns of a failed one.
RecordExecution(status) ==
  execution' \in {status} \union (IF HostFaults THEN {"lost"} ELSE {})

\* recordAgent writes outcome.json and then metrics.json; when either fails, fail
\* makes the attempt a failed one, and an outcome.json already written stays.
Grade(status) ==
  \/ result' = status /\ outcome' = status /\ UNCHANGED diskFailed
  \/ /\ HostFaults
     /\ result' = "failed" /\ diskFailed' = TRUE
     /\ outcome' \in {"none", status}

Refuse == result' = "failed" /\ UNCHANGED <<diskFailed, outcome>>

\* Mutant of Cleanup: a failed cleanup makes every attempt a failed run.
CleanupRefuses ==
  /\ pc = "cleanup"
  /\ \/ /\ CleanupOk
        /\ pc' = "capture" /\ UNCHANGED <<verdict, execution, diskFailed, outcome, result>>
     \/ /\ CleanupFails
        /\ pc' = "done" /\ UNCHANGED <<verdict, execution>>
        /\ Refuse
  /\ UNCHANGED <<ctx, cli, got>>

Cleanup ==
  /\ pc = "cleanup"
  /\ \/ /\ CleanupOk
        /\ pc' = "capture" /\ UNCHANGED <<verdict, execution, diskFailed, outcome, result>>
     \/ /\ CleanupFails
        /\ verdict' = [verdict EXCEPT !.status = "environment-failure"]
        /\ RecordExecution("environment-failure")
        /\ pc' = "done"
        /\ IF verdict.exposed THEN Grade("environment-failure") ELSE Refuse
  /\ UNCHANGED <<ctx, cli, got>>

\* From the capture directory to events.jsonl in the run directory.
Workspace == {"final-workspace.json", "final-workspace.tar.gz"}

ReadCapture ==
  /\ pc = "capture"
  /\ RecordExecution(verdict.status)
  /\ \E broken \in BOOLEAN :  \* reconstructing the workspace fails
       /\ broken => HostFaults
       /\ LET completed == verdict.status = "completed"
              missing   == completed /\ (broken \/ ~(Workspace \subseteq capture))
              ends      == pc' = "done"
          IN
          CASE Expired /\ verdict.exposed -> ends /\ Grade("agent-timeout")
            [] ~Expired /\ verdict.exposed /\ verdict.protocol = "bad" ->
                 ends /\ Grade("evaluator-failure")
            [] ~verdict.exposed -> ends /\ Refuse
            [] OTHER ->
                 IF missing \/ (completed /\ "events.jsonl" \notin capture)
                 THEN ends /\ Grade("evaluator-failure")
                 ELSE \/ pc' = "record" /\ UNCHANGED <<diskFailed, outcome, result>>
                      \/ /\ HostFaults /\ ends
                         /\ result' = "failed" /\ diskFailed' = TRUE /\ UNCHANGED outcome
  /\ UNCHANGED <<boxVars, ctx, cli, got, vols, verdict>>

\* parseEvents: the last text is the answer; bad JSON, no text or too many events
\* are a failure of the agent's protocol.
Parsed == {"completed", "agent-protocol-failure"}

\* The context is looked at once more, then the events are parsed.
Record ==
  /\ pc = "record"
  /\ pc' = "done"
  /\ IF ctx = "deadline" THEN Grade("agent-timeout")
     ELSE IF verdict.status # "completed" THEN Grade(verdict.status)
     ELSE \E status \in Parsed : Grade(status)
  /\ UNCHANGED <<boxVars, ctx, cli, got, vols, verdict, execution>>

-----------------------------------------------------------------------------
Box == (AgentStep \/ SupervisorStep) /\ UNCHANGED hostVars

Cli == CliCreates \/ CliEnds

Host ==
  \/ Prepare \/ CreateVolume \/ StartRun \/ Waited \/ Interrupted \/ Stop \/ Stopped
  \/ Drain \/ Classify \/ Cleanup \/ ReadCapture \/ Record

Next == Deadline \/ Cancel \/ Box \/ Cli \/ Host

\* The host's own steps, its runtime's commands and the deadline's timer are
\* fair; the agent, the supervisor and the caller need not do anything.
Spec == Init /\ [][Next]_vars /\ WF_vars(Host) /\ WF_vars(Deadline)

-----------------------------------------------------------------------------
TypeOK ==
  /\ SupervisorTypeOK
  /\ pc \in {"prepare", "volumes", "start", "select", "stop", "stopping", "drain",
             "classify", "cleanup", "capture", "record", "done"}
  /\ ctx \in {"live", "deadline", "canceled"} /\ cli \in {"none", "running", "gone"}
  /\ diskFailed \in BOOLEAN
  /\ got \in 0..Len(frames) /\ vols \subseteq Volumes
  /\ verdict \in [protocol : {"none", "ok", "bad"}, exposed : BOOLEAN,
                  status : Statuses \union {"none"}]
  /\ execution \in Statuses \union {"none", "lost"}
  /\ outcome \in Statuses \union {"none"}
  /\ result \in Statuses \union {"none", "failed"}

\* An attempt that counts as completed is one whose agent made its request, ended
\* by itself with success within its budgets, and whose marker, events and final
\* workspace all reached the host, with the container and the volumes gone.
CompletedIsEarned ==
  result = "completed" =>
    /\ child.asked /\ child.exit = "ok" /\ ~sup.over
    /\ {"exposure.marker", "events.jsonl"} \union Workspace \subseteq capture
    /\ outcome = "completed" /\ execution \in {"completed", "lost"}
    /\ Absent /\ vols = {}

\* README of eval: absence is verified before capture is read.  Once the host
\* opens the directory no process is left that could write to it, none can be
\* started, and it does not change any more.
CaptureIsSealed ==
  [][(pc \in {"capture", "record"}) =>
       /\ Absent /\ cli # "running"
       /\ capture' = capture]_vars

\* README of eval: once exposure is recorded every failure is gradeable, and an
\* attempt that is not exposed never is.  Only a full disk on the host breaks it.
ExposureIsGraded ==
  pc = "done" =>
    /\ verdict.exposed /\ result = "failed" => diskFailed
    /\ result # "failed" => verdict.exposed /\ child.sent

\* execution.json and outcome.json describe the same attempt.  An outcome is written
\* only after the record was, the runner differs from it only when it says so, and
\* an outcome that differs from the recorded status is a timeout noticed later, a
\* protocol failure, or a completed attempt whose evidence turned out unusable.
RecordsAgree ==
  pc = "done" /\ outcome # "none" =>
    /\ execution # "none"
    /\ result # outcome => result = "failed" /\ diskFailed
    /\ execution \notin {"lost", outcome} =>
         \/ outcome = "agent-timeout" /\ Expired
         \/ outcome = "evaluator-failure" /\ verdict.protocol = "bad"
         \/ /\ outcome \in {"evaluator-failure", "agent-protocol-failure"}
            /\ execution = "completed"

\* Whatever is left behind after an attempt was reported with it.
LeftoversAreReported ==
  pc = "done" /\ (~Absent \/ vols # {} \/ cli = "running") =>
    result \in {"failed", "environment-failure"}

\* The outcome on the disk is honest, with the types: about the run and about what
\* the run left in the runtime.
OutcomeIsHonest == TypeOK /\ RecordsAgree /\ LeftoversAreReported

\* However the agent and the supervisor behave, the attempt ends.
AttemptEnds == <>(pc = "done")

\* README of eval: conclusive pre-exposure failures make the runner nonzero, so a
\* nonzero runner without host errors means that no model request was made.
NonzeroIsPreExposure == result = "failed" /\ ~diskFailed => ~child.asked
=============================================================================
