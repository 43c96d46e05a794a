--------------------------- MODULE EvalSupervisor ---------------------------
(***************************************************************************)
(* Inside the container of one evaluation attempt: the supervisor, which   *)
(* is PID 1, and the agent it starts (eval/cmd/eval-supervisor/main.go,    *)
(* eval/internal/fakeopencode/fake.go).                                    *)
(*                                                                         *)
(* The supervisor runs three goroutines beside its event loop: one reads   *)
(* the control pipe to its end, one waits for the agent, one (per stream)  *)
(* copies output into a bounded buffer.  The loop selects among what they  *)
(* report, the termination signal and a ticker.  What the host sees of all *)
(* this is the sequence of control frames and the files in /capture.       *)
(***************************************************************************)
EXTENDS Integers, Sequences

CONSTANT CaptureFaults   \* BOOLEAN: a write below /capture may fail

VARIABLES
  box,      \* the container: "none", "running", "stopped" or "removed"
  mcp,      \* arm "all" runs the MCP server beside the agent
  child,    \* the agent: at ("none", "running", "gone"), sent (it has written and
            \*   closed the control pipe), asked (its first model request), exit
  sup,      \* the supervisor: pc, sig and wait (the two result channels), term
            \*   (the signal), exposed, over (a budget is exceeded), err, status
  frames,   \* control frames written to stdout
  capture   \* files in /capture

boxVars == <<box, mcp, child, sup, frames, capture>>

Exits == {"ok", "killed", "provider", "mcp", "full", "other"}  \* 0, signal, 7, 9, 10, 8
RunErrors == {"nil", "canceled", "control", "capture"} \union (Exits \ {"ok"})
Statuses ==
  {"completed", "agent-timeout", "budget-exhausted", "agent-protocol-failure",
   "environment-failure", "mcp-failure", "provider-failure", "evaluator-failure"}
Files == {"exposure.marker", "events.jsonl", "diagnostics", "final-workspace.json",
          "final-workspace.tar.gz"}

Exposure == [type |-> "exposure", exposed |-> TRUE, status |-> "none"]
Terminal(exposed, status) == [type |-> "terminal", exposed |-> exposed, status |-> status]
Stray    == [type |-> "stray", exposed |-> FALSE, status |-> "none"]
Frame    == {Exposure, Stray} \union {Terminal(e, s) : e \in BOOLEAN, s \in Statuses}

SupervisorInit ==
  /\ box = "none"
  /\ mcp \in BOOLEAN
  /\ child = [at |-> "none", sent |-> FALSE, asked |-> FALSE, exit |-> "none"]
  /\ sup = [pc |-> "setup", sig |-> "empty", wait |-> "empty", term |-> "no",
            exposed |-> FALSE, over |-> FALSE, err |-> "nil",
            status |-> "none"]
  /\ frames = <<>>
  /\ capture = {}

\* cmd.Process.Kill, which has no effect on an agent that is gone.
Killed(c) == IF c.at = "running" THEN [c EXCEPT !.at = "gone", !.exit = "killed"] ELSE c

Running(pc) == box = "running" /\ sup.pc = pc

\* The supervisor exits after its last frames; no process survives PID 1.
Exit(last) ==
  /\ frames' = frames \o last
  /\ sup' = [sup EXCEPT !.pc = "exited"]
  /\ box' = "stopped"
  /\ child' = Killed(child)

\* run returned an error: main reports it as a failure before exposure.
Fatal == Exit(<<Terminal(FALSE, "environment-failure")>>)

-----------------------------------------------------------------------------
(* Setup: mounts, input, the MCP server and its readiness, the agent.      *)

SetupFails ==
  /\ Running("setup")
  /\ Fatal
  /\ UNCHANGED <<mcp, capture>>

StartAgent ==
  /\ Running("setup")
  /\ child' = [child EXCEPT !.at = "running"]
  /\ sup' = [sup EXCEPT !.pc = "loop"]
  /\ UNCHANGED <<box, mcp, frames, capture>>

-----------------------------------------------------------------------------
(* The agent.                                                              *)

AgentRuns == box = "running" /\ child.at = "running"

\* signalExposure: one write, then close.
AgentSignals ==
  /\ AgentRuns /\ ~child.sent
  /\ child' = [child EXCEPT !.sent = TRUE]
  /\ UNCHANGED <<box, mcp, sup, frames, capture>>

AgentAsks ==
  /\ AgentRuns /\ child.sent /\ ~child.asked
  /\ child' = [child EXCEPT !.asked = TRUE]
  /\ UNCHANGED <<box, mcp, sup, frames, capture>>

AgentExits ==
  /\ AgentRuns /\ (child.sent => child.asked)
  /\ \E code \in Exits \ {"killed"} :
       /\ ~child.asked => code = "other"
       /\ code = "mcp" => mcp
       /\ child' = [child EXCEPT !.at = "gone", !.exit = code]
  /\ UNCHANGED <<box, mcp, sup, frames, capture>>

-----------------------------------------------------------------------------
(* The goroutines beside the loop.                                         *)

Supervising == box = "running" /\ sup.pc \in {"loop", "late"}

\* The pipe ends when the agent closes it or dies; what it holds is the one
\* line of the protocol or nothing.
ReadControl ==
  /\ Supervising /\ sup.sig = "empty"
  /\ child.sent \/ child.at = "gone"
  /\ sup' = [sup EXCEPT !.sig = IF child.sent THEN "ok" ELSE "bad"]
  /\ UNCHANGED <<box, mcp, child, frames, capture>>

WaitAgent ==
  /\ Supervising /\ sup.wait = "empty" /\ child.at = "gone"
  /\ sup' = [sup EXCEPT !.wait = "full"]
  /\ UNCHANGED <<box, mcp, child, frames, capture>>

\* boundedBuffer.Write: Wait returns after the streams are copied, so output
\* the agent left in a pipe still counts.
Overflow ==
  /\ Supervising /\ sup.wait = "empty" /\ child.asked /\ ~sup.over
  /\ sup' = [sup EXCEPT !.over = TRUE]
  /\ child' = Killed(child)
  /\ UNCHANGED <<box, mcp, frames, capture>>

-----------------------------------------------------------------------------
(* The event loop.                                                         *)

LoopTerminated ==
  /\ Running("loop") /\ sup.term = "pending"
  /\ sup' = [sup EXCEPT !.term = "seen", !.err = "canceled"]
  /\ child' = Killed(child)
  /\ UNCHANGED <<box, mcp, frames, capture>>

LoopBadControl ==
  /\ Running("loop") /\ sup.sig = "bad"
  /\ sup' = [sup EXCEPT !.sig = "taken", !.err = "control"]
  /\ child' = Killed(child)
  /\ UNCHANGED <<box, mcp, frames, capture>>

\* The marker goes to disk before the frame goes out.
LoopExposure ==
  /\ Running("loop") /\ sup.sig = "ok"
  /\ \/ /\ sup' = [sup EXCEPT !.sig = "taken", !.exposed = TRUE]
        /\ capture' = capture \union {"exposure.marker"}
        /\ frames' = Append(frames, Exposure)
        /\ UNCHANGED child
     \/ /\ CaptureFaults
        /\ sup' = [sup EXCEPT !.sig = "taken", !.exposed = TRUE, !.err = "capture"]
        /\ child' = Killed(child)
        /\ UNCHANGED <<capture, frames>>
  /\ UNCHANGED <<box, mcp>>

LoopAgentGone ==
  /\ Running("loop") /\ sup.wait = "full"
  /\ sup' = [sup EXCEPT !.pc = "late", !.wait = "taken",
               !.err = IF @ = "nil" /\ child.exit # "ok" THEN child.exit ELSE @]
  /\ UNCHANGED <<box, mcp, child, frames, capture>>

\* The ticker finds the workspace above its budget.
LoopOverBudget ==
  /\ Running("loop") /\ child.asked /\ ~sup.over
  /\ sup' = [sup EXCEPT !.over = TRUE]
  /\ child' = Killed(child)
  /\ UNCHANGED <<box, mcp, frames, capture>>

\* The agent is gone and its signal was not taken yet.
LateExposure ==
  /\ Running("late") /\ ~sup.exposed /\ sup.sig = "ok"
  /\ \/ /\ sup' = [sup EXCEPT !.sig = "taken", !.exposed = TRUE]
        /\ capture' = capture \union {"exposure.marker"}
        /\ frames' = Append(frames, Exposure)
        /\ UNCHANGED <<box, child>>
     \/ /\ CaptureFaults
        /\ Fatal
        /\ UNCHANGED capture
  /\ UNCHANGED mcp

NeverExposed ==
  /\ Running("late") /\ ~sup.exposed /\ sup.sig \in {"bad", "taken"}
  /\ Fatal
  /\ UNCHANGED <<mcp, capture>>

-----------------------------------------------------------------------------
(* The report: status, captured files, the terminal frame.                 *)

\* Mutant of Status: the budget is not looked at when the agent exits with 0.
StatusOfExit ==
  CASE sup.err = "nil" -> "completed"
    [] sup.err = "full" -> "budget-exhausted"
    [] OTHER -> "evaluator-failure"

Status ==
  CASE sup.over \/ sup.err = "full" -> "budget-exhausted"
    [] OTHER -> CASE sup.err = "nil" -> "completed"
                  [] sup.err = "provider" -> "provider-failure"
                  [] sup.err = "mcp" -> "mcp-failure"
                  [] OTHER -> "evaluator-failure"

\* One export: it succeeds with all its files, or fails and leaves one of partial.
Export(pc, next, status, files, partial) ==
  /\ Running(pc)
  /\ \/ /\ sup' = [sup EXCEPT !.pc = next, !.status = status]
        /\ capture' = capture \union files
     \/ /\ sup' = [sup EXCEPT !.pc = next, !.status = "evaluator-failure",
                     !.err = "capture"]
        /\ \E some \in partial : capture' = capture \union some
  /\ UNCHANGED <<box, mcp, child, frames>>

IfFaults(partial) == IF CaptureFaults THEN partial ELSE {}

ReportEvents ==
  /\ sup.exposed
  /\ Export("late", "diagnostics", Status, {"events.jsonl"}, IfFaults({{}}))

\* An irregular or large diagnostic fails the export, whatever the disk does.
ReportDiagnostics ==
  Export("diagnostics", "workspace", sup.status, {"diagnostics"}, {{}})

\* So does an irregular or large file of the workspace; the manifest is written
\* before the archive.
ReportWorkspace ==
  IF sup.status = "budget-exhausted"
  THEN Export("workspace", "terminal", sup.status, {}, {})
  ELSE Export("workspace", "terminal", sup.status,
              {"final-workspace.json", "final-workspace.tar.gz"},
              {{}} \union IfFaults({{"final-workspace.json"}}))

\* The MCP server is stopped and awaited; the last frame goes out, followed by
\* a stray line in the fake's "malformed-control" mode.
ReportTerminal ==
  /\ Running("terminal")
  /\ \E stopFails, stray \in BOOLEAN :
       /\ stopFails => mcp
       /\ Exit(<<Terminal(TRUE, IF stopFails /\ sup.err = "nil" THEN "mcp-failure"
                                ELSE sup.status)>>
               \o (IF stray THEN <<Stray>> ELSE <<>>))
  /\ UNCHANGED <<mcp, capture>>

AgentStep == AgentSignals \/ AgentAsks \/ AgentExits

SupervisorStep ==
  \/ SetupFails \/ StartAgent
  \/ ReadControl \/ WaitAgent \/ Overflow
  \/ LoopTerminated \/ LoopBadControl \/ LoopExposure \/ LoopAgentGone \/ LoopOverBudget
  \/ LateExposure \/ NeverExposed
  \/ ReportEvents \/ ReportDiagnostics \/ ReportWorkspace \/ ReportTerminal

-----------------------------------------------------------------------------
(* What the container runtime does to the container.                       *)

BoxStarts == box' = "running" /\ UNCHANGED <<mcp, child, sup, frames, capture>>

\* SIGTERM, noticed by the loop if it gets that far.
BoxTerm ==
  /\ sup' = [sup EXCEPT !.term = IF box = "running" /\ @ = "no" THEN "pending" ELSE @]
  /\ UNCHANGED <<box, mcp, child, frames, capture>>

\* SIGKILL of every process, or removal of what is left.
BoxEnds(state) ==
  /\ box' = state
  /\ child' = Killed(child)
  /\ UNCHANGED <<mcp, sup, frames, capture>>

-----------------------------------------------------------------------------
SupervisorTypeOK ==
  /\ box \in {"none", "running", "stopped", "removed"} /\ mcp \in BOOLEAN
  /\ child \in [at : {"none", "running", "gone"}, sent : BOOLEAN, asked : BOOLEAN,
                exit : Exits \union {"none"}]
  /\ sup \in [pc : {"setup", "loop", "late", "diagnostics", "workspace", "terminal",
                    "exited"},
              sig : {"empty", "ok", "bad", "taken"}, wait : {"empty", "full", "taken"},
              term : {"no", "pending", "seen"}, exposed : BOOLEAN, over : BOOLEAN,
              err : RunErrors, status : Statuses \union {"none"}]
  /\ frames \in Seq(Frame) /\ Len(frames) <= 3 /\ capture \subseteq Files
=============================================================================
