------------------------- MODULE EvalAttemptProofs -------------------------
(***************************************************************************)
(* Proofs about EvalAttempt, whatever may go wrong: a fault of the capture *)
(* directory, of the container runtime or of the host's disk, a deadline.  *)
(***************************************************************************)
EXTENDS EvalAttempt, SequenceTheorems, TLAPS

(* The inductive invariant, in two halves that meet in the frames, the      *)
(* capture directory and the state of the container.                        *)

\* The agent lives in the container, and PID 1 does not survive itself.
ContainerInv ==
  /\ box = "none" => sup.pc = "setup"
  /\ sup.pc = "setup" => child.at = "none"
  /\ box # "running" => child.at # "running"
  /\ sup.pc = "exited" => box \in {"stopped", "removed"}

\* What the supervisor has seen, the agent has done.
WitnessInv ==
  /\ child.asked => child.sent
  /\ child.at = "gone" => child.exit # "none"
  /\ child.exit = "ok" => child.asked
  /\ sup.sig = "ok" => child.sent
  /\ sup.wait # "empty" => child.at = "gone"

Reporting == {"diagnostics", "workspace", "terminal"}

\* The status is made when the agent is gone, of an error that tells how it went.
StatusInv ==
  /\ sup.pc \in {"late"} \union Reporting =>
       /\ sup.wait = "taken"
       /\ sup.err = "nil" => child.exit = "ok"
  /\ sup.pc \in Reporting =>
       /\ sup.exposed /\ sup.status # "none"
       /\ sup.status = "completed" => sup.err = "nil" /\ ~sup.over

\* What a frame says holds, and the frames before the last ones are few.
FramesInv ==
  /\ sup.pc # "exited" =>
       /\ Len(frames) <= 1
       /\ sup.sig # "taken" \/ ~sup.exposed => Len(frames) = 0
  /\ \A k \in 1..Len(frames) :
       /\ frames[k].type = "exposure" => child.sent /\ "exposure.marker" \in capture
       /\ frames[k].type = "terminal" /\ frames[k].status = "completed" =>
            child.asked /\ child.exit = "ok" /\ ~sup.over /\ sup.pc = "exited"

\* The CLI and the container exist only in the stages that use them.
StageInv ==
  /\ cli = "none" => box = "none"
  /\ pc \in {"prepare", "volumes", "start"} => cli = "none"
  /\ cli = "running" => pc \in {"select", "stop", "stopping", "drain"}
  /\ pc \in {"capture", "record"} => Absent /\ vols = {}
  /\ pc # "done" => result = "none" /\ outcome = "none"

\* The verdict rests on frames that were sent, the record on evidence that was read.
VerdictInv ==
  /\ pc \notin {"cleanup", "capture", "record", "done"} => ~verdict.exposed
  /\ pc \in {"cleanup", "capture", "record"} => verdict.status # "none"
  /\ verdict.exposed => \E k \in 1..Len(frames) : frames[k].type = "exposure"
  /\ verdict.status = "completed" =>
       \E k \in 1..Len(frames) : frames[k].type = "terminal" /\ frames[k].status = "completed"
  /\ pc = "record" =>
       /\ verdict.exposed /\ execution \in {verdict.status, "lost"}
       /\ verdict.status = "completed" => {"events.jsonl"} \union Workspace \subseteq capture
  /\ pc = "done" => result # "none"

BoxIInv  == SupervisorTypeOK /\ ContainerInv /\ WitnessInv /\ StatusInv /\ FramesInv
HostIInv ==
  /\ TypeOK /\ StageInv /\ VerdictInv
  /\ CompletedIsEarned /\ ExposureIsGraded /\ RecordsAgree /\ LeftoversAreReported

IInv == BoxIInv /\ HostIInv

-----------------------------------------------------------------------------
(* The container.                                                           *)

LEMMA FrameFacts ==
  /\ Exposure \in Frame /\ Stray \in Frame
  /\ \A e \in BOOLEAN, s \in Statuses : Terminal(e, s) \in Frame
BY DEF Frame

LEMMA OneFrame ==
  ASSUME NEW f \in Frame
  PROVE  <<f>> \in Seq(Frame) /\ Len(<<f>>) = 1 /\ <<f>>[1] = f
OBVIOUS

\* A step that writes no frame and does not take the signal.
LEMMA SameFrames ==
  ASSUME FramesInv, UNCHANGED frames, capture \subseteq capture',
         child.sent => child'.sent, sup.pc # "exited", sup'.pc # "exited",
         sup'.sig # "taken" \/ ~sup'.exposed => sup.sig # "taken" \/ ~sup.exposed
  PROVE  FramesInv'
BY DEF FramesInv

\* The first frame: it comes once the agent has signalled and the marker is there.
LEMMA FirstFrame ==
  ASSUME FramesInv, frames \in Seq(Frame), frames' = Append(frames, Exposure),
         sup.pc # "exited", sup.sig # "taken" \/ ~sup.exposed,
         sup'.pc # "exited", sup'.sig = "taken", sup'.exposed,
         child'.sent, "exposure.marker" \in capture'
  PROVE  /\ frames' \in Seq(Frame) /\ Len(frames') <= 3
         /\ FramesInv'
<1>1. Len(frames) = 0
  BY DEF FramesInv
<1>2. frames' \in Seq(Frame) /\ Len(frames') = 1
  BY <1>1, FrameFacts
<1>3. frames'[1] = Exposure
  BY <1>1
<1>4. \A k \in 1..Len(frames') : frames'[k] = Exposure
  BY <1>2, <1>3
<1>5. QED BY <1>2, <1>4 DEF FramesInv, Exposure

\* The last frames; a completed one is sent of an agent that ended well.
LEMMA LastFrames ==
  ASSUME FramesInv, frames \in Seq(Frame), sup.pc # "exited",
         NEW last \in Seq(Frame), Len(last) \in 1..2, frames' = frames \o last,
         sup'.pc = "exited", UNCHANGED capture, child.sent => child'.sent,
         \A k \in 1..Len(last) :
           /\ last[k].type # "exposure"
           /\ last[k].type = "terminal" /\ last[k].status = "completed" =>
                child'.asked /\ child'.exit = "ok" /\ ~sup'.over
  PROVE  /\ frames' \in Seq(Frame) /\ Len(frames') <= 3
         /\ FramesInv'
<1>1. Len(frames) \in Nat /\ Len(frames) <= 1
  BY DEF FramesInv
<1>2. /\ frames' \in Seq(Frame) /\ Len(frames') = Len(frames) + Len(last)
      /\ \A k \in 1..Len(frames') :
           \/ k \in 1..Len(frames) /\ frames'[k] = frames[k]
           \/ k - Len(frames) \in 1..Len(last) /\ frames'[k] = last[k - Len(frames)]
  BY ConcatProperties
<1>3. ASSUME NEW k \in 1..Len(frames')
      PROVE  /\ frames'[k].type = "exposure" => child'.sent /\ "exposure.marker" \in capture'
             /\ frames'[k].type = "terminal" /\ frames'[k].status = "completed" =>
                  child'.asked /\ child'.exit = "ok" /\ ~sup'.over
  <2>1. CASE k \in 1..Len(frames) /\ frames'[k] = frames[k]
    BY <2>1 DEF FramesInv
  <2>2. CASE k - Len(frames) \in 1..Len(last) /\ frames'[k] = last[k - Len(frames)]
    BY <2>2
  <2>3. QED BY <1>2, <2>1, <2>2
<1>4. QED BY <1>1, <1>2, <1>3, SMTT(30) DEF FramesInv

\* An exit: what is left to show is what the last frames say.
LEMMA ExitKeeps ==
  ASSUME SupervisorTypeOK, ContainerInv, WitnessInv, StatusInv, FramesInv,
         box = "running", sup.pc # "exited",
         NEW last \in Seq(Frame), Len(last) \in 1..2, Exit(last), UNCHANGED <<mcp, capture>>,
         \A k \in 1..Len(last) :
           /\ last[k].type # "exposure"
           /\ last[k].type = "terminal" /\ last[k].status = "completed" =>
                child.at = "gone" /\ child.exit = "ok" /\ ~sup.over
  PROVE  BoxIInv'
<1>1. /\ frames' = frames \o last /\ sup' = [sup EXCEPT !.pc = "exited"]
      /\ box' = "stopped" /\ child' = Killed(child)
  BY DEF Exit
<1>2. /\ child'.sent = child.sent /\ child'.asked = child.asked
      /\ child.at = "gone" => child' = child
      /\ sup'.pc = "exited" /\ sup'.over = sup.over
  BY <1>1 DEF SupervisorTypeOK, Killed
<1>3. /\ frames' \in Seq(Frame) /\ Len(frames') <= 3
      /\ FramesInv'
  <2>1. \A k \in 1..Len(last) :
          /\ last[k].type # "exposure"
          /\ last[k].type = "terminal" /\ last[k].status = "completed" =>
               child'.asked /\ child'.exit = "ok" /\ ~sup'.over
    BY <1>2 DEF WitnessInv
  <2>2. frames \in Seq(Frame)
    BY DEF SupervisorTypeOK
  <2>3. QED BY <1>1, <1>2, <2>1, <2>2, LastFrames
<1>4. SupervisorTypeOK'
  BY <1>1, <1>3 DEF SupervisorTypeOK, Killed, Exits
<1>5. ContainerInv' /\ WitnessInv' /\ StatusInv'
  BY <1>1 DEF SupervisorTypeOK, ContainerInv, WitnessInv, StatusInv, Killed, Reporting
<1>6. QED BY <1>3, <1>4, <1>5 DEF BoxIInv

LEMMA FatalKeeps ==
  ASSUME BoxIInv, box = "running", sup.pc # "exited", Fatal, UNCHANGED <<mcp, capture>>
  PROVE  BoxIInv'
<1> DEFINE last == <<Terminal(FALSE, "environment-failure")>>
<1>1. last \in Seq(Frame) /\ Len(last) = 1 /\ last[1] = Terminal(FALSE, "environment-failure")
  <2>1. "environment-failure" \in Statuses /\ FALSE \in BOOLEAN
    BY DEF Statuses
  <2>2. Terminal(FALSE, "environment-failure") \in Frame
    BY <2>1, FrameFacts
  <2>3. QED BY <2>2, OneFrame
<1>2. Exit(last)
  BY DEF Fatal
<1> HIDE DEF last
<1>3. \A k \in 1..Len(last) : last[k].type # "exposure" /\ last[k].status # "completed"
  BY <1>1 DEF Terminal
<1>4. QED BY <1>1, <1>2, <1>3, ExitKeeps DEF BoxIInv

\* An export leaves everything but the status and what is captured.
LEMMA ExportKeeps ==
  ASSUME BoxIInv, NEW from, NEW next \in Reporting, NEW status \in Statuses,
         NEW files \in SUBSET Files, NEW partial \in SUBSET SUBSET Files,
         Export(from, next, status, files, partial),
         from \in {"late", "diagnostics", "workspace"}, sup.exposed,
         status = "completed" => sup.err = "nil" /\ ~sup.over
  PROVE  BoxIInv'
<1>0. SupervisorTypeOK /\ ContainerInv /\ WitnessInv /\ StatusInv /\ FramesInv
  BY DEF BoxIInv
<1>1. /\ box = "running" /\ sup.pc = from /\ UNCHANGED <<box, mcp, child, frames>>
      /\ capture \subseteq capture' /\ capture' \subseteq Files
  BY <1>0 DEF Export, Running, SupervisorTypeOK
<1>2. /\ sup'.pc = next /\ sup'.over = sup.over /\ sup'.sig = sup.sig /\ sup'.wait = sup.wait
      /\ sup'.exposed = sup.exposed
      /\ \/ sup'.status = status /\ sup'.err = sup.err
         \/ sup'.status = "evaluator-failure" /\ sup'.err = "capture"
  BY <1>0, ZenonT(60) DEF Export, SupervisorTypeOK
<1>3. SupervisorTypeOK'
  <2>1. sup' \in [pc : {"setup", "loop", "late", "diagnostics", "workspace", "terminal",
                        "exited"},
                  sig : {"empty", "ok", "bad", "taken"}, wait : {"empty", "full", "taken"},
                  term : {"no", "pending", "seen"}, exposed : BOOLEAN, over : BOOLEAN,
                  err : RunErrors, status : Statuses \union {"none"}]
    <3>1. next \in {"diagnostics", "workspace", "terminal"}
      BY DEF Reporting
    <3>2. \/ sup' = [sup EXCEPT !.pc = next, !.status = status]
          \/ sup' = [sup EXCEPT !.pc = next, !.status = "evaluator-failure", !.err = "capture"]
      BY DEF Export
    <3>3. CASE sup' = [sup EXCEPT !.pc = next, !.status = status]
      BY <1>0, <3>1, <3>3 DEF SupervisorTypeOK
    <3>4. CASE sup' = [sup EXCEPT !.pc = next, !.status = "evaluator-failure", !.err = "capture"]
      <4>1. "evaluator-failure" \in Statuses /\ "capture" \in RunErrors
        BY DEF Statuses, RunErrors
      <4>2. QED BY <1>0, <3>1, <3>4, <4>1 DEF SupervisorTypeOK
    <3>5. QED BY <3>2, <3>3, <3>4
  <2>2. QED BY <1>0, <1>1, <2>1 DEF SupervisorTypeOK
<1>4. ContainerInv' /\ WitnessInv'
  BY <1>0, <1>1, <1>2 DEF ContainerInv, WitnessInv, Reporting
<1>5. StatusInv'
  BY <1>0, <1>1, <1>2 DEF StatusInv, Reporting, Statuses
<1>6. FramesInv'
  BY <1>0, <1>1, <1>2, SameFrames DEF Reporting
<1>7. QED BY <1>3, <1>4, <1>5, <1>6 DEF BoxIInv

LEMMA BoxSteps ==
  ASSUME BoxIInv, AgentStep \/ SupervisorStep
  PROVE  BoxIInv'
<1>0. SupervisorTypeOK /\ ContainerInv /\ WitnessInv /\ StatusInv /\ FramesInv
  BY DEF BoxIInv
<1> USE DEF Running, Supervising, AgentRuns, Killed, Reporting
<1>1. CASE StartAgent
  <2>1. SupervisorTypeOK'
    BY <1>0, <1>1 DEF SupervisorTypeOK, StartAgent
  <2>2. ContainerInv' /\ WitnessInv' /\ StatusInv'
    BY <1>0, <1>1 DEF SupervisorTypeOK, ContainerInv, WitnessInv, StatusInv, StartAgent
  <2>3. FramesInv'
    <3>1. /\ UNCHANGED <<frames, capture>> /\ sup.pc # "exited" /\ sup'.pc # "exited"
          /\ child.sent => child'.sent
          /\ sup'.sig # "taken" \/ ~sup'.exposed => sup.sig # "taken" \/ ~sup.exposed
      BY <1>0, <1>1 DEF SupervisorTypeOK, ContainerInv, StartAgent
    <3>2. QED BY <1>0, <3>1, SameFrames
  <2>4. QED BY <2>1, <2>2, <2>3 DEF BoxIInv
<1>2. CASE AgentSignals
  <2>1. SupervisorTypeOK'
    <3>1. child' = [child EXCEPT !.sent = TRUE] /\ UNCHANGED <<box, mcp, sup, frames, capture>>
      BY <1>2 DEF AgentSignals
    <3>2. child' \in [at : {"none", "running", "gone"}, sent : BOOLEAN, asked : BOOLEAN,
                  exit : Exits \union {"none"}]
      BY <1>0, <3>1 DEF SupervisorTypeOK
    <3>3. QED BY <1>0, <3>1, <3>2 DEF SupervisorTypeOK
  <2>2. ContainerInv' /\ WitnessInv' /\ StatusInv'
    BY <1>0, <1>2 DEF SupervisorTypeOK, ContainerInv, WitnessInv, StatusInv, AgentSignals
  <2>3. FramesInv'
    <3>1. /\ UNCHANGED <<frames, capture>> /\ sup.pc # "exited" /\ sup'.pc # "exited"
          /\ child.sent => child'.sent
          /\ sup'.sig # "taken" \/ ~sup'.exposed => sup.sig # "taken" \/ ~sup.exposed
      BY <1>0, <1>2 DEF SupervisorTypeOK, ContainerInv, AgentSignals
    <3>2. QED BY <1>0, <3>1, SameFrames
  <2>4. QED BY <2>1, <2>2, <2>3 DEF BoxIInv
<1>3. CASE AgentAsks
  <2>1. SupervisorTypeOK'
    <3>1. child' = [child EXCEPT !.asked = TRUE] /\ UNCHANGED <<box, mcp, sup, frames, capture>>
      BY <1>3 DEF AgentAsks
    <3>2. child' \in [at : {"none", "running", "gone"}, sent : BOOLEAN, asked : BOOLEAN,
                  exit : Exits \union {"none"}]
      BY <1>0, <3>1 DEF SupervisorTypeOK
    <3>3. QED BY <1>0, <3>1, <3>2 DEF SupervisorTypeOK
  <2>2. ContainerInv' /\ WitnessInv' /\ StatusInv'
    BY <1>0, <1>3 DEF SupervisorTypeOK, ContainerInv, WitnessInv, StatusInv, AgentAsks
  <2>3. FramesInv'
    <3>1. /\ UNCHANGED <<frames, capture>> /\ sup.pc # "exited" /\ sup'.pc # "exited"
          /\ child.sent => child'.sent
          /\ sup'.sig # "taken" \/ ~sup'.exposed => sup.sig # "taken" \/ ~sup.exposed
      BY <1>0, <1>3 DEF SupervisorTypeOK, ContainerInv, AgentAsks
    <3>2. QED BY <1>0, <3>1, SameFrames
  <2>4. QED BY <2>1, <2>2, <2>3 DEF BoxIInv
<1>4. CASE AgentExits
  <2>1. SupervisorTypeOK'
    <3>1. /\ \E code \in Exits : child' = [child EXCEPT !.at = "gone", !.exit = code]
          /\ UNCHANGED <<box, mcp, sup, frames, capture>>
      BY <1>4 DEF AgentExits
    <3>2. child' \in [at : {"none", "running", "gone"}, sent : BOOLEAN, asked : BOOLEAN,
                  exit : Exits \union {"none"}]
      BY <1>0, <3>1 DEF SupervisorTypeOK
    <3>3. QED BY <1>0, <3>1, <3>2 DEF SupervisorTypeOK
  <2>2. ContainerInv' /\ WitnessInv' /\ StatusInv'
    BY <1>0, <1>4 DEF SupervisorTypeOK, ContainerInv, WitnessInv, StatusInv, AgentExits, Exits
  <2>3. FramesInv'
    <3>1. /\ UNCHANGED <<frames, capture>> /\ sup.pc # "exited" /\ sup'.pc # "exited"
          /\ child.sent => child'.sent
          /\ sup'.sig # "taken" \/ ~sup'.exposed => sup.sig # "taken" \/ ~sup.exposed
      BY <1>0, <1>4 DEF SupervisorTypeOK, ContainerInv, AgentExits
    <3>2. QED BY <1>0, <3>1, SameFrames
  <2>4. QED BY <2>1, <2>2, <2>3 DEF BoxIInv
<1>5. CASE ReadControl
  <2>1. SupervisorTypeOK'
    BY <1>0, <1>5 DEF SupervisorTypeOK, ReadControl
  <2>2. ContainerInv' /\ WitnessInv' /\ StatusInv'
    BY <1>0, <1>5 DEF SupervisorTypeOK, ContainerInv, WitnessInv, StatusInv, ReadControl
  <2>3. FramesInv'
    <3>1. /\ UNCHANGED <<frames, capture>> /\ sup.pc # "exited" /\ sup'.pc # "exited"
          /\ child.sent => child'.sent
          /\ sup'.sig # "taken" \/ ~sup'.exposed => sup.sig # "taken" \/ ~sup.exposed
      BY <1>0, <1>5 DEF SupervisorTypeOK, ContainerInv, ReadControl
    <3>2. QED BY <1>0, <3>1, SameFrames
  <2>4. QED BY <2>1, <2>2, <2>3 DEF BoxIInv
<1>6. CASE WaitAgent
  <2>1. SupervisorTypeOK'
    BY <1>0, <1>6 DEF SupervisorTypeOK, WaitAgent
  <2>2. ContainerInv' /\ WitnessInv' /\ StatusInv'
    BY <1>0, <1>6 DEF SupervisorTypeOK, ContainerInv, WitnessInv, StatusInv, WaitAgent
  <2>3. FramesInv'
    <3>1. /\ UNCHANGED <<frames, capture>> /\ sup.pc # "exited" /\ sup'.pc # "exited"
          /\ child.sent => child'.sent
          /\ sup'.sig # "taken" \/ ~sup'.exposed => sup.sig # "taken" \/ ~sup.exposed
      BY <1>0, <1>6 DEF SupervisorTypeOK, ContainerInv, WaitAgent
    <3>2. QED BY <1>0, <3>1, SameFrames
  <2>4. QED BY <2>1, <2>2, <2>3 DEF BoxIInv
<1>7. CASE Overflow
  <2>1. SupervisorTypeOK'
    BY <1>0, <1>7 DEF SupervisorTypeOK, Overflow, Exits
  <2>2. ContainerInv' /\ WitnessInv' /\ StatusInv'
    BY <1>0, <1>7 DEF SupervisorTypeOK, ContainerInv, WitnessInv, StatusInv, Overflow, Exits
  <2>3. FramesInv'
    <3>1. /\ UNCHANGED <<frames, capture>> /\ sup.pc # "exited" /\ sup'.pc # "exited"
          /\ child.sent => child'.sent
          /\ sup'.sig # "taken" \/ ~sup'.exposed => sup.sig # "taken" \/ ~sup.exposed
      BY <1>0, <1>7 DEF SupervisorTypeOK, ContainerInv, Overflow
    <3>2. QED BY <1>0, <3>1, SameFrames
  <2>4. QED BY <2>1, <2>2, <2>3 DEF BoxIInv
<1>8. CASE LoopTerminated
  <2>1. SupervisorTypeOK'
    BY <1>0, <1>8 DEF SupervisorTypeOK, LoopTerminated, Exits, RunErrors
  <2>2. ContainerInv' /\ WitnessInv' /\ StatusInv'
    BY <1>0, <1>8 DEF SupervisorTypeOK, ContainerInv, WitnessInv, StatusInv, LoopTerminated, Exits
  <2>3. FramesInv'
    <3>1. /\ UNCHANGED <<frames, capture>> /\ sup.pc # "exited" /\ sup'.pc # "exited"
          /\ child.sent => child'.sent
          /\ sup'.sig # "taken" \/ ~sup'.exposed => sup.sig # "taken" \/ ~sup.exposed
      BY <1>0, <1>8 DEF SupervisorTypeOK, ContainerInv, LoopTerminated
    <3>2. QED BY <1>0, <3>1, SameFrames
  <2>4. QED BY <2>1, <2>2, <2>3 DEF BoxIInv
<1>9. CASE LoopBadControl
  <2>1. SupervisorTypeOK'
    BY <1>0, <1>9 DEF SupervisorTypeOK, LoopBadControl, Exits, RunErrors
  <2>2. ContainerInv' /\ WitnessInv' /\ StatusInv'
    BY <1>0, <1>9 DEF SupervisorTypeOK, ContainerInv, WitnessInv, StatusInv, LoopBadControl, Exits
  <2>3. FramesInv'
    <3>1. /\ UNCHANGED <<frames, capture>> /\ sup.pc # "exited" /\ sup'.pc # "exited"
          /\ child.sent => child'.sent
          /\ sup'.sig # "taken" \/ ~sup'.exposed => sup.sig # "taken" \/ ~sup.exposed
      BY <1>0, <1>9 DEF SupervisorTypeOK, ContainerInv, LoopBadControl
    <3>2. QED BY <1>0, <3>1, SameFrames
  <2>4. QED BY <2>1, <2>2, <2>3 DEF BoxIInv
<1>10. CASE LoopAgentGone
  <2>1. SupervisorTypeOK'
    <3> DEFINE e == IF sup.err = "nil" /\ child.exit # "ok" THEN child.exit ELSE sup.err
    <3>1. /\ sup' = [sup EXCEPT !.pc = "late", !.wait = "taken", !.err = e]
          /\ UNCHANGED <<box, mcp, child, frames, capture>>
      BY <1>10 DEF LoopAgentGone
    <3>2. child.exit \in Exits /\ sup.err \in RunErrors
      BY <1>0, <1>10 DEF SupervisorTypeOK, WitnessInv, LoopAgentGone
    <3>3. e \in RunErrors
      BY <3>2 DEF RunErrors
    <3> HIDE DEF e
    <3>4. QED BY <1>0, <3>1, <3>3 DEF SupervisorTypeOK
  <2>2. ContainerInv' /\ WitnessInv' /\ StatusInv'
    BY <1>0, <1>10 DEF SupervisorTypeOK, ContainerInv, WitnessInv, StatusInv, LoopAgentGone, Exits
  <2>3. FramesInv'
    <3>1. /\ UNCHANGED <<frames, capture>> /\ sup.pc # "exited" /\ sup'.pc # "exited"
          /\ child.sent => child'.sent
          /\ sup'.sig # "taken" \/ ~sup'.exposed => sup.sig # "taken" \/ ~sup.exposed
      BY <1>0, <1>10 DEF SupervisorTypeOK, ContainerInv, LoopAgentGone
    <3>2. QED BY <1>0, <3>1, SameFrames
  <2>4. QED BY <2>1, <2>2, <2>3 DEF BoxIInv
<1>11. CASE LoopOverBudget
  <2>1. SupervisorTypeOK'
    BY <1>0, <1>11 DEF SupervisorTypeOK, LoopOverBudget, Exits
  <2>2. ContainerInv' /\ WitnessInv' /\ StatusInv'
    BY <1>0, <1>11 DEF SupervisorTypeOK, ContainerInv, WitnessInv, StatusInv, LoopOverBudget, Exits
  <2>3. FramesInv'
    <3>1. /\ UNCHANGED <<frames, capture>> /\ sup.pc # "exited" /\ sup'.pc # "exited"
          /\ child.sent => child'.sent
          /\ sup'.sig # "taken" \/ ~sup'.exposed => sup.sig # "taken" \/ ~sup.exposed
      BY <1>0, <1>11 DEF SupervisorTypeOK, ContainerInv, LoopOverBudget
    <3>2. QED BY <1>0, <3>1, SameFrames
  <2>4. QED BY <2>1, <2>2, <2>3 DEF BoxIInv
<1>12. CASE SetupFails
  <2>1. Fatal /\ UNCHANGED <<mcp, capture>> /\ box = "running" /\ sup.pc # "exited"
    BY <1>12 DEF SetupFails
  <2>2. QED BY <2>1, FatalKeeps
<1>13. CASE NeverExposed
  <2>1. Fatal /\ UNCHANGED <<mcp, capture>> /\ box = "running" /\ sup.pc # "exited"
    BY <1>13 DEF NeverExposed
  <2>2. QED BY <2>1, FatalKeeps
<1>14. CASE LoopExposure
  <2>1. CASE /\ sup' = [sup EXCEPT !.sig = "taken", !.exposed = TRUE]
             /\ capture' = capture \union {"exposure.marker"}
             /\ frames' = Append(frames, Exposure)
             /\ UNCHANGED <<box, mcp, child>>
    <3>1. box = "running" /\ sup.pc \in {"loop", "late"} /\ sup.sig = "ok"
      BY <1>14 DEF LoopExposure
    <3>2. /\ frames' \in Seq(Frame) /\ Len(frames') <= 3
          /\ FramesInv'
      <4>1. /\ frames \in Seq(Frame) /\ sup'.pc # "exited" /\ sup'.sig = "taken"
            /\ sup'.exposed /\ child'.sent /\ "exposure.marker" \in capture'
        BY <1>0, <2>1, <3>1 DEF SupervisorTypeOK, WitnessInv
      <4>2. QED BY <1>0, <2>1, <3>1, <4>1, FirstFrame
    <3>3. SupervisorTypeOK'
      BY <1>0, <2>1, <3>2 DEF SupervisorTypeOK, Files
    <3>4. ContainerInv' /\ WitnessInv' /\ StatusInv'
      BY <1>0, <2>1, <3>1 DEF SupervisorTypeOK, ContainerInv, WitnessInv, StatusInv
    <3>5. QED BY <3>2, <3>3, <3>4 DEF BoxIInv
  <2>2. CASE /\ sup' = [sup EXCEPT !.sig = "taken", !.exposed = TRUE, !.err = "capture"]
             /\ child' = Killed(child)
             /\ UNCHANGED <<box, mcp, capture, frames>>
    <3>1. box = "running" /\ sup.pc = "loop" /\ sup.sig = "ok"
      BY <1>14 DEF LoopExposure
    <3>2. SupervisorTypeOK'
      BY <1>0, <2>2, ZenonT(60) DEF SupervisorTypeOK, Exits, RunErrors
    <3>3. ContainerInv' /\ WitnessInv' /\ StatusInv'
      BY <1>0, <2>2, <3>1 DEF SupervisorTypeOK, ContainerInv, WitnessInv, StatusInv
    <3>4. FramesInv'
      <4>1. Len(frames) = 0 /\ sup'.pc = "loop"
        BY <1>0, <2>2, <3>1 DEF SupervisorTypeOK, FramesInv
      <4>2. QED BY <2>2, <4>1 DEF FramesInv
    <3>5. QED BY <3>2, <3>3, <3>4 DEF BoxIInv
  <2>3. QED BY <1>14, <2>1, <2>2 DEF LoopExposure
<1>15. CASE LateExposure
  <2>1. CASE /\ sup' = [sup EXCEPT !.sig = "taken", !.exposed = TRUE]
             /\ capture' = capture \union {"exposure.marker"}
             /\ frames' = Append(frames, Exposure)
             /\ UNCHANGED <<box, mcp, child>>
    <3>1. box = "running" /\ sup.pc \in {"loop", "late"} /\ sup.sig = "ok"
      BY <1>15 DEF LateExposure
    <3>2. /\ frames' \in Seq(Frame) /\ Len(frames') <= 3
          /\ FramesInv'
      <4>1. /\ frames \in Seq(Frame) /\ sup'.pc # "exited" /\ sup'.sig = "taken"
            /\ sup'.exposed /\ child'.sent /\ "exposure.marker" \in capture'
        BY <1>0, <2>1, <3>1 DEF SupervisorTypeOK, WitnessInv
      <4>2. QED BY <1>0, <2>1, <3>1, <4>1, FirstFrame
    <3>3. SupervisorTypeOK'
      BY <1>0, <2>1, <3>2 DEF SupervisorTypeOK, Files
    <3>4. ContainerInv' /\ WitnessInv' /\ StatusInv'
      BY <1>0, <2>1, <3>1 DEF SupervisorTypeOK, ContainerInv, WitnessInv, StatusInv
    <3>5. QED BY <3>2, <3>3, <3>4 DEF BoxIInv
  <2>2. CASE Fatal /\ UNCHANGED <<capture, mcp>>
    <3>1. box = "running" /\ sup.pc # "exited"
      BY <1>15 DEF LateExposure
    <3>2. QED BY <2>2, <3>1, FatalKeeps
  <2>3. QED BY <1>15, <2>1, <2>2 DEF LateExposure
<1>16. CASE ReportEvents
  <2>1. Status \in Statuses /\ (Status = "completed" => sup.err = "nil" /\ ~sup.over)
    BY DEF Status, Statuses
  <2>2. /\ sup.exposed /\ Export("late", "diagnostics", Status, {"events.jsonl"}, IfFaults({{}}))
        /\ IfFaults({{}}) \in SUBSET SUBSET Files
    BY <1>16 DEF ReportEvents, IfFaults
  <2>3. QED BY <2>1, <2>2, ExportKeeps DEF Files
<1>17. CASE ReportDiagnostics
  <2>1. /\ Export("diagnostics", "workspace", sup.status, {"diagnostics"}, {{}})
        /\ sup.pc = "diagnostics"
    BY <1>17 DEF ReportDiagnostics, Export
  <2>2. /\ sup.exposed /\ sup.status \in Statuses
        /\ sup.status = "completed" => sup.err = "nil" /\ ~sup.over
    BY <1>0, <2>1 DEF StatusInv, SupervisorTypeOK
  <2>3. QED BY <2>1, <2>2, ExportKeeps DEF Files
<1>18. CASE ReportWorkspace
  <2>1. \E files \in SUBSET Files, partial \in SUBSET SUBSET Files :
          Export("workspace", "terminal", sup.status, files, partial)
    BY <1>18 DEF ReportWorkspace, Files, IfFaults
  <2>2. sup.pc = "workspace"
    BY <1>18 DEF ReportWorkspace, Export
  <2>3. /\ sup.exposed /\ sup.status \in Statuses
        /\ sup.status = "completed" => sup.err = "nil" /\ ~sup.over
    BY <1>0, <2>2 DEF StatusInv, SupervisorTypeOK
  <2>4. QED BY <2>1, <2>3, ExportKeeps
<1>19. CASE ReportTerminal
  <2>1. PICK stopFails \in BOOLEAN, stray \in BOOLEAN :
          Exit(<<Terminal(TRUE, IF stopFails /\ sup.err = "nil" THEN "mcp-failure"
                                ELSE sup.status)>>
               \o (IF stray THEN <<Stray>> ELSE <<>>))
    BY <1>19 DEF ReportTerminal
  <2>2. box = "running" /\ sup.pc = "terminal" /\ UNCHANGED <<mcp, capture>>
    BY <1>19 DEF ReportTerminal
  <2>3. /\ sup.status \in Statuses /\ child.at = "gone"
        /\ sup.status = "completed" => child.exit = "ok" /\ ~sup.over
    BY <1>0, <2>2 DEF StatusInv, WitnessInv, SupervisorTypeOK
  <2> DEFINE status == IF stopFails /\ sup.err = "nil" THEN "mcp-failure" ELSE sup.status
             tail == IF stray THEN <<Stray>> ELSE <<>>
             last == <<Terminal(TRUE, status)>> \o tail
  <2>4. status \in Statuses /\ (status = "completed" => sup.status = "completed")
    BY <2>3 DEF Statuses
  <2>5. tail \in Seq(Frame) /\ Len(tail) \in 0..1 /\ \A k \in 1..Len(tail) : tail[k] = Stray
    BY FrameFacts
  <2>6. Exit(last)
    BY <2>1
  <2> HIDE DEF status, tail
  <2>7. <<Terminal(TRUE, status)>> \in Seq(Frame) /\ Len(<<Terminal(TRUE, status)>>) = 1
    <3>1. Terminal(TRUE, status) \in Frame
      BY <2>4, FrameFacts
    <3>2. QED BY <3>1, OneFrame
  <2>8. /\ last \in Seq(Frame) /\ Len(last) = 1 + Len(tail)
        /\ last[1] = Terminal(TRUE, status)
        /\ \A k \in 1..Len(last) : k > 1 => last[k] = Stray
    <3> DEFINE first == <<Terminal(TRUE, status)>>
    <3>1. first \in Seq(Frame) /\ Len(first) = 1 /\ first[1] = Terminal(TRUE, status)
      BY <2>7
    <3> HIDE DEF first
    <3>2. /\ first \o tail \in Seq(Frame) /\ Len(first \o tail) = 1 + Len(tail)
          /\ (first \o tail)[1] = Terminal(TRUE, status)
          /\ \A k \in 1..Len(first \o tail) : k > 1 => (first \o tail)[k] = Stray
      <4>1. Len(first) + Len(tail) = 1 + Len(tail) /\ Len(tail) \in Nat
        BY <2>5, <3>1
      <4>2. /\ first \o tail \in Seq(Frame) /\ Len(first \o tail) = 1 + Len(tail)
            /\ \A k \in 1..(1 + Len(tail)) :
                 (first \o tail)[k] = IF k <= 1 THEN first[k] ELSE tail[k - 1]
        BY <2>5, <3>1, <4>1, ConcatProperties
      <4>3. (first \o tail)[1] = first[1]
        BY <4>1, <4>2
      <4>4. ASSUME NEW k \in 1..(1 + Len(tail)), k > 1
            PROVE  (first \o tail)[k] = Stray
        <5>1. k - 1 \in 1..Len(tail) /\ (first \o tail)[k] = tail[k - 1]
          BY <4>1, <4>2, <4>4
        <5>2. QED BY <2>5, <5>1
      <4>5. QED BY <3>1, <4>2, <4>3, <4>4
    <3>3. QED BY <3>2 DEF first
  <2> HIDE DEF last
  <2>9. ASSUME NEW k \in 1..Len(last)
        PROVE  /\ last[k].type # "exposure"
               /\ last[k].type = "terminal" /\ last[k].status = "completed" =>
                    status = "completed"
    <3>1. CASE k = 1
      BY <2>8, <3>1 DEF Terminal
    <3>2. CASE k > 1
      BY <2>8, <3>2 DEF Stray
    <3>3. QED BY <3>1, <3>2
  <2>10. Len(last) \in 1..2
    BY <2>5, <2>8
  <2>11. QED BY <1>0, <2>2, <2>3, <2>4, <2>6, <2>8, <2>9, <2>10, ExitKeeps
<1>20. QED
  BY <1>1, <1>2, <1>3, <1>4, <1>5, <1>6, <1>7, <1>8, <1>9, <1>10, <1>11, <1>12, <1>13, <1>14, <1>15, <1>16, <1>17, <1>18, <1>19
  DEF AgentStep, SupervisorStep

\* What the host may rely on while the container runs: nothing it was shown is
\* taken back.
LEMMA BoxGrows ==
  ASSUME BoxIInv, AgentStep \/ SupervisorStep
  PROVE  /\ box = "running" /\ capture \subseteq capture'
         /\ child.sent => child'.sent
         /\ Len(frames) <= Len(frames')
         /\ \A k \in 1..Len(frames) : frames'[k] = frames[k]
<1>0. SupervisorTypeOK /\ frames \in Seq(Frame)
  BY DEF BoxIInv, SupervisorTypeOK
<1>1. box = "running"
  BY DEF AgentStep, AgentSignals, AgentAsks, AgentExits, AgentRuns, SupervisorStep,
         SetupFails, StartAgent, ReadControl, WaitAgent, Overflow, LoopTerminated,
         LoopBadControl, LoopExposure, LoopAgentGone, LoopOverBudget, LateExposure,
         NeverExposed, ReportEvents, ReportDiagnostics, ReportWorkspace, ReportTerminal,
         Export, Running, Supervising
<1>2. capture \subseteq capture'
  BY DEF AgentStep, AgentSignals, AgentAsks, AgentExits, SupervisorStep,
         SetupFails, StartAgent, ReadControl, WaitAgent, Overflow, LoopTerminated,
         LoopBadControl, LoopExposure, LoopAgentGone, LoopOverBudget, LateExposure,
         NeverExposed, ReportEvents, ReportDiagnostics, ReportWorkspace, ReportTerminal,
         Export, Fatal, Exit
<1>3. child.sent => child'.sent
  <2>1. \/ child' \in {child, Killed(child), [child EXCEPT !.sent = TRUE],
                       [child EXCEPT !.asked = TRUE], [child EXCEPT !.at = "running"]}
        \/ \E code \in Exits : child' = [child EXCEPT !.at = "gone", !.exit = code]
    BY DEF AgentStep, AgentSignals, AgentAsks, AgentExits, SupervisorStep,
           SetupFails, StartAgent, ReadControl, WaitAgent, Overflow, LoopTerminated,
           LoopBadControl, LoopExposure, LoopAgentGone, LoopOverBudget, LateExposure,
           NeverExposed, ReportEvents, ReportDiagnostics, ReportWorkspace, ReportTerminal,
           Export, Fatal, Exit
  <2>2. QED BY <1>0, <2>1 DEF SupervisorTypeOK, Killed
<1>4. /\ Len(frames) <= Len(frames')
      /\ \A k \in 1..Len(frames) : frames'[k] = frames[k]
  <2>1. \/ frames' = frames
        \/ frames' = Append(frames, Exposure)
        \/ Fatal
        \/ ReportTerminal
    BY DEF AgentStep, AgentSignals, AgentAsks, AgentExits, SupervisorStep,
           SetupFails, StartAgent, ReadControl, WaitAgent, Overflow, LoopTerminated,
           LoopBadControl, LoopExposure, LoopAgentGone, LoopOverBudget, LateExposure,
           NeverExposed, ReportEvents, ReportDiagnostics, ReportWorkspace, Export
  <2>2. CASE frames' = frames
    BY <1>0, <2>2
  <2>3. CASE frames' = Append(frames, Exposure)
    BY <1>0, <2>3, FrameFacts
  <2>4. CASE \E last \in Seq(Frame) : frames' = frames \o last
    BY <1>0, <2>4, ConcatProperties
  <2>5. CASE Fatal
    <3>1. Terminal(FALSE, "environment-failure") \in Frame
      BY FrameFacts DEF Statuses
    <3>2. QED BY <2>4, <2>5, <3>1, OneFrame DEF Fatal, Exit
  <2>6. CASE ReportTerminal
    <3>1. PICK stopFails \in BOOLEAN, stray \in BOOLEAN :
            /\ sup.pc = "terminal"
            /\ Exit(<<Terminal(TRUE, IF stopFails /\ sup.err = "nil" THEN "mcp-failure"
                                     ELSE sup.status)>>
                    \o (IF stray THEN <<Stray>> ELSE <<>>))
      BY <2>6 DEF ReportTerminal, Running
    <3> DEFINE status == IF stopFails /\ sup.err = "nil" THEN "mcp-failure" ELSE sup.status
               tail == IF stray THEN <<Stray>> ELSE <<>>
    <3>2. status \in Statuses
      BY <1>0, <3>1 DEF BoxIInv, StatusInv, SupervisorTypeOK, Reporting, Statuses
    <3>3. Exit(<<Terminal(TRUE, status)>> \o tail)
      BY <3>1
    <3>4. tail \in Seq(Frame)
      BY FrameFacts
    <3> HIDE DEF status, tail
    <3>5. <<Terminal(TRUE, status)>> \in Seq(Frame)
      BY <3>2, FrameFacts, OneFrame
    <3>6. <<Terminal(TRUE, status)>> \o tail \in Seq(Frame)
      BY <3>4, <3>5, ConcatProperties
    <3>7. QED BY <2>4, <3>3, <3>6 DEF Exit
  <2>7. QED BY <2>1, <2>2, <2>3, <2>5, <2>6
<1>5. QED BY <1>1, <1>2, <1>3, <1>4

-----------------------------------------------------------------------------
(* The frames the host makes its verdict of.                                *)

LEMMA MaxOfFew ==
  ASSUME NEW S \in SUBSET (0..3), S # {}
  PROVE  Max(S) \in S
<1>1. \E x \in S : \A y \in S : x >= y
  <2>1. CASE 3 \in S
    BY <2>1
  <2>2. CASE 3 \notin S /\ 2 \in S
    BY <2>2
  <2>3. CASE 3 \notin S /\ 2 \notin S /\ 1 \in S
    BY <2>3
  <2>4. CASE 3 \notin S /\ 2 \notin S /\ 1 \notin S
    <3>1. \A y \in S : y = 0
      BY <2>4
    <3>2. 0 \in S
      BY <3>1
    <3>3. QED BY <3>1, <3>2
  <2>5. QED BY <2>1, <2>2, <2>3, <2>4
<1>2. QED BY <1>1 DEF Max

LEMMA FewFrames ==
  ASSUME NEW read \in Seq(Frame), Len(read) <= 3
  PROVE  Len(read) \in Nat /\ Len(read) \in 0..3
<1>1. Len(read) \in Nat
  OBVIOUS
<1> DEFINE n == Len(read)
<1> HIDE DEF n
<1>2. n \in Nat /\ n <= 3
  BY <1>1 DEF n
<1>3. n \in 0..3
  BY <1>2
<1>4. QED BY <1>1, <1>3 DEF n

\* What parseControl accepts is what the container sent, up to some frame.
LEMMA KeptIsPrefix ==
  ASSUME NEW read \in Seq(Frame), Len(read) <= 3
  PROVE  /\ Kept(read) \in Seq(Frame) /\ Len(Kept(read)) <= Len(read)
         /\ \A k \in 1..Len(Kept(read)) : Kept(read)[k] = read[k]
<1> DEFINE good(n) == \A i \in 1..n : Accepts(SubSeq(read, 1, i - 1), read[i])
           N == {n \in 0..Len(read) : good(n)}
<1>0. Len(read) \in Nat /\ Len(read) \in 0..3
  BY FewFrames
<1>1. 0 \in N
  BY <1>0
<1>2. N \subseteq 0..3
  BY <1>0
<1>3. Kept(read) = SubSeq(read, 1, Max(N))
  BY DEF Kept
<1> HIDE DEF N
<1>4. Max(N) \in N
  BY <1>1, <1>2, MaxOfFew
<1>5. Max(N) \in 0..Len(read)
  BY <1>4 DEF N
<1> DEFINE m == Max(N)
<1> HIDE DEF m
<1>6. m \in 0..Len(read) /\ Kept(read) = SubSeq(read, 1, m)
  BY <1>3, <1>5 DEF m
<1>7. \A i \in 1..m : read[i] \in Frame
  BY <1>0, <1>6
<1>8. /\ SubSeq(read, 1, m) \in Seq(Frame) /\ Len(SubSeq(read, 1, m)) = m
      /\ \A i \in 1..m : SubSeq(read, 1, m)[i] = read[i]
  BY <1>0, <1>6, <1>7, SubSeqProperties
<1>9. QED BY <1>0, <1>6, <1>8

\* A verdict says of the attempt what some frame says.
LEMMA VerdictOfFrames ==
  ASSUME NEW read \in Seq(Frame), Len(read) <= 3
  PROVE  /\ Verdict(read) \in [protocol : {"none", "ok", "bad"}, exposed : BOOLEAN,
                               status : Statuses]
         /\ Verdict(read).exposed => \E k \in 1..Len(read) : read[k].type = "exposure"
         /\ Verdict(read).status = "completed" =>
              \E k \in 1..Len(read) : read[k].type = "terminal" /\ read[k].status = "completed"
<1> DEFINE kept == Kept(read)
           exposed == \E i \in DOMAIN kept : kept[i].type = "exposure"
           ends    == {i \in DOMAIN kept : kept[i].type = "terminal"}
           status  == CASE Expired /\ exposed -> "agent-timeout"
                        [] ~(Expired /\ exposed) /\ ends # {} -> kept[Max(ends)].status
                        [] OTHER -> "environment-failure"
           ok == IF ProtocolOk(read) THEN "ok" ELSE "bad"
<1>1. Verdict(read) = [protocol |-> ok, exposed |-> exposed, status |-> status]
  BY DEF Verdict
<1>2. /\ kept \in Seq(Frame) /\ Len(kept) <= Len(read)
      /\ \A k \in 1..Len(kept) : kept[k] = read[k]
  BY KeptIsPrefix
<1> HIDE DEF kept
<1>3. DOMAIN kept = 1..Len(kept) /\ Len(kept) \in 0..3
  <2>1. DOMAIN kept = 1..Len(kept)
    BY <1>2
  <2>2. Len(kept) \in Nat /\ Len(kept) <= 3
    BY <1>2, FewFrames
  <2>3. QED BY <2>1, <2>2
<1>4. exposed => \E k \in 1..Len(read) : read[k].type = "exposure"
  BY <1>2, <1>3
<1>5. \A f \in Frame : f.type = "terminal" => f.status \in Statuses
  BY DEF Frame, Exposure, Stray, Terminal
<1>6. ASSUME ends # {}
      PROVE  Max(ends) \in 1..Len(kept) /\ kept[Max(ends)].type = "terminal"
  <2>1. ends \in SUBSET (0..3)
    BY <1>3
  <2>2. Max(ends) \in ends
    BY <1>6, <2>1, MaxOfFew
  <2>3. QED BY <1>3, <2>2
<1>7. /\ status \in Statuses
      /\ status = "completed" =>
           \E k \in 1..Len(read) : read[k].type = "terminal" /\ read[k].status = "completed"
  <2>1. CASE ends # {}
    <3>1. /\ Max(ends) \in 1..Len(read) /\ read[Max(ends)].type = "terminal"
          /\ kept[Max(ends)].status = read[Max(ends)].status
          /\ read[Max(ends)].status \in Statuses
      <4>1. Max(ends) \in 1..Len(read)
        BY <1>2, <1>3, <1>6, <2>1
      <4>2. kept[Max(ends)] = read[Max(ends)] /\ read[Max(ends)] \in Frame
        BY <1>2, <1>3, <1>6, <2>1, <4>1
      <4>3. QED BY <1>5, <1>6, <2>1, <4>1, <4>2
    <3> DEFINE last == Max(ends)
    <3> HIDE DEF last
    <3>2. status = "agent-timeout" \/ status = read[last].status
      BY <2>1, <3>1 DEF last
    <3>3. last \in 1..Len(read) /\ read[last].type = "terminal" /\ read[last].status \in Statuses
      BY <3>1 DEF last
    <3> HIDE DEF status
    <3>4. QED BY <3>2, <3>3 DEF Statuses
  <2>2. CASE ends = {}
    BY <2>2 DEF Statuses
  <2>3. QED BY <2>1, <2>2
<1>8. QED
  <2> HIDE DEF exposed, status, ok
  <2>1. ok \in {"none", "ok", "bad"}
    BY DEF ok
  <2>2. exposed \in BOOLEAN
    BY DEF exposed
  <2>3. QED BY <1>1, <1>4, <1>7, <2>1, <2>2

-----------------------------------------------------------------------------
(* What the container runtime does.                                         *)

LEMMA SameBox ==
  ASSUME BoxIInv, UNCHANGED boxVars
  PROVE  BoxIInv'
BY DEF BoxIInv, boxVars, SupervisorTypeOK, ContainerInv, WitnessInv, StatusInv, FramesInv

LEMMA StartKeeps ==
  ASSUME BoxIInv, box = "none", BoxStarts
  PROVE  BoxIInv'
BY DEF BoxIInv, BoxStarts, SupervisorTypeOK, ContainerInv, WitnessInv, StatusInv, FramesInv

LEMMA TermKeeps ==
  ASSUME BoxIInv, BoxTerm
  PROVE  BoxIInv'
<1>0. SupervisorTypeOK /\ ContainerInv /\ WitnessInv /\ StatusInv /\ FramesInv
  BY DEF BoxIInv
<1>1. /\ UNCHANGED <<box, mcp, child, frames, capture>>
      /\ \E term \in {"no", "pending", "seen"} : sup' = [sup EXCEPT !.term = term]
  BY <1>0 DEF BoxTerm, SupervisorTypeOK
<1>2. SupervisorTypeOK'
  BY <1>0, <1>1 DEF SupervisorTypeOK
<1>3. /\ sup'.pc = sup.pc /\ sup'.sig = sup.sig /\ sup'.wait = sup.wait
      /\ sup'.exposed = sup.exposed /\ sup'.over = sup.over /\ sup'.err = sup.err
      /\ sup'.status = sup.status
  BY <1>0, <1>1 DEF SupervisorTypeOK
<1>4. ContainerInv' /\ WitnessInv' /\ StatusInv' /\ FramesInv'
  BY <1>0, <1>1, <1>3 DEF ContainerInv, WitnessInv, StatusInv, FramesInv, Reporting
<1>5. QED BY <1>2, <1>4 DEF BoxIInv

LEMMA EndKeeps ==
  ASSUME BoxIInv, NEW state \in {"stopped", "removed"}, BoxEnds(state)
  PROVE  /\ BoxIInv'
         /\ child'.sent = child.sent
<1>0. SupervisorTypeOK /\ ContainerInv /\ WitnessInv /\ StatusInv /\ FramesInv
  BY DEF BoxIInv
<1>1. box' = state /\ child' = Killed(child) /\ UNCHANGED <<mcp, sup, frames, capture>>
  BY DEF BoxEnds
<1>2. /\ child'.sent = child.sent
      /\ child'.asked = child.asked
      /\ child.at # "running" => child' = child
      /\ child.at = "running" => child'.at = "gone" /\ child'.exit = "killed"
  BY <1>0, <1>1 DEF SupervisorTypeOK, Killed
<1>3. SupervisorTypeOK'
  <2>1. child' \in [at : {"none", "running", "gone"}, sent : BOOLEAN, asked : BOOLEAN,
                    exit : Exits \union {"none"}]
    BY <1>0, <1>1 DEF SupervisorTypeOK, Killed, Exits
  <2>2. QED BY <1>0, <1>1, <2>1 DEF SupervisorTypeOK
<1>4. ContainerInv' /\ WitnessInv'
  BY <1>0, <1>1, <1>2 DEF SupervisorTypeOK, ContainerInv, WitnessInv
<1>5. StatusInv'
  BY <1>0, <1>1, <1>2 DEF StatusInv, WitnessInv, Reporting
<1>6. FramesInv'
  BY <1>0, <1>1, <1>2 DEF FramesInv, ContainerInv
<1>7. QED BY <1>2, <1>3, <1>4, <1>5, <1>6 DEF BoxIInv

-----------------------------------------------------------------------------
(* The host.                                                                *)

\* Nothing is said of the outcome of an attempt that goes on.
LEMMA NotDone ==
  ASSUME StageInv', pc' # "done"
  PROVE  CompletedIsEarned' /\ ExposureIsGraded' /\ RecordsAgree' /\ LeftoversAreReported'
BY DEF StageInv, CompletedIsEarned, ExposureIsGraded, RecordsAgree, LeftoversAreReported

LEMMA ContainerSteps ==
  ASSUME IInv, Box
  PROVE  IInv'
<1>0. BoxIInv /\ HostIInv /\ (AgentStep \/ SupervisorStep) /\ UNCHANGED hostVars
  BY DEF IInv, Box
<1>1. BoxIInv' /\ SupervisorTypeOK' /\ SupervisorTypeOK
  BY <1>0, BoxSteps DEF BoxIInv
<1>2. /\ box = "running" /\ capture \subseteq capture'
      /\ child.sent => child'.sent
      /\ Len(frames) <= Len(frames')
      /\ \A k \in 1..Len(frames) : frames'[k] = frames[k]
  BY <1>0, BoxGrows
<1>3. /\ Len(frames) \in Nat /\ Len(frames') \in Nat
  BY <1>1 DEF SupervisorTypeOK
<1>4. TypeOK'
  BY <1>0, <1>1, <1>2, <1>3 DEF HostIInv, TypeOK, hostVars
<1>5. StageInv' /\ pc \notin {"capture", "record"}
  BY <1>0, <1>2 DEF HostIInv, StageInv, hostVars, Absent
<1>6. VerdictInv'
  BY <1>0, <1>2, <1>3, <1>5 DEF HostIInv, VerdictInv, hostVars
<1>7. CompletedIsEarned' /\ ExposureIsGraded' /\ RecordsAgree' /\ LeftoversAreReported'
  BY <1>0, <1>2 DEF HostIInv, CompletedIsEarned, ExposureIsGraded, RecordsAgree,
     LeftoversAreReported, hostVars, Absent, Expired
<1>8. QED BY <1>1, <1>4, <1>5, <1>6, <1>7 DEF IInv, HostIInv

\* The steps before the verdict: they leave the records alone.
LEMMA EarlySteps ==
  ASSUME IInv,
         \/ Deadline \/ Cancel \/ Cli \/ Prepare \/ CreateVolume \/ StartRun \/ Waited
         \/ Interrupted \/ Stop \/ Stopped \/ Drain
  PROVE  IInv'
<1>0. BoxIInv /\ SupervisorTypeOK /\ HostIInv
  BY DEF IInv, BoxIInv
<1>1. TypeOK /\ StageInv /\ VerdictInv /\ Len(frames) \in Nat
  BY <1>0 DEF HostIInv, SupervisorTypeOK
<1>2. CASE Deadline \/ Cancel
  <2>1. UNCHANGED boxVars /\ UNCHANGED <<pc, cli, got, vols, verdict, execution, diskFailed, outcome, result>>
        /\ ctx' \in {"deadline", "canceled"} /\ pc # "done"
    BY <1>2 DEF Deadline, Cancel
  <2>2. BoxIInv'
    BY <1>0, <2>1, SameBox
  <2>3. TypeOK' /\ StageInv' /\ VerdictInv'
    BY <1>1, <2>1, <2>2 DEF TypeOK, StageInv, VerdictInv, boxVars, BoxIInv, Absent
  <2>4. QED BY <2>1, <2>2, <2>3, NotDone DEF IInv, HostIInv
<1>3. CASE CliCreates
  <2>1. BoxIInv'
    BY <1>0, <1>3, StartKeeps DEF CliCreates
  <2>2. TypeOK' /\ StageInv' /\ VerdictInv' /\ pc' # "done"
    BY <1>1, <1>3, <2>1 DEF CliCreates, BoxStarts, hostVars, TypeOK, StageInv, VerdictInv, BoxIInv, Absent
  <2>3. QED BY <2>1, <2>2, NotDone DEF IInv, HostIInv
<1>4. CASE CliEnds
  <2>1. BoxIInv'
    BY <1>0, <1>4, SameBox DEF CliEnds
  <2>2. got' \in 0..Len(frames)
    BY <1>1, <1>4 DEF CliEnds
  <2>3. TypeOK' /\ StageInv' /\ VerdictInv' /\ pc' # "done"
    BY <1>1, <1>4, <2>1, <2>2 DEF CliEnds, TypeOK, StageInv, VerdictInv, boxVars, BoxIInv, Absent
  <2>4. QED BY <2>1, <2>3, NotDone DEF IInv, HostIInv
<1>5. CASE Waited \/ Interrupted \/ StartRun
  <2>1. BoxIInv'
    BY <1>0, <1>5, SameBox DEF Waited, Interrupted, StartRun
  <2>2. TypeOK' /\ StageInv' /\ VerdictInv' /\ pc' # "done"
    BY <1>1, <1>5, <2>1 DEF Waited, Interrupted, StartRun, TypeOK, StageInv, VerdictInv, boxVars, BoxIInv, Absent
  <2>3. QED BY <2>1, <2>2, NotDone DEF IInv, HostIInv
<1>6. CASE Drain
  <2>1. BoxIInv'
    BY <1>0, <1>6, SameBox DEF Drain
  <2>2. got' \in 0..Len(frames)
    BY <1>1, <1>6 DEF Drain, TypeOK
  <2>3. TypeOK' /\ StageInv' /\ VerdictInv' /\ pc' # "done"
    BY <1>1, <1>6, <2>1, <2>2 DEF Drain, TypeOK, StageInv, VerdictInv, boxVars, BoxIInv, Absent
  <2>4. QED BY <2>1, <2>3, NotDone DEF IInv, HostIInv
<1>7. CASE Stop
  <2>1. BoxIInv'
    BY <1>0, <1>7, SameBox, TermKeeps DEF Stop
  <2>2. UNCHANGED <<box, frames, capture>>
    BY <1>7 DEF Stop, boxVars, BoxTerm
  <2>3. TypeOK' /\ StageInv' /\ VerdictInv' /\ pc' # "done"
    BY <1>1, <1>7, <2>1, <2>2 DEF Stop, TypeOK, StageInv, VerdictInv, BoxIInv, Absent
  <2>4. QED BY <2>1, <2>3, NotDone DEF IInv, HostIInv
<1>8. CASE Stopped
  <2>1. BoxIInv'
    BY <1>0, <1>8, SameBox, EndKeeps DEF Stopped
  <2>2. UNCHANGED <<frames, capture>> /\ (box' = box \/ box = "running")
    BY <1>8 DEF Stopped, boxVars, BoxEnds
  <2>3. TypeOK' /\ StageInv' /\ VerdictInv' /\ pc' # "done"
    BY <1>1, <1>8, <2>1, <2>2 DEF Stopped, TypeOK, StageInv, VerdictInv, BoxIInv, Absent
  <2>4. QED BY <2>1, <2>3, NotDone DEF IInv, HostIInv
<1>9. CASE Prepare
  <2>1. BoxIInv'
    BY <1>0, <1>9, SameBox DEF Prepare
  <2>2. TypeOK' /\ StageInv' /\ VerdictInv'
    BY <1>1, <1>9, <2>1 DEF Prepare, TypeOK, StageInv, VerdictInv, boxVars, BoxIInv, Absent
  <2>3. CompletedIsEarned' /\ ExposureIsGraded' /\ RecordsAgree' /\ LeftoversAreReported'
    BY <1>1, <1>9, <2>2, NotDone DEF Prepare, VerdictInv, StageInv, CompletedIsEarned, ExposureIsGraded,
       RecordsAgree, LeftoversAreReported
  <2>4. QED BY <2>1, <2>2, <2>3 DEF IInv, HostIInv
<1>10. CASE CreateVolume
  <2>1. BoxIInv'
    BY <1>0, <1>10, SameBox DEF CreateVolume
  <2>2. vols' \subseteq Volumes
    BY <1>1, <1>10 DEF CreateVolume, TypeOK, Volumes
  <2>3. TypeOK' /\ StageInv' /\ VerdictInv'
    BY <1>1, <1>10, <2>1, <2>2 DEF CreateVolume, TypeOK, StageInv, VerdictInv, boxVars, BoxIInv, Absent
  <2>4. CompletedIsEarned' /\ ExposureIsGraded' /\ RecordsAgree' /\ LeftoversAreReported'
    <3>1. CASE pc' # "done"
      BY <2>3, <3>1, NotDone
    <3>2. CASE pc' = "done"
      <4>1. result' = "failed" /\ outcome' = "none" /\ ~verdict'.exposed
        BY <1>1, <1>10, <3>2 DEF CreateVolume, VerdictInv, StageInv
      <4>2. QED BY <4>1 DEF CompletedIsEarned, ExposureIsGraded, RecordsAgree, LeftoversAreReported
    <3>3. QED BY <3>1, <3>2
  <2>5. QED BY <2>1, <2>3, <2>4 DEF IInv, HostIInv
<1>11. QED
  BY <1>2, <1>3, <1>4, <1>5, <1>6, <1>7, <1>8, <1>9, <1>10 DEF Cli

\* What a verdict claims, the container and the agent have done.
LEMMA ClaimsHold ==
  ASSUME IInv
  PROVE  /\ verdict.exposed => child.sent /\ "exposure.marker" \in capture
         /\ verdict.status = "completed" => child.asked /\ child.exit = "ok" /\ ~sup.over
BY DEF IInv, BoxIInv, HostIInv, FramesInv, VerdictInv

LEMMA ClassifyStep ==
  ASSUME IInv, Classify
  PROVE  IInv'
<1>0. BoxIInv /\ SupervisorTypeOK /\ TypeOK /\ StageInv /\ VerdictInv
  BY DEF IInv, BoxIInv, HostIInv
<1>1. frames \in Seq(Frame) /\ Len(frames) \in Nat /\ Len(frames) <= 3 /\ got \in 0..Len(frames)
  BY <1>0 DEF SupervisorTypeOK, TypeOK
<1> DEFINE read == SubSeq(frames, 1, got)
<1>2. read \in Seq(Frame) /\ Len(read) = got /\ \A k \in 1..got : read[k] = frames[k]
  BY <1>1, SubSeqProperties
<1>3. Len(read) <= 3
  BY <1>1, <1>2
<1>4. verdict' = Verdict(read) /\ pc = "classify" /\ pc' = "cleanup"
      /\ UNCHANGED <<boxVars, ctx, cli, got, vols, execution, diskFailed, outcome, result>>
  BY DEF Classify
<1> HIDE DEF read
<1>5. /\ verdict' \in [protocol : {"none", "ok", "bad"}, exposed : BOOLEAN, status : Statuses]
      /\ verdict'.exposed => \E k \in 1..Len(frames) : frames[k].type = "exposure"
      /\ verdict'.status = "completed" =>
           \E k \in 1..Len(frames) : frames[k].type = "terminal" /\ frames[k].status = "completed"
  BY <1>1, <1>2, <1>3, <1>4, VerdictOfFrames, SMTT(30)
<1>6. BoxIInv'
  BY <1>0, <1>4, SameBox
<1>7. verdict'.status # "none"
  BY <1>5 DEF Statuses
<1>8. TypeOK' /\ StageInv' /\ VerdictInv'
  BY <1>0, <1>4, <1>5, <1>6, <1>7 DEF TypeOK, StageInv, VerdictInv, BoxIInv, boxVars, Absent
<1>9. QED BY <1>4, <1>6, <1>8, NotDone DEF IInv, HostIInv

LEMMA CleanupStep ==
  ASSUME IInv, Cleanup
  PROVE  IInv'
<1>0. /\ BoxIInv /\ SupervisorTypeOK /\ TypeOK /\ StageInv /\ VerdictInv
      /\ pc = "cleanup" /\ UNCHANGED <<ctx, cli, got>>
      /\ cli # "running" /\ result = "none" /\ outcome = "none"
  BY DEF IInv, BoxIInv, HostIInv, Cleanup, StageInv
<1>1. CASE /\ CleanupOk
           /\ pc' = "capture" /\ UNCHANGED <<verdict, execution, diskFailed, outcome, result>>
  <2>1. BoxIInv' /\ Absent'
    <3>1. CASE Absent /\ UNCHANGED boxVars
      BY <1>0, <3>1, SameBox DEF Absent, boxVars
    <3>2. CASE BoxEnds("removed")
      BY <1>0, <3>2, EndKeeps DEF BoxEnds, Absent
    <3>3. QED BY <1>1, <3>1, <3>2 DEF CleanupOk
  <2>2. UNCHANGED <<frames, capture>> /\ (box = "none" => box' = "none") /\ vols' = {}
        /\ (box' = "none" => box = "none")
    BY <1>1 DEF CleanupOk, boxVars, BoxEnds, Absent
  <2>3. TypeOK' /\ StageInv' /\ VerdictInv'
    BY <1>0, <1>1, <2>1, <2>2 DEF TypeOK, StageInv, VerdictInv, BoxIInv, Absent
  <2>4. QED BY <1>1, <2>1, <2>3, NotDone DEF IInv, HostIInv
<1>2. CASE /\ CleanupFails
           /\ verdict' = [verdict EXCEPT !.status = "environment-failure"]
           /\ RecordExecution("environment-failure")
           /\ pc' = "done"
           /\ IF verdict.exposed THEN Grade("environment-failure") ELSE Refuse
  <2>1. BoxIInv' /\ UNCHANGED <<frames, capture>> /\ (box = "none" => box' = "none")
    <3>1. CASE UNCHANGED boxVars
      BY <1>0, <3>1, SameBox DEF boxVars
    <3>2. CASE BoxEnds("removed") /\ ~Absent
      BY <1>0, <3>2, EndKeeps DEF BoxEnds, Absent
    <3>3. QED BY <1>2, <3>1, <3>2 DEF CleanupFails
  <2>2. child'.sent = child.sent
    <3>1. CASE UNCHANGED boxVars
      BY <3>1 DEF boxVars
    <3>2. CASE BoxEnds("removed")
      BY <1>0, <3>2, EndKeeps
    <3>3. QED BY <1>2, <3>1, <3>2 DEF CleanupFails
  <2>3. vols' \subseteq Volumes
    BY <1>0, <1>2 DEF CleanupFails, TypeOK
  <2>4. /\ verdict'.exposed = verdict.exposed /\ verdict'.status = "environment-failure"
        /\ verdict' \in [protocol : {"none", "ok", "bad"}, exposed : BOOLEAN,
                         status : Statuses \union {"none"}]
        /\ execution' \in {"environment-failure", "lost"}
    BY <1>0, <1>2 DEF TypeOK, Statuses, RecordExecution
  <2>5. /\ result' \in {"failed", "environment-failure"} /\ diskFailed' \in BOOLEAN
        /\ outcome' \in {"none", "environment-failure"}
        /\ outcome' # "none" /\ result' # outcome' => result' = "failed" /\ diskFailed'
        /\ outcome' = "none" => result' = "failed"
        /\ verdict.exposed /\ result' = "failed" => diskFailed'
        /\ ~verdict.exposed => result' = "failed"
    BY <1>0, <1>2 DEF Grade, Refuse, TypeOK
  <2>6. TypeOK' /\ StageInv' /\ VerdictInv'
    BY <1>0, <1>2, <2>1, <2>3, <2>4, <2>5 DEF TypeOK, StageInv, VerdictInv, BoxIInv, Statuses
  <2>7. CompletedIsEarned' /\ RecordsAgree' /\ LeftoversAreReported'
    BY <2>4, <2>5 DEF CompletedIsEarned, RecordsAgree, LeftoversAreReported
  <2>8. ExposureIsGraded'
    BY <2>2, <2>4, <2>5, ClaimsHold DEF ExposureIsGraded
  <2>9. QED BY <2>1, <2>6, <2>7, <2>8 DEF IInv, HostIInv
<1>3. QED BY <1>1, <1>2 DEF Cleanup

\* The end of an attempt whose capture was opened.
LEMMA Ends ==
  ASSUME IInv, pc \in {"capture", "record"}, pc' = "done",
         UNCHANGED <<boxVars, ctx, cli, got, vols, verdict>>,
         execution' \in {verdict.status, "lost"},
         NEW status \in Statuses,
         IF verdict.exposed THEN Grade(status) ELSE Refuse,
         status = "completed" =>
           /\ verdict.status = "completed" /\ pc = "record",
         verdict.exposed /\ status # verdict.status =>
           \/ status = "agent-timeout" /\ Expired
           \/ status = "evaluator-failure" /\ verdict.protocol = "bad"
           \/ status \in {"evaluator-failure", "agent-protocol-failure"}
              /\ verdict.status = "completed"
  PROVE  IInv'
<1>0. /\ BoxIInv /\ SupervisorTypeOK /\ TypeOK /\ StageInv /\ VerdictInv
      /\ cli # "running" /\ result = "none" /\ outcome = "none" /\ Absent /\ vols = {}
  BY DEF IInv, BoxIInv, HostIInv, StageInv
<1>1. BoxIInv'
  BY <1>0, SameBox
<1>2. /\ result' \in {"failed", status} /\ diskFailed' \in BOOLEAN
      /\ outcome' \in {"none", status}
      /\ outcome' # "none" => verdict.exposed
      /\ result' # outcome' => result' = "failed" /\ (outcome' # "none" => diskFailed')
      /\ verdict.exposed /\ result' = "failed" => diskFailed'
      /\ ~verdict.exposed => result' = "failed"
  BY <1>0 DEF Grade, Refuse, TypeOK, Statuses
<1>3. verdict.status \in Statuses /\ status \notin {"none", "failed"}
  BY <1>0 DEF TypeOK, VerdictInv, Statuses
<1>4. TypeOK' /\ StageInv' /\ VerdictInv'
  BY <1>0, <1>1, <1>2, <1>3 DEF TypeOK, StageInv, VerdictInv, BoxIInv, boxVars, Absent
<1>5. CompletedIsEarned'
  <2>1. ASSUME result' = "completed"
        PROVE  /\ status = "completed" /\ verdict.exposed
               /\ outcome' = "completed" /\ execution' \in {"completed", "lost"}
    BY <1>2, <2>1
  <2>2. ASSUME result' = "completed"
        PROVE  /\ child.asked /\ child.exit = "ok" /\ ~sup.over
               /\ {"exposure.marker", "events.jsonl"} \union Workspace \subseteq capture
    BY <1>0, <2>1, <2>2, ClaimsHold DEF VerdictInv
  <2>3. QED BY <1>0, <2>1, <2>2 DEF CompletedIsEarned, boxVars, Absent
<1>6. ExposureIsGraded'
  BY <1>2, ClaimsHold DEF ExposureIsGraded, boxVars
<1>7. RecordsAgree'
  <2>1. verdict' = verdict /\ ctx' = ctx /\ Expired' = Expired
    BY DEF Expired
  <2>2. execution' # "none" /\ (execution' \notin {"lost", outcome'} => execution' = verdict.status)
    BY <1>3 DEF Statuses
  <2>3. ASSUME outcome' # "none", execution' \notin {"lost", outcome'}
        PROVE  \/ outcome' = "agent-timeout" /\ Expired
               \/ outcome' = "evaluator-failure" /\ verdict.protocol = "bad"
               \/ /\ outcome' \in {"evaluator-failure", "agent-protocol-failure"}
                  /\ verdict.status = "completed"
    BY <1>2, <2>2, <2>3
  <2>4. QED BY <1>2, <2>1, <2>2, <2>3 DEF RecordsAgree
<1>8. LeftoversAreReported'
  BY <1>0 DEF LeftoversAreReported, Absent, boxVars
<1>9. QED BY <1>1, <1>4, <1>5, <1>6, <1>7, <1>8 DEF IInv, HostIInv

LEMMA ReadCaptureStep ==
  ASSUME IInv, ReadCapture
  PROVE  IInv'
<1>0. /\ BoxIInv /\ SupervisorTypeOK /\ TypeOK /\ StageInv /\ VerdictInv
      /\ pc = "capture" /\ UNCHANGED <<boxVars, ctx, cli, got, vols, verdict>>
      /\ execution' \in {verdict.status, "lost"} /\ verdict.status \in Statuses
      /\ outcome = "none"
  BY DEF IInv, BoxIInv, HostIInv, ReadCapture, RecordExecution, TypeOK, StageInv, VerdictInv
<1>1. \/ /\ pc' = "done"
         /\ \/ verdict.exposed /\ Expired /\ Grade("agent-timeout")
            \/ verdict.exposed /\ verdict.protocol = "bad" /\ Grade("evaluator-failure")
            \/ ~verdict.exposed /\ Refuse
            \/ verdict.exposed /\ verdict.status = "completed" /\ Grade("evaluator-failure")
      \/ /\ pc' = "record" /\ UNCHANGED <<diskFailed, outcome, result>>
         /\ verdict.exposed
         /\ verdict.status = "completed" => {"events.jsonl"} \union Workspace \subseteq capture
      \/ /\ pc' = "done" /\ result' = "failed" /\ diskFailed' = TRUE /\ UNCHANGED outcome
         /\ verdict.exposed
  <2>1. verdict.exposed \in BOOLEAN /\ Expired \in BOOLEAN
    BY <1>0 DEF TypeOK, Expired
  <2>2. PICK broken \in BOOLEAN :
          LET completed == verdict.status = "completed"
              missing   == completed /\ (broken \/ ~(Workspace \subseteq capture))
              ends      == pc' = "done"
          IN
          CASE Expired /\ verdict.exposed -> ends /\ Grade("agent-timeout")
            [] ~Expired /\ verdict.exposed /\ verdict.protocol = "bad" ->
                 ends /\ Grade("evaluator-failure")
            [] ~verdict.exposed -> ends /\ Refuse
            [] OTHER ->
                 IF missing \/ (completed /\ "events.jsonl" \notin capture)
                 THEN ends /\ Grade("evaluator-failure")
                 ELSE \/ pc' = "record" /\ UNCHANGED <<diskFailed, outcome, result>>
                      \/ /\ HostFaults /\ ends
                         /\ result' = "failed" /\ diskFailed' = TRUE /\ UNCHANGED outcome
    BY DEF ReadCapture
  <2>3. CASE Expired /\ verdict.exposed
    BY <2>2, <2>3
  <2>4. CASE ~Expired /\ verdict.exposed /\ verdict.protocol = "bad"
    BY <2>2, <2>4
  <2>5. CASE ~verdict.exposed
    BY <2>2, <2>5
  <2>6. CASE ~Expired /\ verdict.exposed /\ verdict.protocol # "bad"
    BY <2>2, <2>6
  <2>7. QED BY <2>1, <2>3, <2>4, <2>5, <2>6
<1>2. CASE /\ pc' = "done"
           /\ \/ verdict.exposed /\ Expired /\ Grade("agent-timeout")
              \/ verdict.exposed /\ verdict.protocol = "bad" /\ Grade("evaluator-failure")
              \/ ~verdict.exposed /\ Refuse
              \/ verdict.exposed /\ verdict.status = "completed" /\ Grade("evaluator-failure")
  <2>1. "agent-timeout" \in Statuses /\ "evaluator-failure" \in Statuses
    BY DEF Statuses
  <2>2. CASE verdict.exposed /\ Expired /\ Grade("agent-timeout")
    BY <1>0, <1>2, <2>1, <2>2, Ends
  <2>3. CASE verdict.exposed /\ verdict.protocol = "bad" /\ Grade("evaluator-failure")
    BY <1>0, <1>2, <2>1, <2>3, Ends
  <2>4. CASE ~verdict.exposed /\ Refuse
    BY <1>0, <1>2, <2>1, <2>4, Ends
  <2>5. CASE verdict.exposed /\ verdict.status = "completed" /\ Grade("evaluator-failure")
    BY <1>0, <1>2, <2>1, <2>5, Ends
  <2>6. QED BY <1>2, <2>2, <2>3, <2>4, <2>5
<1>3. CASE /\ pc' = "record" /\ UNCHANGED <<diskFailed, outcome, result>>
           /\ verdict.exposed
           /\ verdict.status = "completed" => {"events.jsonl"} \union Workspace \subseteq capture
  <2>1. BoxIInv'
    BY <1>0, SameBox
  <2>2. UNCHANGED <<box, frames, capture>>
    BY <1>0 DEF boxVars
  <2>3. TypeOK' /\ StageInv'
    BY <1>0, <1>3, <2>1, <2>2 DEF TypeOK, StageInv, BoxIInv, Absent
  <2>4. VerdictInv'
    BY <1>0, <1>3, <2>2 DEF VerdictInv, Statuses
  <2>5. QED BY <1>3, <2>1, <2>3, <2>4, NotDone DEF IInv, HostIInv
<1>4. CASE /\ pc' = "done" /\ result' = "failed" /\ diskFailed' = TRUE /\ UNCHANGED outcome
           /\ verdict.exposed
  <2>1. BoxIInv' /\ UNCHANGED <<box, frames, capture>>
    BY <1>0, SameBox DEF boxVars
  <2>2. TypeOK' /\ StageInv' /\ VerdictInv'
    BY <1>0, <1>4, <2>1 DEF TypeOK, StageInv, VerdictInv, BoxIInv, Absent, Statuses
  <2>3. CompletedIsEarned' /\ ExposureIsGraded' /\ RecordsAgree' /\ LeftoversAreReported'
    BY <1>0, <1>4 DEF CompletedIsEarned, ExposureIsGraded, RecordsAgree, LeftoversAreReported
  <2>4. QED BY <2>1, <2>2, <2>3 DEF IInv, HostIInv
<1>5. QED BY <1>1, <1>2, <1>3, <1>4

LEMMA RecordStep ==
  ASSUME IInv, Record
  PROVE  IInv'
<1>0. /\ BoxIInv /\ SupervisorTypeOK /\ TypeOK /\ StageInv /\ VerdictInv
      /\ pc = "record" /\ pc' = "done"
      /\ UNCHANGED <<boxVars, ctx, cli, got, vols, verdict, execution>>
      /\ execution \in {verdict.status, "lost"} /\ verdict.status \in Statuses
      /\ verdict.exposed
  BY DEF IInv, BoxIInv, HostIInv, Record, TypeOK, VerdictInv
<1>1. execution' \in {verdict.status, "lost"} /\ UNCHANGED <<boxVars, ctx, cli, got, vols, verdict>>
  BY <1>0
<1>2. \/ Expired /\ Grade("agent-timeout")
      \/ verdict.status # "completed" /\ Grade(verdict.status)
      \/ verdict.status = "completed" /\ Grade("completed")
      \/ verdict.status = "completed" /\ Grade("agent-protocol-failure")
  BY DEF Record, Expired, Parsed
<1>3. {"agent-timeout", "completed", "agent-protocol-failure"} \subseteq Statuses
  BY DEF Statuses
<1>4. CASE Expired /\ Grade("agent-timeout")
  BY <1>0, <1>1, <1>3, <1>4, Ends
<1>5. CASE verdict.status # "completed" /\ Grade(verdict.status)
  BY <1>0, <1>1, <1>5, Ends
<1>6. CASE verdict.status = "completed" /\ Grade("completed")
  BY <1>0, <1>1, <1>3, <1>6, Ends
<1>7. CASE verdict.status = "completed" /\ Grade("agent-protocol-failure")
  BY <1>0, <1>1, <1>3, <1>7, Ends
<1>8. QED BY <1>2, <1>4, <1>5, <1>6, <1>7

-----------------------------------------------------------------------------
LEMMA InitIInv == Init => IInv
<1> SUFFICES ASSUME Init PROVE IInv
  OBVIOUS
<1>1. SupervisorTypeOK
  BY DEF Init, SupervisorInit, SupervisorTypeOK, RunErrors
<1>2. ContainerInv /\ WitnessInv /\ StatusInv /\ FramesInv
  BY DEF Init, SupervisorInit, ContainerInv, WitnessInv, StatusInv, FramesInv, Reporting
<1>3. TypeOK
  <2>1. got \in 0..Len(frames)
    BY DEF Init, SupervisorInit
  <2>2. QED BY <1>1, <2>1 DEF Init, SupervisorInit, TypeOK
<1>4. StageInv /\ VerdictInv
  BY DEF Init, SupervisorInit, StageInv, VerdictInv
<1>5. CompletedIsEarned /\ ExposureIsGraded /\ RecordsAgree /\ LeftoversAreReported
  BY DEF Init, CompletedIsEarned, ExposureIsGraded, RecordsAgree, LeftoversAreReported
<1>6. QED BY <1>1, <1>2, <1>3, <1>4, <1>5 DEF IInv, BoxIInv, HostIInv

LEMMA NextIInv == IInv /\ [Next]_vars => IInv'
<1> SUFFICES ASSUME IInv, [Next]_vars PROVE IInv'
  OBVIOUS
<1>1. CASE Box
  BY <1>1, ContainerSteps
<1>2. CASE \/ Deadline \/ Cancel \/ Cli \/ Prepare \/ CreateVolume \/ StartRun \/ Waited
           \/ Interrupted \/ Stop \/ Stopped \/ Drain
  BY <1>2, EarlySteps
<1>3. CASE Classify
  BY <1>3, ClassifyStep
<1>4. CASE Cleanup
  BY <1>4, CleanupStep
<1>5. CASE ReadCapture
  BY <1>5, ReadCaptureStep
<1>6. CASE Record
  BY <1>6, RecordStep
<1>7. CASE UNCHANGED vars
  <2>1. UNCHANGED boxVars /\ UNCHANGED hostVars
    BY <1>7 DEF vars
  <2>2. BoxIInv'
    BY <2>1, SameBox DEF IInv
  <2>3. HostIInv'
    BY <2>1, <2>2 DEF IInv, BoxIInv, HostIInv, TypeOK, StageInv, VerdictInv, CompletedIsEarned,
       ExposureIsGraded, RecordsAgree, LeftoversAreReported, boxVars, hostVars, Absent, Expired
  <2>4. QED BY <2>2, <2>3 DEF IInv
<1>8. QED BY <1>1, <1>2, <1>3, <1>4, <1>5, <1>6, <1>7 DEF Next, Host

LEMMA Invariance == Spec => []IInv
BY InitIInv, NextIInv, PTL DEF Spec

-----------------------------------------------------------------------------
\* Every record of an attempt, of its container and of its agent has its type, and
\* the container never sends more than three frames.
THEOREM Typing == Spec => []TypeOK
<1>1. IInv => TypeOK
  BY DEF IInv, HostIInv
<1>2. QED BY <1>1, Invariance, PTL

\* An attempt counts as completed only of an agent that made its request, ended by
\* itself with success within its budgets, with all its evidence on the host and
\* nothing left in the runtime (isolatedRun with the supervisor's main).
THEOREM CompletedEarned == Spec => []CompletedIsEarned
<1>1. IInv => CompletedIsEarned
  BY DEF IInv, HostIInv
<1>2. QED BY <1>1, Invariance, PTL

\* An attempt whose exposure the host has seen is graded unless the host's own disk
\* failed, and an attempt that was not exposed never is (parseControl, recordAgent).
THEOREM ExposureGraded == Spec => []ExposureIsGraded
<1>1. IInv => ExposureIsGraded
  BY DEF IInv, HostIInv
<1>2. QED BY <1>1, Invariance, PTL

\* execution.json and outcome.json agree on the attempt, and what is left behind in
\* the container runtime is reported with it (Cleanup, EnsureContainerAbsent).
THEOREM HonestOutcome == Spec => []OutcomeIsHonest
<1>1. IInv => OutcomeIsHonest
  BY DEF IInv, HostIInv, OutcomeIsHonest
<1>2. QED BY <1>1, Invariance, PTL

\* From the moment the host opens the capture directory its container is gone, none
\* can be started, and no step of any process changes what it reads.
THEOREM SealedCapture == Spec => CaptureIsSealed
<1>1. IInv /\ [Next]_vars =>
        [(pc \in {"capture", "record"}) =>
           /\ Absent /\ cli # "running"
           /\ capture' = capture]_vars
  <2> SUFFICES ASSUME IInv, Next, pc \in {"capture", "record"}
               PROVE  Absent /\ cli # "running" /\ capture' = capture
    OBVIOUS
  <2>1. Absent /\ cli # "running" /\ BoxIInv
    BY DEF IInv, HostIInv, StageInv
  <2>2. ~Box
    BY <2>1, BoxGrows DEF Box, Absent
  <2>3. Deadline \/ Cancel \/ Cli \/ Host
    BY <2>2 DEF Next
  <2>4. capture' = capture
    BY <2>1, <2>3 DEF Deadline, Cancel, Cli, CliCreates, CliEnds, Host, Prepare, CreateVolume,
       StartRun, Waited, Interrupted, Stop, Stopped, Drain, Classify, Cleanup, ReadCapture,
       Record, boxVars
  <2>5. QED BY <2>1, <2>4
<1>2. QED BY <1>1, Invariance, PTL DEF Spec, CaptureIsSealed
=============================================================================
