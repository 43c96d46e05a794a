---------------------------- MODULE CommandsProofs ----------------------------
(***************************************************************************)
(* What one run of `matlatl check` guarantees, for every tree and every    *)
(* set of references, and what every command makes of its run, for every   *)
(* command line, configuration file and history of the bodies it reads.    *)
(*                                                                         *)
(* The properties speak of the end of a run; the invariant says what is    *)
(* already decided at each stage before it: which documents are accounted  *)
(* for, which results failed, what the corpus is and what is on the disk.  *)
(***************************************************************************)
EXTENDS Commands, TLAPS

-----------------------------------------------------------------------------
(* The run (CheckRun).                                                      *)

Early  == {"start", "scan", "parse"}
Merged == {"external", "emit", "verdict"}

\* Until the parse stage is over, nothing has been read or written.
BeforeInv ==
  /\ pc \in Early \union {"merge"} => corpus = {} /\ dead = {}
  /\ pc \in Early => failed = {}
  /\ pc \in {"start", "scan"} => scanned = {} /\ noticed = {}

\* Every document is scanned, noticed or gone, and a scanned one is noticed
\* exactly if its result is an error that was merged.
Covered == Docs \subseteq scanned \union noticed \union lost

AccountInv ==
  /\ pc \in {"parse", "merge"} => Covered /\ scanned \intersect noticed = {}
  /\ pc \in Merged \/ Answered =>
       Covered /\ corpus = scanned \ failed /\ scanned \intersect noticed = failed

\* The results that are errors: those of lost files, and the last one if late.
FailedInv ==
  pc \in {"merge"} \union Merged \/ Answered =>
    \/ failed = scanned \intersect lost
    \/ /\ ctxDone /\ Sequential
       /\ failed = (scanned \intersect lost) \union Last(scanned)

\* The disk follows the writer.
DiskInv ==
  /\ pc \in Early \union {"merge", "external"} => \A a \in Artifacts : disk[a] = "old"
  /\ pc \in {"emit", "verdict"} => \A a \in Artifacts : disk[a] # "torn"
  /\ pc = "emit" => cmd.out
  /\ pc = "verdict" \/ Answered => \A a \in Artifacts : disk[a] = IF cmd.out THEN "new" ELSE "old"
  /\ \A a \in Artifacts : disk[a] # "old" => cmd.out /\ corpus = scanned \ failed
  /\ \A a, b \in Artifacts : a < b /\ disk[b] # "old" => disk[a] = "new"

ExitInv ==
  /\ exit # Running <=> pc = "exit"
  /\ Answered => exit = CheckExitCode(corpus, dead, cmd)

RunIInv ==
  TypeOK /\ BeforeInv /\ AccountInv /\ FailedInv /\ DiskInv /\ ExitInv

-----------------------------------------------------------------------------
\* The four exit codes are told apart.
LEMMA Codes ==
  /\ Running # ExitOK /\ Running # ExitFindings /\ Running # ExitRuntime
  /\ ExitRuntime # ExitOK /\ ExitRuntime # ExitFindings
BY DEF Running, ExitOK, ExitFindings, ExitRuntime

\* CheckExitCode answers with one of two codes, and never looks at dead links.
LEMMA CodeRange ==
  ASSUME NEW docs, NEW d, NEW e, NEW c
  PROVE  /\ CheckExitCode(docs, d, c) \in {ExitOK, ExitFindings}
         /\ CheckExitCode(docs, d, c) = CheckExitCode(docs, e, c)
BY DEF CheckExitCode

\* The code is a function of the references, the corpus and the command line.
LEMMA CodeUnchanged ==
  ASSUME UNCHANGED <<refs, cmd, corpus, dead>>
  PROVE  CheckExitCode(corpus, dead, cmd)' = CheckExitCode(corpus, dead, cmd)
BY DEF CheckExitCode, Broken, Ambiguous, Orphan, Unreachable, RootSet, Edges, Valid,
       Internal, External, Read

\* The invariant holds before the first step.
LEMMA InitRun == Init => RunIInv
<1> SUFFICES ASSUME Init PROVE RunIInv
  OBVIOUS
<1>1. TypeOK
  BY DEF Init, TypeOK, Running
<1>2. BeforeInv /\ AccountInv /\ FailedInv
  BY Codes DEF Init, BeforeInv, AccountInv, FailedInv, Early, Merged, Answered
<1>3. DiskInv /\ ExitInv
  BY Codes DEF Init, DiskInv, ExitInv, Early, Answered
<1>4. QED  BY <1>1, <1>2, <1>3 DEF RunIInv

\* Every action keeps the invariant, one step of the proof per action.
LEMMA NextRun == RunIInv /\ [Next]_vars => RunIInv'
<1> SUFFICES ASSUME RunIInv, [Next]_vars PROVE RunIInv'
  OBVIOUS
<1> USE Codes DEF RunIInv, Early, Merged, Answered, Covered, Sequential, given, run
<1>1. ASSUME UNCHANGED vars PROVE RunIInv'
  BY <1>1, CodeUnchanged DEF vars, TypeOK, BeforeInv, AccountInv, FailedInv, DiskInv, ExitInv
<1>2. CASE Cancel
  BY <1>2, CodeUnchanged DEF Cancel, TypeOK, BeforeInv, AccountInv, FailedInv, DiskInv, ExitInv
<1>3. ASSUME NEW d \in Docs, Vanish(d) PROVE RunIInv'
  BY <1>3 DEF Vanish, TypeOK, BeforeInv, AccountInv, FailedInv, DiskInv, ExitInv
<1>4. CASE Start
  BY <1>4 DEF Start, Exit, TypeOK, BeforeInv, AccountInv, FailedInv, DiskInv, ExitInv
<1>5. CASE Scan
  BY <1>5 DEF Scan, TypeOK, BeforeInv, AccountInv, FailedInv, DiskInv, ExitInv
<1>6. CASE ScanFails \/ ParseCanceled
  BY <1>6 DEF ScanFails, ParseCanceled, Exit, TypeOK, BeforeInv, AccountInv, FailedInv,
              DiskInv, ExitInv
<1>7. CASE Parse
  BY <1>7 DEF Parse, TypeOK, BeforeInv, AccountInv, FailedInv, DiskInv, ExitInv
<1>8. CASE ParseLate
  BY <1>8 DEF ParseLate, Last, TypeOK, BeforeInv, AccountInv, FailedInv, DiskInv, ExitInv
<1>9. CASE Merge
  BY <1>9 DEF Merge, TypeOK, BeforeInv, AccountInv, FailedInv, DiskInv, ExitInv
<1>10. CASE CheckExternal
  BY <1>10 DEF CheckExternal, External, Read, TypeOK, BeforeInv, AccountInv, FailedInv,
               DiskInv, ExitInv
<1>11. ASSUME NEW a \in Artifacts, Write(a) PROVE RunIInv'
  BY <1>11 DEF Write, Due, Artifacts, TypeOK, BeforeInv, AccountInv, FailedInv, DiskInv,
               ExitInv
<1>12. ASSUME NEW a \in Artifacts, WriteFails(a) PROVE RunIInv'
  BY <1>12 DEF WriteFails, Due, Exit, Artifacts, TypeOK, BeforeInv, AccountInv, FailedInv,
               DiskInv, ExitInv
<1>13. CASE WriteCanceled
  BY <1>13 DEF WriteCanceled, Exit, TypeOK, BeforeInv, AccountInv, FailedInv, DiskInv, ExitInv
<1>14. CASE Written
  BY <1>14 DEF Written, TypeOK, BeforeInv, AccountInv, FailedInv, DiskInv, ExitInv
<1>15. CASE Verdict
  BY <1>15, CodeRange, CodeUnchanged DEF Verdict, Exit, TypeOK, BeforeInv, AccountInv, FailedInv, DiskInv, ExitInv
<1>16. CASE Terminating
  BY <1>1, <1>16 DEF Terminating
<1>17. QED
  BY <1>1, <1>2, <1>3, <1>4, <1>5, <1>6, <1>7, <1>8, <1>9, <1>10, <1>11, <1>12, <1>13,
     <1>14, <1>15, <1>16 DEF Next, Stages

\* The invariant holds in every reachable state.
LEMMA RunInvariance == Spec => []RunIInv
BY InitRun, NextRun, PTL DEF Spec

-----------------------------------------------------------------------------
\* The stages keep to their sets in every run.
THEOREM RunTyping == Spec => []TypeOK
<1>1. RunIInv => TypeOK
  BY DEF RunIInv
<1>2. QED  BY <1>1, RunInvariance, PTL

\* What the invariant says of the end of a run.
LEMMA ExplainedOf == RunIInv => VerdictIsExplained
<1>1. ASSUME RunIInv, Answered PROVE VerdictIsExplained
  <2> DEFINE gone == lost \ (scanned \union noticed)
  <2>1. Docs \ (noticed \union gone) = corpus
    BY <1>1 DEF RunIInv, TypeOK, AccountInv, Covered
  <2>2. exit = CheckExitCode(corpus, {}, cmd)
    BY <1>1, CodeRange DEF RunIInv, ExitInv
  <2>3. gone \in SUBSET (lost \ scanned)
    OBVIOUS
  <2>4. QED  BY <2>1, <2>2, <2>3 DEF VerdictIsExplained
<1>2. QED  BY <1>1 DEF VerdictIsExplained

LEMMA CompleteOf == RunIInv => VerdictIsComplete
<1>1. ASSUME RunIInv, Answered PROVE VerdictIsComplete
  <2>1. CASE failed = scanned \intersect lost
    BY <1>1, <2>1 DEF RunIInv, AccountInv, VerdictIsComplete
  <2>2. CASE /\ ctxDone /\ Sequential
             /\ failed = (scanned \intersect lost) \union Last(scanned)
    <3>1. \A d, e \in Last(scanned) : d = e
      BY <1>1, CheckRunAssumption DEF RunIInv, TypeOK, Last
    <3>2. (scanned \ lost) \ corpus = Last(scanned) \ lost
      BY <1>1, <2>2 DEF RunIInv, AccountInv, Last
    <3>3. Last(scanned) \ lost \in {{}, Last(scanned)}
      BY <3>1
    <3>4. QED  BY <2>2, <3>2, <3>3 DEF VerdictIsComplete
  <2>3. QED  BY <1>1, <2>1, <2>2 DEF RunIInv, FailedInv
<1>2. QED  BY <1>1 DEF VerdictIsComplete

LEMMA HonestOf == RunIInv => VerdictIsHonest /\ ArtifactsMatchExit
<1>1. RunIInv => VerdictIsHonest
  BY ExplainedOf, CompleteOf DEF RunIInv, VerdictIsHonest
<1>2. RunIInv => ArtifactsMatchExit
  BY DEF RunIInv, DiskInv, ArtifactsMatchExit
<1>3. QED  BY <1>1, <1>2

\* For every tree: an exit code of 0 or 1 is the verdict of ADR 0005 on the tree
\* less what the log names and what was gone before the scan, and of no other.
THEOREM Explained == Spec => []VerdictIsExplained
BY ExplainedOf, RunInvariance, PTL

\* For every tree: no verdict is about less than the readable documents scanned,
\* but for one on the sequential path.
THEOREM Complete == Spec => []VerdictIsComplete
BY CompleteOf, RunInvariance, PTL

\* For every tree: the three together, what the run of the commands checks.
THEOREM Honest == Spec => []VerdictIsHonest
BY HonestOf, RunInvariance, PTL

\* For every run: a verdict comes with both artifacts, and a torn file or a mix
\* of runs with exit code 3.
THEOREM ArtifactsAgree == Spec => []ArtifactsMatchExit
BY HonestOf, RunInvariance, PTL

-----------------------------------------------------------------------------
(* The command (Commands).  Its steps are steps of the run or leave it      *)
(* alone, so that the invariant of the run is one of the command.           *)

Setup    == {"flags", "lstat", "read", "listen"}
Shutdown == {"drain", "join", "failed"}
Bodies   == {"parsed", "changed", "unreadable"}

\* The types.
CliTypeOK ==
  /\ inv \in Invocations /\ logged \in BOOLEAN
  /\ file \in FileKinds /\ found \in BOOLEAN /\ conf \in {"zero", "valid", "valid_okf"}
  /\ step \in Setup \union {"run", "render", "write", "serve", "exit"} \union Shutdown
  /\ body \in [Docs -> Bodies]
  /\ due \subseteq inv.bodies \X Docs
  /\ text \subseteq inv.bodies \X Docs \X Bodies
  /\ written \in 0..inv.artifacts /\ torn \in BOOLEAN
  /\ server \in [listener : {"none", "open", "closed"},
                 serve : {"none", "starting", "serving", "ErrServerClosed", "error"},
                 open : Nat, cut : Nat]
  /\ code \in {Running, ExitOK, ExitFindings, ExitUsage, ExitRuntime}

\* The run of CheckRun lives within one step of the command.
StepInv ==
  /\ Ended <=> step = "exit"
  /\ step \in Setup => pc = "start"
  /\ step \in {"render", "write", "serve"} \union Shutdown => pc = "verdict" /\ ~Is("check")
  /\ step \in {"listen", "serve"} \union Shutdown => Is("serve")
  /\ step \in {"render", "write"} => ~Is("serve")
  /\ step \in Setup \union {"run"} => due = {} /\ text = {}
  /\ pc = "exit" /\ ~Is("check") => exit = ExitRuntime

\* Before Load has returned, the command line is that of the flags; then it is that of a
\* file that was there.
Starting == {"flags", "lstat", "read"}

FileInv ==
  /\ cmd = Effective(inv, conf)
  /\ step \in {"lstat", "read"} => inv.usage # "early"
  /\ step \in {"flags", "lstat"} => ~found
  /\ step = "read" => found /\ file # "skipped"
  /\ pc # "start" \/ step \notin Starting \union {"exit"} =>
       inv.usage \notin {"early", "late"} /\ \E kind \in {inv.file, file} : SettingsOf(kind)
  /\ code = ExitUsage /\ inv.usage = "ok" =>
       found /\ {inv.file, file} \intersect {"absent", "unreadable", "wrong"} # {}

\* Artifacts are written of a rendering that is complete.
OutputInv ==
  /\ written > 0 \/ torn => step \in {"write", "exit"} /\ pc = "verdict" /\ due = {}
  /\ step = "write" => due = {} /\ ~torn
  /\ code = ExitUsage =>
       written = 0 /\ ~torn /\ server.serve = "none" /\ server.listener = "none"

\* What is rendered and what is still due are together what was to be rendered.
RenderInv ==
  /\ step \in {"render", "write"} \/ written > 0 =>
       \A a \in inv.bodies, d \in Docs :
         d \in Listed(a) <=> (<<a, d>> \in due \/ \E t \in text : t[1] = a /\ t[2] = d)
  /\ \A e \in due : e[2] \notin Hidden
  /\ (\E e \in due : e[1] = "full") => \A t \in text : t[1] = "full"

\* The listener, the goroutine and the requests, at each step of the command.
ServerInv ==
  /\ server.listener # "none" \/ server.serve # "none" => Is("serve")
  /\ step \in Setup => server.listener = "none"
  /\ step \in Setup \union {"run", "render", "write"} =>
       server.serve = "none" /\ server.open = 0 /\ server.cut = 0
  /\ step \in {"serve"} \union Shutdown => server.serve # "none"
  /\ step = "serve" => server.serve # "ErrServerClosed"
  /\ step \in {"serve", "drain", "join"} => server.cut = 0
  /\ step = "join" => server.open = 0
  /\ server.serve \in {"ErrServerClosed", "error"} => server.listener = "closed"

CliIInv ==
  /\ RunIInv /\ CliTypeOK /\ StepInv /\ FileInv /\ OutputInv /\ RenderInv /\ ServerInv
  /\ ConfigIsHonoured /\ OutputMatchesExit /\ BodiesAreHonest /\ ServerIsClosed

\* Every step of a command is a step of its run or leaves the run alone, but for the two
\* that may complete the command line.
LEMMA CliRunSteps == CliNext => [Next]_vars \/ Lstat \/ Load
BY DEF CliNext, CommandStep, ServeStep, Environment, Flags, Pipeline, RunEnds,
   Analyzed, ReadBody, Rendered, WriteArtifact, ArtifactFails, AllWritten, Listen, Interrupted,
   ServeFailed, Drained, DrainTimesOut, Join, ServeStarts, ServeReturns, Request, Answer,
   AcceptFails, EditFile, Change, Next, allVars

\* What flags and settings make together is a command line.
LEMMA EffectiveCommand ==
  ASSUME NEW i \in Invocations, NEW c
  PROVE  Effective(i, c) \in Command
<1>1. i.flags \in Command
  BY CommandsAssumption
<1>2. QED BY <1>1 DEF Effective, Command

\* Before the run begins its command line may still change.
LEMMA Reconfigured ==
  ASSUME RunIInv, pc = "start", cmd' \in Command,
         UNCHANGED <<refs, ctxDone, lost, pc, run, disk, exit>>
  PROVE  RunIInv'
<1>1. exit = Running /\ exit' = Running
  BY DEF RunIInv, ExitInv
<1>2. TypeOK'
  BY DEF RunIInv, TypeOK, run
<1>3. BeforeInv' /\ AccountInv' /\ FailedInv'
  BY <1>1, Codes DEF RunIInv, BeforeInv, AccountInv, FailedInv, Early, Merged, Answered, Covered,
     run
<1>4. DiskInv' /\ ExitInv'
  BY <1>1, Codes DEF RunIInv, DiskInv, ExitInv, Early, Answered
<1>5. QED BY <1>2, <1>3, <1>4 DEF RunIInv

\* What is listed is a function of the tree and of the settings.
LEMMA ListedUnchanged ==
  ASSUME UNCHANGED <<refs, corpus, conf>>
  PROVE  Hidden' = Hidden /\ \A a : Listed(a)' = Listed(a)
<1>1. Hidden' = Hidden
  BY DEF Hidden
<1>2. Reachable(corpus)' = Reachable(corpus)
  BY DEF Reachable, RootSet, Edges, Valid, Internal, Broken, Ambiguous, External, Read
<1>3. QED BY <1>1, <1>2 DEF Listed, RootSet

\* Only documents of the corpus are listed, and none that the file excludes.
LEMMA ListedDocs ==
  ASSUME NEW a, NEW d \in Listed(a)
  PROVE  d \in corpus /\ d \notin Hidden
BY DEF Listed, Reachable

\* The exit codes are told apart.
LEMMA CodeValues ==
  /\ Running = -1 /\ ExitOK = 0 /\ ExitFindings = 1 /\ ExitUsage = 2 /\ ExitRuntime = 3
BY DEF Running, ExitOK, ExitFindings, ExitUsage, ExitRuntime

\* The invariant holds before the first step.
LEMMA InitCli == CliInit => CliIInv
<1> SUFFICES ASSUME CliInit PROVE CliIInv
  OBVIOUS
<1>1. cmd \in Command
  BY EffectiveCommand DEF CliInit
<1>2. RunIInv
  BY <1>1, InitRun DEF CliInit
<1>3. CliTypeOK
  <2>1. inv.artifacts \in Nat
    BY CommandsAssumption DEF CliInit
  <2>2. written \in 0..inv.artifacts
    BY <2>1 DEF CliInit
  <2>3. body \in [Docs -> Bodies]
    BY DEF CliInit, Bodies
  <2>4. file \in FileKinds
    BY CommandsAssumption DEF CliInit
  <2>5. QED BY <2>2, <2>3, <2>4 DEF CliInit, CliTypeOK, Setup
<1>4. StepInv /\ FileInv /\ OutputInv /\ RenderInv /\ ServerInv
  BY CodeValues DEF CliInit, Init, StepInv, FileInv, Starting, OutputInv, RenderInv, ServerInv,
     Setup, Shutdown, Ended
<1>5. ConfigIsHonoured /\ OutputMatchesExit /\ BodiesAreHonest /\ ServerIsClosed
  BY CodeValues DEF CliInit, Init, ConfigIsHonoured, OutputMatchesExit, BodiesAreHonest, ServerIsClosed, Ended
<1>6. QED BY <1>2, <1>3, <1>4, <1>5 DEF CliIInv

\* Every step keeps the types.
LEMMA TypeSteps ==
  ASSUME CliIInv, [CliNext]_allVars, RunIInv'
  PROVE  CliTypeOK'
<1>0. CliTypeOK /\ RunIInv /\ OutputInv
  BY DEF CliIInv
<1> USE CodeValues DEF Ended, Ends, Is, Setup, Shutdown, configVars, outputVars, cliVars, vars,
       ahead, given, run
<1>1. CASE Flags \/ Lstat \/ Load
  BY <1>0, <1>1 DEF Flags, Lstat, Configured, Settings, Load, CliTypeOK, Bodies
<1>2. CASE Pipeline
  BY <1>0, <1>2 DEF Pipeline, CliTypeOK, Bodies
<1>3. CASE RunEnds
  <2>1. code' \in {Running, ExitOK, ExitFindings, ExitRuntime}
    BY <1>0, <1>3 DEF RunEnds, RunIInv, TypeOK
  <2>2. QED BY <1>0, <1>3, <2>1 DEF RunEnds, CliTypeOK
<1>4. CASE Analyzed
  <2>1. corpus \subseteq Docs
    BY <1>0 DEF RunIInv, TypeOK
  <2>2. due' \subseteq inv.bodies \X Docs
    BY <1>4, <2>1 DEF Analyzed
  <2>3. QED BY <1>0, <1>4, <2>2 DEF Analyzed, CliTypeOK
<1>5. CASE ReadBody
  <2>1. PICK e \in NextBody : due' = due \ {e} /\ text' = text \union {<<e[1], e[2], body[e[2]]>>}
    BY <1>5 DEF ReadBody
  <2>2. e \in inv.bodies \X Docs
    BY <1>0, <2>1 DEF NextBody, CliTypeOK
  <2>3. <<e[1], e[2], body[e[2]]>> \in inv.bodies \X Docs \X Bodies
    BY <1>0, <2>2 DEF CliTypeOK
  <2>4. QED BY <1>0, <1>5, <2>1, <2>3 DEF ReadBody, CliTypeOK
<1>6. CASE Rendered
  BY <1>0, <1>6 DEF Rendered, CliTypeOK, Bodies
<1>7. CASE WriteArtifact
  <2>1. inv.artifacts \in Nat
    BY <1>0, CommandsAssumption DEF CliTypeOK
  <2>2. written' \in 0..inv.artifacts
    BY <1>0, <1>7, <2>1 DEF WriteArtifact, CliTypeOK
  <2>3. QED BY <1>0, <1>7, <2>2 DEF WriteArtifact, CliTypeOK
<1>8. CASE ArtifactFails
  BY <1>0, <1>8 DEF ArtifactFails, CliTypeOK, Bodies
<1>9. CASE AllWritten
  BY <1>0, <1>9 DEF AllWritten, CliTypeOK, Bodies
<1>10. CASE Listen
  BY <1>0, <1>10 DEF Listen, CliTypeOK, Bodies
<1>11. CASE Interrupted
  BY <1>0, <1>11 DEF Interrupted, CliTypeOK, Bodies
<1>12. CASE ServeFailed
  BY <1>0, <1>12 DEF ServeFailed, CliTypeOK, Bodies
<1>13. CASE Drained \/ Join
  BY <1>0, <1>13 DEF Drained, Join, CliTypeOK, Bodies
<1>14. CASE DrainTimesOut
  BY <1>0, <1>14 DEF DrainTimesOut, CliTypeOK, Bodies
<1>15. CASE ServeStarts \/ ServeReturns \/ AcceptFails
  <2> DEFINE Servers == [listener : {"none", "open", "closed"},
                         serve : {"none", "starting", "serving", "ErrServerClosed", "error"},
                         open : Nat, cut : Nat]
  <2>1. server \in Servers
    BY <1>0 DEF CliTypeOK
  <2>2. ServeStarts => server' \in Servers
    BY <2>1 DEF ServeStarts
  <2>3. ServeReturns => server' \in Servers
    BY <2>1 DEF ServeReturns
  <2>4. AcceptFails => server' \in Servers
    BY <2>1 DEF AcceptFails
  <2>5. server' \in Servers
    BY <1>15, <2>2, <2>3, <2>4
  <2>6. UNCHANGED <<inv, step, configVars, outputVars, code>>
    BY <1>15 DEF ServeStarts, ServeReturns, AcceptFails
  <2>7. QED BY <1>0, <2>5, <2>6 DEF CliTypeOK
<1>16. CASE Request \/ Answer
  BY <1>0, <1>16 DEF Request, ShuttingDown, Answer, CliTypeOK, Bodies
<1>17. ASSUME NEW d \in Docs, Change(d) PROVE CliTypeOK'
  BY <1>0, <1>17 DEF Change, CliTypeOK, Bodies
<1>18. CASE EditFile
  <2>1. file' \in FileKinds
    BY <1>0, <1>18, CommandsAssumption DEF EditFile, CliTypeOK
  <2>2. QED BY <1>0, <1>18, <2>1 DEF EditFile, CliTypeOK, Bodies
<1>19. CASE (Cancel \/ \E d \in Docs : Vanish(d)) /\ UNCHANGED cliVars
  BY <1>0, <1>19 DEF Cancel, Vanish, CliTypeOK, Bodies
<1>20. CASE UNCHANGED allVars
  BY <1>0, <1>20 DEF allVars, CliTypeOK, Bodies
<1>21. QED
  BY <1>1, <1>2, <1>3, <1>4, <1>5, <1>6, <1>7, <1>8, <1>9, <1>10, <1>11, <1>12,
     <1>13, <1>14, <1>15, <1>16, <1>17, <1>18, <1>19, <1>20
  DEF CliNext, CommandStep, ServeStep, Environment

\* Every step keeps the run within its place in the command.
LEMMA StepSteps ==
  ASSUME CliIInv, [CliNext]_allVars, RunIInv'
  PROVE  StepInv'
<1>0. CliTypeOK /\ RunIInv /\ StepInv
  BY DEF CliIInv
<1> USE CodeValues DEF Ended, Ends, Is, Setup, Shutdown, configVars, outputVars, cliVars, vars,
       ahead, given, run
<1>1. CASE Flags \/ Lstat \/ Load
  BY <1>0, <1>1 DEF Flags, Lstat, Configured, Load, StepInv, CliTypeOK
<1>2. CASE Pipeline
  <2>1. ~Is("check") /\ pc' = "exit" => exit' = ExitRuntime
    BY <1>2 DEF Pipeline, Stages, Start, Scan, ScanFails, Parse, ParseLate, ParseCanceled, Merge,
       CheckExternal, WriteCanceled, Written, Verdict, Write, WriteFails, Exit
  <2>2. QED BY <1>0, <1>2, <2>1 DEF Pipeline, StepInv
<1>3. CASE RunEnds
  BY <1>0, <1>3 DEF RunEnds, StepInv, CliTypeOK
<1>4. CASE Analyzed
  BY <1>0, <1>4 DEF Analyzed, StepInv, CliTypeOK
<1>5. CASE ReadBody
  BY <1>0, <1>5 DEF ReadBody, StepInv, CliTypeOK
<1>6. CASE Rendered
  BY <1>0, <1>6 DEF Rendered, StepInv, CliTypeOK
<1>7. CASE WriteArtifact
  BY <1>0, <1>7 DEF WriteArtifact, StepInv, CliTypeOK
<1>8. CASE ArtifactFails
  BY <1>0, <1>8 DEF ArtifactFails, StepInv, CliTypeOK
<1>9. CASE AllWritten
  BY <1>0, <1>9 DEF AllWritten, StepInv, CliTypeOK
<1>10. CASE Listen
  BY <1>0, <1>10 DEF Listen, StepInv, CliTypeOK
<1>11. CASE Interrupted
  BY <1>0, <1>11 DEF Interrupted, StepInv, CliTypeOK
<1>12. CASE ServeFailed
  BY <1>0, <1>12 DEF ServeFailed, StepInv, CliTypeOK
<1>13. CASE Drained \/ Join
  BY <1>0, <1>13 DEF Drained, Join, StepInv, CliTypeOK
<1>14. CASE DrainTimesOut
  BY <1>0, <1>14 DEF DrainTimesOut, StepInv, CliTypeOK
<1>15. CASE ServeStarts \/ ServeReturns \/ AcceptFails
  BY <1>0, <1>15 DEF ServeStarts, ShuttingDown, ServeReturns, AcceptFails, StepInv,
     CliTypeOK
<1>16. CASE Request \/ Answer
  BY <1>0, <1>16 DEF Request, ShuttingDown, Answer, StepInv, CliTypeOK
<1>17. ASSUME NEW d \in Docs, Change(d) PROVE StepInv'
  BY <1>0, <1>17 DEF Change, StepInv, CliTypeOK
<1>18. CASE EditFile \/ ((Cancel \/ \E d \in Docs : Vanish(d)) /\ UNCHANGED cliVars)
  BY <1>0, <1>18 DEF EditFile, Cancel, Vanish, StepInv, CliTypeOK
<1>19. CASE UNCHANGED allVars
  BY <1>0, <1>19 DEF allVars, StepInv, CliTypeOK
<1>20. QED
  BY <1>1, <1>2, <1>3, <1>4, <1>5, <1>6, <1>7, <1>8, <1>9, <1>10, <1>11, <1>12,
     <1>13, <1>14, <1>15, <1>16, <1>17, <1>18, <1>19
  DEF CliNext, CommandStep, ServeStep, Environment

\* Every step keeps the settings those of a file that was there.
LEMMA FileSteps ==
  ASSUME CliIInv, [CliNext]_allVars, RunIInv'
  PROVE  FileInv'
<1>0. CliTypeOK /\ RunIInv /\ StepInv /\ FileInv
  BY DEF CliIInv
<1> USE CodeValues DEF Ended, Ends, Is, Setup, Shutdown, configVars, outputVars, cliVars, vars,
       ahead, given, run
<1> USE DEF SettingsOf, Starting
<1>1. CASE Flags
  BY <1>0, <1>1 DEF Flags, FileInv, StepInv
<1>2. CASE Lstat
  <2>1. /\ pc = "start" /\ pc' = "start" /\ ~found /\ inv.usage # "early" /\ code = Running
        /\ cmd = Effective(inv, conf) /\ UNCHANGED <<inv, file>>
    BY <1>0, <1>2 DEF Lstat, FileInv, StepInv
  <2>2. CASE file \notin {"absent", "skipped"}
    BY <1>2, <2>1, <2>2 DEF Lstat, FileInv
  <2>3. CASE file \in {"absent", "skipped"}
    <3>1. Configured("zero") /\ ~found'
      BY <1>2, <2>1, <2>3 DEF Lstat
    <3>2. file = "skipped" => logged' \/ inv.quiet
      BY <1>2, Zenon DEF Lstat
    <3>3. SettingsOf(file)'
      BY <2>1, <2>3, <3>1, <3>2 DEF Configured, Settings
    <3>4. QED BY <2>1, <3>1, <3>3 DEF Configured, FileInv
  <2>4. QED BY <2>2, <2>3
<1>3. CASE Load
  <2>1. /\ pc = "start" /\ pc' = "start" /\ found /\ found' /\ file \in FileKinds \ {"skipped"}
        /\ inv.usage # "early" /\ code = Running /\ cmd = Effective(inv, conf)
        /\ UNCHANGED <<inv, file, logged>>
    BY <1>0, <1>3 DEF Load, FileInv, StepInv, CliTypeOK
  <2>2. CASE file \in {"absent", "unreadable", "wrong"}
    BY <1>3, <2>1, <2>2 DEF Load, FileInv
  <2>3. CASE file \notin {"absent", "unreadable", "wrong"}
    <3>1. Configured(Settings(file))
      BY <1>3, <2>3 DEF Load
    <3>2. SettingsOf(file)'
      BY <2>1, <2>3, <3>1 DEF Configured, FileKinds
    <3>3. QED BY <2>1, <3>1, <3>2 DEF Configured, FileInv
  <2>4. QED BY <2>2, <2>3
<1>4. CASE Pipeline
  <2>1. /\ step = "run" /\ UNCHANGED <<inv, step, file, found, conf, logged, code>>
        /\ UNCHANGED cmd
    BY <1>4 DEF Pipeline, Stages, Start, Scan, ScanFails, Parse, ParseLate, ParseCanceled, Merge,
       CheckExternal, WriteCanceled, Written, Verdict, Write, WriteFails, Exit
  <2>2. \A kind : SettingsOf(kind) => SettingsOf(kind)'
    BY <2>1
  <2>3. QED BY <1>0, <2>1, <2>2 DEF FileInv
<1>5. CASE RunEnds
  <2>1. code' # ExitUsage /\ pc # "start"
    BY <1>0, <1>5 DEF RunEnds, RunIInv, TypeOK, ExitInv
  <2>2. QED BY <1>0, <1>5, <2>1 DEF RunEnds, FileInv, StepInv
<1>6. CASE Analyzed
  <2>1. /\ step = "run" /\ step' \in {"exit", "serve", "render"}
        /\ code' = ExitUsage => inv.usage # "ok"
    BY <1>0, <1>6 DEF Analyzed, StepInv
  <2>2. UNCHANGED <<inv, cmd, pc, file, found, conf, logged>>
    BY <1>6 DEF Analyzed
  <2>3. \A kind : SettingsOf(kind) => SettingsOf(kind)'
    BY <2>2
  <2>4. QED BY <1>0, <2>1, <2>2, <2>3 DEF FileInv
<1>7. CASE ReadBody
  BY <1>0, <1>7 DEF ReadBody, FileInv, StepInv
<1>8. CASE Rendered
  BY <1>0, <1>8 DEF Rendered, FileInv, StepInv
<1>9. CASE WriteArtifact
  BY <1>0, <1>9 DEF WriteArtifact, FileInv, StepInv
<1>10. CASE ArtifactFails
  BY <1>0, <1>10 DEF ArtifactFails, FileInv, StepInv
<1>11. CASE AllWritten
  BY <1>0, <1>11 DEF AllWritten, FileInv, StepInv
<1>12. CASE Listen
  BY <1>0, <1>12 DEF Listen, FileInv, StepInv
<1>13. CASE Interrupted
  BY <1>0, <1>13 DEF Interrupted, FileInv, StepInv
<1>14. CASE ServeFailed
  BY <1>0, <1>14 DEF ServeFailed, FileInv, StepInv
<1>15. CASE Drained \/ Join
  BY <1>0, <1>15 DEF Drained, Join, FileInv, StepInv
<1>16. CASE DrainTimesOut
  BY <1>0, <1>16 DEF DrainTimesOut, FileInv, StepInv
<1>17. CASE ServeStarts \/ ServeReturns \/ AcceptFails
  BY <1>0, <1>17 DEF ServeStarts, ShuttingDown, ServeReturns, AcceptFails, FileInv,
     StepInv
<1>18. CASE Request \/ Answer
  BY <1>0, <1>18 DEF Request, ShuttingDown, Answer, FileInv, StepInv
<1>19. ASSUME NEW d \in Docs, Change(d) PROVE FileInv'
  BY <1>0, <1>19 DEF Change, FileInv, StepInv
<1>20. CASE EditFile
  <2>1. /\ step \in Starting /\ pc = "start" /\ code = Running /\ file' # "skipped"
        /\ UNCHANGED <<inv, cmd, pc, step, found, conf, code>>
    BY <1>0, <1>20, CommandsAssumption DEF EditFile, StepInv, CliTypeOK
  <2>2. QED BY <1>0, <2>1 DEF FileInv
<1>21. CASE (Cancel \/ \E d \in Docs : Vanish(d)) /\ UNCHANGED cliVars
  BY <1>0, <1>21 DEF Cancel, Vanish, FileInv, StepInv
<1>22. CASE UNCHANGED allVars
  BY <1>0, <1>22 DEF allVars, FileInv, StepInv
<1>23. QED
  BY <1>1, <1>2, <1>3, <1>4, <1>5, <1>6, <1>7, <1>8, <1>9, <1>10, <1>11, <1>12, <1>13, <1>14,
     <1>15, <1>16, <1>17, <1>18, <1>19, <1>20, <1>21, <1>22
  DEF CliNext, CommandStep, ServeStep, Environment

\* Every step keeps what is written apart from what is still rendered.
LEMMA OutputSteps ==
  ASSUME CliIInv, [CliNext]_allVars, RunIInv'
  PROVE  OutputInv'
<1>0. CliTypeOK /\ RunIInv /\ StepInv /\ OutputInv /\ ServerInv
  BY DEF CliIInv
<1> USE CodeValues DEF Ended, Ends, Is, Setup, Shutdown, configVars, outputVars, cliVars, vars,
       ahead, given, run
<1>1. CASE Flags \/ Lstat \/ Load
  BY <1>0, <1>1 DEF Flags, Lstat, Configured, Load, OutputInv, StepInv, CliTypeOK,
     ServerInv
<1>2. CASE Pipeline
  BY <1>0, <1>2 DEF Pipeline, OutputInv, StepInv, CliTypeOK, ServerInv
<1>3. CASE RunEnds
  <2>1. code' # ExitUsage
    BY <1>0, <1>3 DEF RunEnds, RunIInv, TypeOK
  <2>2. QED BY <1>0, <1>3, <2>1 DEF RunEnds, OutputInv, StepInv, CliTypeOK, ServerInv
<1>4. CASE Analyzed
  <2>1. inv.usage = "after" => ~Is("serve")
    BY <1>0, CommandsAssumption DEF CliTypeOK
  <2>2. QED BY <1>0, <1>4, <2>1 DEF Analyzed, OutputInv, StepInv, CliTypeOK, ServerInv
<1>5. CASE ReadBody
  BY <1>0, <1>5 DEF ReadBody, OutputInv, StepInv, CliTypeOK, ServerInv
<1>6. CASE Rendered
  BY <1>0, <1>6 DEF Rendered, OutputInv, StepInv, CliTypeOK, ServerInv
<1>7. CASE WriteArtifact
  BY <1>0, <1>7 DEF WriteArtifact, OutputInv, StepInv, CliTypeOK, ServerInv
<1>8. CASE ArtifactFails
  BY <1>0, <1>8 DEF ArtifactFails, OutputInv, StepInv, CliTypeOK, ServerInv
<1>9. CASE AllWritten
  BY <1>0, <1>9 DEF AllWritten, OutputInv, StepInv, CliTypeOK, ServerInv
<1>10. CASE Listen
  BY <1>0, <1>10 DEF Listen, OutputInv, StepInv, CliTypeOK, ServerInv
<1>11. CASE Interrupted
  BY <1>0, <1>11 DEF Interrupted, OutputInv, StepInv, CliTypeOK, ServerInv
<1>12. CASE ServeFailed
  BY <1>0, <1>12 DEF ServeFailed, OutputInv, StepInv, CliTypeOK, ServerInv
<1>13. CASE Drained \/ Join
  BY <1>0, <1>13 DEF Drained, Join, OutputInv, StepInv, CliTypeOK, ServerInv
<1>14. CASE DrainTimesOut
  BY <1>0, <1>14 DEF DrainTimesOut, OutputInv, StepInv, CliTypeOK, ServerInv
<1>15. CASE ServeStarts \/ ServeReturns \/ AcceptFails
  BY <1>0, <1>15 DEF ServeStarts, ShuttingDown, ServeReturns, AcceptFails,
     OutputInv, StepInv, CliTypeOK, ServerInv
<1>16. CASE Request \/ Answer
  BY <1>0, <1>16 DEF Request, ShuttingDown, Answer, OutputInv, StepInv, CliTypeOK,
     ServerInv
<1>17. ASSUME NEW d \in Docs, Change(d) PROVE OutputInv'
  BY <1>0, <1>17 DEF Change, OutputInv, StepInv, CliTypeOK, ServerInv
<1>18. CASE EditFile \/ ((Cancel \/ \E d \in Docs : Vanish(d)) /\ UNCHANGED cliVars)
  BY <1>0, <1>18 DEF EditFile, Cancel, Vanish, OutputInv, StepInv, CliTypeOK, ServerInv
<1>19. CASE UNCHANGED allVars
  BY <1>0, <1>19 DEF allVars, OutputInv, StepInv, CliTypeOK, ServerInv
<1>20. QED
  BY <1>1, <1>2, <1>3, <1>4, <1>5, <1>6, <1>7, <1>8, <1>9, <1>10, <1>11, <1>12,
     <1>13, <1>14, <1>15, <1>16, <1>17, <1>18, <1>19
  DEF CliNext, CommandStep, ServeStep, Environment

\* Every step keeps the listener, the goroutine and the requests together.
LEMMA ServerSteps ==
  ASSUME CliIInv, [CliNext]_allVars, RunIInv'
  PROVE  ServerInv'
<1>0. CliTypeOK /\ StepInv /\ ServerInv
  BY DEF CliIInv
<1> USE CodeValues DEF Ended, Ends, Is, Setup, Shutdown, configVars, outputVars, cliVars, vars,
       ahead, given, run
<1>1. CASE Flags \/ Lstat \/ Load
  BY <1>0, <1>1 DEF Flags, Lstat, Configured, Load, ServerInv, StepInv, CliTypeOK
<1>2. CASE Pipeline
  BY <1>0, <1>2 DEF Pipeline, ServerInv, StepInv, CliTypeOK
<1>3. CASE RunEnds
  BY <1>0, <1>3 DEF RunEnds, ServerInv, StepInv, CliTypeOK
<1>4. CASE Analyzed
  <2>1. inv.usage = "after" => ~Is("serve")
    BY <1>0, CommandsAssumption DEF CliTypeOK
  <2>2. QED BY <1>0, <1>4, <2>1 DEF Analyzed, ServerInv, StepInv, CliTypeOK
<1>5. CASE ReadBody
  BY <1>0, <1>5 DEF ReadBody, ServerInv, StepInv, CliTypeOK
<1>6. CASE Rendered
  BY <1>0, <1>6 DEF Rendered, ServerInv, StepInv, CliTypeOK
<1>7. CASE WriteArtifact
  BY <1>0, <1>7 DEF WriteArtifact, ServerInv, StepInv, CliTypeOK
<1>8. CASE ArtifactFails
  BY <1>0, <1>8 DEF ArtifactFails, ServerInv, StepInv, CliTypeOK
<1>9. CASE AllWritten
  BY <1>0, <1>9 DEF AllWritten, ServerInv, StepInv, CliTypeOK
<1>10. CASE Listen
  BY <1>0, <1>10 DEF Listen, ServerInv, StepInv, CliTypeOK
<1>11. CASE Interrupted
  BY <1>0, <1>11 DEF Interrupted, ServerInv, StepInv, CliTypeOK
<1>12. CASE ServeFailed
  BY <1>0, <1>12 DEF ServeFailed, ServerInv, StepInv, CliTypeOK
<1>13. CASE Drained \/ Join
  BY <1>0, <1>13 DEF Drained, Join, ServerInv, StepInv, CliTypeOK
<1>14. CASE DrainTimesOut
  BY <1>0, <1>14 DEF DrainTimesOut, ServerInv, StepInv, CliTypeOK
<1>15. CASE ServeStarts \/ ServeReturns \/ AcceptFails
  BY <1>0, <1>15 DEF ServeStarts, ShuttingDown, ServeReturns, AcceptFails,
     ServerInv, StepInv, CliTypeOK
<1>16. CASE Request \/ Answer
  BY <1>0, <1>16 DEF Request, ShuttingDown, Answer, ServerInv, StepInv, CliTypeOK
<1>17. ASSUME NEW d \in Docs, Change(d) PROVE ServerInv'
  BY <1>0, <1>17 DEF Change, ServerInv, StepInv, CliTypeOK
<1>18. CASE EditFile \/ ((Cancel \/ \E d \in Docs : Vanish(d)) /\ UNCHANGED cliVars)
  BY <1>0, <1>18 DEF EditFile, Cancel, Vanish, ServerInv, StepInv, CliTypeOK
<1>19. CASE UNCHANGED allVars
  BY <1>0, <1>19 DEF allVars, ServerInv, StepInv, CliTypeOK
<1>20. QED
  BY <1>1, <1>2, <1>3, <1>4, <1>5, <1>6, <1>7, <1>8, <1>9, <1>10, <1>11, <1>12,
     <1>13, <1>14, <1>15, <1>16, <1>17, <1>18, <1>19
  DEF CliNext, CommandStep, ServeStep, Environment


\* Every step but five leaves the rendering, and what it is made of, alone.
Quiet ==
  \/ Flags \/ RunEnds \/ Rendered \/ WriteArtifact \/ ArtifactFails
  \/ AllWritten \/ Listen \/ Interrupted \/ ServeFailed \/ Drained \/ DrainTimesOut \/ Join
  \/ ServeStep \/ Environment \/ UNCHANGED allVars

\* What such a step may do.
LEMMA QuietSteps ==
  ASSUME Quiet
  PROVE  /\ UNCHANGED <<inv, conf, refs, corpus, due, text>>
         /\ \/ UNCHANGED body
            \/ \E d \in Docs : body[d] = "parsed" /\ \E b \in Bodies : body' = [body EXCEPT ![d] = b]
         /\ step' \in {"render", "write"} => step \in {"render", "write"}
         /\ written' # written => step = "write" /\ written < inv.artifacts
<1> USE DEF Ends, configVars, outputVars, cliVars, vars, given, run
<1>1. CASE Flags \/ RunEnds \/ Listen
  BY <1>1 DEF Flags, RunEnds, Listen
<1>2. CASE Rendered \/ WriteArtifact \/ ArtifactFails \/ AllWritten
  BY <1>2 DEF Rendered, WriteArtifact, ArtifactFails, AllWritten
<1>3. CASE Interrupted \/ ServeFailed \/ Drained \/ DrainTimesOut \/ Join \/ ServeStep
  BY <1>3 DEF Interrupted, ServeFailed, Drained, DrainTimesOut, Join, ServeStep,
     ServeStarts, ServeReturns
<1>4. CASE Environment
  BY <1>4 DEF Environment, EditFile, Change, Cancel, Vanish, Request, Answer, AcceptFails, Bodies
<1>5. CASE UNCHANGED allVars
  BY <1>5 DEF allVars
<1>6. QED BY <1>1, <1>2, <1>3, <1>4, <1>5 DEF Quiet

\* Every step keeps account of what is to be rendered.
LEMMA RenderSteps ==
  ASSUME CliIInv, [CliNext]_allVars, RunIInv'
  PROVE  RenderInv'
<1>0. CliTypeOK /\ RunIInv /\ StepInv /\ OutputInv /\ RenderInv
  BY DEF CliIInv
<1>1. CASE Quiet
  <2>1. /\ UNCHANGED <<inv, due, text>>
        /\ Hidden' = Hidden /\ \A a : Listed(a)' = Listed(a)
    BY <1>1, QuietSteps, ListedUnchanged
  <2>2. step' \in {"render", "write"} \/ written' > 0 => step \in {"render", "write"} \/ written > 0
    BY <1>1, QuietSteps
  <2>3. QED BY <1>0, <2>1, <2>2 DEF RenderInv
<1>2. CASE Pipeline
  BY <1>0, <1>2 DEF Pipeline, RenderInv, StepInv, OutputInv, cliVars, configVars, outputVars, Setup
<1>3. CASE Analyzed
  <2>1. /\ \A a : Listed(a)' = Listed(a)
        /\ Hidden' = Hidden
        /\ due' = {e \in inv.bodies \X corpus : e[2] \in Listed(e[1])}
        /\ text = {} /\ text' = {} /\ UNCHANGED <<inv, written>>
    BY <1>0, <1>3, ListedUnchanged DEF Analyzed, StepInv, Setup, configVars, vars, given, run
  <2>2. \A a \in inv.bodies, d \in Docs : d \in Listed(a) <=> <<a, d>> \in due'
    BY <2>1, ListedDocs
  <2>3. \A e \in due' : e[2] \notin Hidden
    BY <2>1, ListedDocs
  <2>4. QED BY <2>1, <2>2, <2>3 DEF RenderInv
<1>4. CASE ReadBody
  <2>1. PICK e \in NextBody : due' = due \ {e} /\ text' = text \union {<<e[1], e[2], body[e[2]]>>}
    BY <1>4 DEF ReadBody
  <2>2. /\ e \in due /\ e \in inv.bodies \X Docs /\ e = <<e[1], e[2]>>
        /\ e[1] = "full" \/ \A f \in due : f[1] = "small"
    BY <1>0, <2>1 DEF NextBody, CliTypeOK
  <2>3. /\ UNCHANGED <<inv, step, written>> /\ Hidden' = Hidden
        /\ \A a : Listed(a)' = Listed(a)
    BY <1>4, ListedUnchanged DEF ReadBody, configVars, vars, given, run
  <2>4. ASSUME NEW a \in inv.bodies, NEW d \in Docs
        PROVE  (<<a, d>> \in due \/ \E t \in text : t[1] = a /\ t[2] = d)
                 <=> (<<a, d>> \in due' \/ \E t \in text' : t[1] = a /\ t[2] = d)
    <3> DEFINE new == <<e[1], e[2], body[e[2]]>>
    <3>1. new[1] = e[1] /\ new[2] = e[2]
      OBVIOUS
    <3>2. text' = text \union {new}
      BY <2>1
    <3> HIDE DEF new
    <3>3. CASE <<a, d>> = e
      BY <2>1, <2>2, <3>1, <3>2, <3>3
    <3>4. CASE <<a, d>> # e
      <4>1. <<a, d>> \in due <=> <<a, d>> \in due'
        BY <2>1, <3>4
      <4>2. ~(new[1] = a /\ new[2] = d)
        BY <2>2, <3>1, <3>4
      <4>3. QED BY <3>2, <4>1, <4>2
    <3>5. QED BY <3>3, <3>4
  <2>5. step = "render"
    BY <1>4 DEF ReadBody
  <2>6. \A a \in inv'.bodies, d \in Docs :
          d \in Listed(a)' <=> (<<a, d>> \in due' \/ \E t \in text' : t[1] = a /\ t[2] = d)
    <3>1. \A a \in inv.bodies, d \in Docs :
            d \in Listed(a) <=> (<<a, d>> \in due \/ \E t \in text : t[1] = a /\ t[2] = d)
      BY <1>0, <2>5 DEF RenderInv
    <3>2. \A a \in inv.bodies, d \in Docs :
            d \in Listed(a) <=> (<<a, d>> \in due' \/ \E t \in text' : t[1] = a /\ t[2] = d)
      BY <2>4, <3>1, ZenonT(60)
    <3>3. QED BY <2>3, <3>2, ZenonT(60)
  <2>7. \A f \in due' : f[2] \notin Hidden'
    BY <1>0, <2>1, <2>3 DEF RenderInv
  <2>8. (\E f \in due' : f[1] = "full") => \A t \in text' : t[1] = "full"
    BY <1>0, <2>1, <2>2 DEF RenderInv
  <2>9. QED BY <2>6, <2>7, <2>8 DEF RenderInv
<1>5. CASE Lstat \/ Load
  <2>1. /\ due' = {} /\ text' = {} /\ ~(written' > 0)
        /\ step' \notin {"render", "write"}
    BY <1>0, <1>5, CodeValues DEF Lstat, Load, Configured, ahead, outputVars, Ends, StepInv,
       OutputInv, CliTypeOK, Setup
  <2>2. QED BY <2>1 DEF RenderInv
<1>6. QED
  BY <1>1, <1>2, <1>3, <1>4, <1>5 DEF CliNext, CommandStep, Quiet

\* Every end of a command has the code of its output.
LEMMA ExitSteps ==
  ASSUME CliIInv, [CliNext]_allVars, RunIInv'
  PROVE  OutputMatchesExit'
<1>0. CliTypeOK /\ RunIInv /\ StepInv /\ OutputInv /\ OutputMatchesExit
  BY DEF CliIInv
<1> USE CodeValues DEF Ended, Ends, Is, Setup, Shutdown, configVars, outputVars, cliVars, vars,
       ahead, given, run
<1>1. CASE Flags \/ Lstat \/ Load
  BY <1>0, <1>1 DEF Flags, Lstat, Configured, Load, OutputMatchesExit, StepInv,
     OutputInv, CliTypeOK
<1>2. CASE Pipeline
  BY <1>0, <1>2 DEF Pipeline, OutputMatchesExit, StepInv, OutputInv, CliTypeOK
<1>3. CASE RunEnds
  <2>1. code' # ExitUsage /\ (~Is("check") => code' = ExitRuntime)
    BY <1>0, <1>3 DEF RunEnds, RunIInv, TypeOK, ExitInv, StepInv
  <2>2. QED BY <1>0, <1>3, <2>1 DEF RunEnds, OutputMatchesExit, StepInv, OutputInv
<1>4. CASE Analyzed
  BY <1>0, <1>4 DEF Analyzed, OutputMatchesExit, StepInv, OutputInv, CliTypeOK
<1>5. CASE ReadBody
  BY <1>0, <1>5 DEF ReadBody, OutputMatchesExit, StepInv, OutputInv, CliTypeOK
<1>6. CASE Rendered
  <2>1. inv.artifacts \in Nat /\ written = 0 /\ ~torn
    BY <1>0, <1>6, CommandsAssumption DEF Rendered, CliTypeOK, OutputInv
  <2>2. QED BY <1>0, <1>6, <2>1 DEF Rendered, OutputMatchesExit, StepInv, OutputInv
<1>7. CASE WriteArtifact
  BY <1>0, <1>7 DEF WriteArtifact, OutputMatchesExit, StepInv, OutputInv, CliTypeOK
<1>8. CASE ArtifactFails
  BY <1>0, <1>8 DEF ArtifactFails, OutputMatchesExit, StepInv, OutputInv, CliTypeOK
<1>9. CASE AllWritten
  BY <1>0, <1>9 DEF AllWritten, OutputMatchesExit, StepInv, OutputInv, CliTypeOK
<1>10. CASE Listen
  BY <1>0, <1>10 DEF Listen, OutputMatchesExit, StepInv, OutputInv, CliTypeOK
<1>11. CASE Interrupted
  BY <1>0, <1>11 DEF Interrupted, OutputMatchesExit, StepInv, OutputInv, CliTypeOK
<1>12. CASE ServeFailed
  BY <1>0, <1>12 DEF ServeFailed, OutputMatchesExit, StepInv, OutputInv, CliTypeOK
<1>13. CASE Join
  <2>1. inv.artifacts = 0 /\ written = 0 /\ ~torn
    BY <1>0, <1>13, CommandsAssumption DEF Join, CliTypeOK, StepInv, OutputInv
  <2>2. QED BY <1>0, <1>13, <2>1 DEF Join, OutputMatchesExit, StepInv, OutputInv
<1>14. CASE Drained
  BY <1>0, <1>14 DEF Drained, OutputMatchesExit, StepInv, OutputInv, CliTypeOK
<1>15. CASE DrainTimesOut
  BY <1>0, <1>15 DEF DrainTimesOut, OutputMatchesExit, StepInv, OutputInv, CliTypeOK
<1>16. CASE ServeStarts \/ ServeReturns \/ AcceptFails
  BY <1>0, <1>16 DEF ServeStarts, ShuttingDown, ServeReturns, AcceptFails,
     OutputMatchesExit, StepInv, OutputInv, CliTypeOK
<1>17. CASE Request \/ Answer
  BY <1>0, <1>17 DEF Request, ShuttingDown, Answer, OutputMatchesExit, StepInv,
     OutputInv, CliTypeOK
<1>18. ASSUME NEW d \in Docs, Change(d) PROVE OutputMatchesExit'
  BY <1>0, <1>18 DEF Change, OutputMatchesExit, StepInv, OutputInv, CliTypeOK
<1>19. CASE EditFile \/ ((Cancel \/ \E d \in Docs : Vanish(d)) /\ UNCHANGED cliVars)
  BY <1>0, <1>19 DEF EditFile, Cancel, Vanish, OutputMatchesExit, StepInv, OutputInv,
     CliTypeOK
<1>20. CASE UNCHANGED allVars
  BY <1>0, <1>20 DEF allVars, OutputMatchesExit, StepInv, OutputInv, CliTypeOK
<1>21. QED
  BY <1>1, <1>2, <1>3, <1>4, <1>5, <1>6, <1>7, <1>8, <1>9, <1>10, <1>11, <1>12,
     <1>13, <1>14, <1>15, <1>16, <1>17, <1>18, <1>19, <1>20
  DEF CliNext, CommandStep, ServeStep, Environment

\* Every end of serve leaves nothing open.
LEMMA ClosedSteps ==
  ASSUME CliIInv, [CliNext]_allVars, RunIInv'
  PROVE  ServerIsClosed'
<1>0. CliTypeOK /\ RunIInv /\ StepInv /\ ServerInv /\ ServerIsClosed
  BY DEF CliIInv
<1> USE CodeValues DEF Ended, Ends, Is, Setup, Shutdown, configVars, outputVars, cliVars, vars,
       ahead, given, run
<1>1. CASE Flags \/ Lstat \/ Load
  BY <1>0, <1>1 DEF Flags, Lstat, Configured, Load, ServerIsClosed, StepInv,
     ServerInv, CliTypeOK
<1>2. CASE Pipeline
  BY <1>0, <1>2 DEF Pipeline, ServerIsClosed, StepInv, ServerInv, CliTypeOK
<1>3. CASE RunEnds
  BY <1>0, <1>3 DEF RunEnds, ServerIsClosed, StepInv, ServerInv, CliTypeOK
<1>4. CASE Analyzed
  <2>1. inv.usage = "after" => ~Is("serve")
    BY <1>0, CommandsAssumption DEF CliTypeOK
  <2>2. QED BY <1>0, <1>4, <2>1 DEF Analyzed, ServerIsClosed, StepInv, ServerInv, CliTypeOK
<1>5. CASE ReadBody
  BY <1>0, <1>5 DEF ReadBody, ServerIsClosed, StepInv, ServerInv, CliTypeOK
<1>6. CASE Rendered
  BY <1>0, <1>6 DEF Rendered, ServerIsClosed, StepInv, ServerInv, CliTypeOK
<1>7. CASE WriteArtifact
  BY <1>0, <1>7 DEF WriteArtifact, ServerIsClosed, StepInv, ServerInv, CliTypeOK
<1>8. CASE ArtifactFails
  BY <1>0, <1>8 DEF ArtifactFails, ServerIsClosed, StepInv, ServerInv, CliTypeOK
<1>9. CASE AllWritten
  BY <1>0, <1>9 DEF AllWritten, ServerIsClosed, StepInv, ServerInv, CliTypeOK
<1>10. CASE Listen
  BY <1>0, <1>10 DEF Listen, ServerIsClosed, StepInv, ServerInv, CliTypeOK
<1>11. CASE Interrupted
  BY <1>0, <1>11 DEF Interrupted, ServerIsClosed, StepInv, ServerInv, CliTypeOK
<1>12. CASE ServeFailed
  BY <1>0, <1>12 DEF ServeFailed, ServerIsClosed, StepInv, ServerInv, CliTypeOK
<1>13. CASE Drained \/ Join
  BY <1>0, <1>13 DEF Drained, Join, ServerIsClosed, StepInv, ServerInv, CliTypeOK
<1>14. CASE DrainTimesOut
  BY <1>0, <1>14 DEF DrainTimesOut, ServerIsClosed, StepInv, ServerInv, CliTypeOK
<1>15. CASE ServeStarts \/ ServeReturns \/ AcceptFails
  BY <1>0, <1>15 DEF ServeStarts, ShuttingDown, ServeReturns, AcceptFails,
     ServerIsClosed, StepInv, ServerInv, CliTypeOK
<1>16. CASE Request \/ Answer
  BY <1>0, <1>16 DEF Request, ShuttingDown, Answer, ServerIsClosed, StepInv,
     ServerInv, CliTypeOK
<1>17. ASSUME NEW d \in Docs, Change(d) PROVE ServerIsClosed'
  BY <1>0, <1>17 DEF Change, ServerIsClosed, StepInv, ServerInv, CliTypeOK
<1>18. CASE EditFile \/ ((Cancel \/ \E d \in Docs : Vanish(d)) /\ UNCHANGED cliVars)
  BY <1>0, <1>18 DEF EditFile, Cancel, Vanish, ServerIsClosed, StepInv, ServerInv, CliTypeOK
<1>19. CASE UNCHANGED allVars
  BY <1>0, <1>19 DEF allVars, ServerIsClosed, StepInv, ServerInv, CliTypeOK
<1>20. QED
  BY <1>1, <1>2, <1>3, <1>4, <1>5, <1>6, <1>7, <1>8, <1>9, <1>10, <1>11, <1>12,
     <1>13, <1>14, <1>15, <1>16, <1>17, <1>18, <1>19
  DEF CliNext, CommandStep, ServeStep, Environment


\* A note, or a changed body, is in the text only of a document that changed, and
\* the full text is complete when the small one begins.
LEMMA BodySteps ==
  ASSUME CliIInv, [CliNext]_allVars, RunIInv', CliTypeOK', OutputInv', RenderInv'
  PROVE  BodiesAreHonest'
<1>0. CliTypeOK /\ StepInv /\ RenderInv /\ BodiesAreHonest
  BY DEF CliIInv
<1>1. /\ \A t \in text' : t[3] # body'[t[2]] => t[3] = "parsed"
      /\ \A t, u \in text' :
           t[1] = "full" /\ u[1] = "small" /\ t[2] = u[2] /\ t[3] # "parsed" => u[3] = t[3]
      /\ \A t \in text' : t[2] \notin Hidden'
  <2>1. CASE Quiet
    <3>1. UNCHANGED text /\ Hidden' = Hidden
      BY <2>1, QuietSteps, ListedUnchanged
    <3>2. CASE UNCHANGED body
      BY <1>0, <3>1, <3>2 DEF BodiesAreHonest
    <3>3. ASSUME NEW d \in Docs, body[d] = "parsed", NEW b \in Bodies,
                 body' = [body EXCEPT ![d] = b]
          PROVE  \A t \in text' : t[3] # body'[t[2]] => t[3] = "parsed"
      BY <1>0, <3>1, <3>3 DEF BodiesAreHonest, CliTypeOK
    <3>4. QED BY <1>0, <2>1, <3>1, <3>2, <3>3, QuietSteps DEF BodiesAreHonest
  <2>2. CASE Pipeline \/ Analyzed
    <3>1. text = {} \/ UNCHANGED <<text, body, inv>>
      BY <2>2 DEF Pipeline, Analyzed, cliVars, outputVars
    <3>2. UNCHANGED <<text, body>> /\ Hidden' = Hidden
      BY <2>2 DEF Pipeline, Analyzed, cliVars, configVars, outputVars, Hidden
    <3>3. QED BY <1>0, <3>2 DEF BodiesAreHonest
  <2>3. CASE ReadBody
    <3>1. PICK e \in NextBody :
            /\ due' = due \ {e}
            /\ text' = text \union {<<e[1], e[2], body[e[2]]>>}
            /\ UNCHANGED <<body, inv, conf>>
      BY <2>3 DEF ReadBody, configVars
    <3> DEFINE new == <<e[1], e[2], body[e[2]]>>
    <3>2. text' = text \union {new} /\ new[1] = e[1] /\ new[2] = e[2] /\ new[3] = body[e[2]]
      BY <3>1
    <3> HIDE DEF new
    <3>3. e \in due /\ Hidden' = Hidden /\ e[1] \in {"full", "small"}
      <4>1. inv.bodies \subseteq {"full", "small"}
        BY <1>0, CommandsAssumption DEF CliTypeOK
      <4>2. QED BY <1>0, <3>1, <4>1 DEF NextBody, Hidden, CliTypeOK
    <3>4. \A t \in text' : t[3] # body'[t[2]] => t[3] = "parsed"
      BY <1>0, <3>1, <3>2 DEF BodiesAreHonest
    <3>5. \A t \in text' : t[2] \notin Hidden'
      BY <1>0, <3>2, <3>3 DEF BodiesAreHonest, RenderInv
    <3>6. ASSUME NEW t \in text', NEW u \in text',
                 t[1] = "full", u[1] = "small", t[2] = u[2], t[3] # "parsed"
          PROVE  u[3] = t[3]
      <4>1. CASE t \in text /\ u \in text
        BY <1>0, <3>6, <4>1 DEF BodiesAreHonest
      <4>2. CASE t = new
        <5>1. u \in text
          BY <3>2, <3>6, <4>2
        <5>2. e[1] = "full"
          BY <3>2, <3>6, <4>2
        <5>3. u[1] = "full"
          BY <1>0, <3>3, <5>1, <5>2 DEF RenderInv
        <5>4. QED BY <3>6, <5>3
      <4>3. CASE u = new /\ t \in text
        <5>1. t[3] = body[t[2]]
          BY <1>0, <3>6, <4>3 DEF BodiesAreHonest
        <5>2. QED BY <3>2, <3>6, <4>3, <5>1
      <4>4. QED BY <3>2, <4>1, <4>2, <4>3
    <3>7. QED BY <3>4, <3>5, <3>6
  <2>4. CASE Lstat \/ Load
    <3>1. text' = {}
      BY <1>0, <2>4 DEF Lstat, Load, ahead, outputVars, StepInv, Setup
    <3>2. QED BY <3>1
  <2>5. QED BY <2>1, <2>2, <2>3, <2>4 DEF CliNext, CommandStep, Quiet
<1>2. ASSUME written' > 0, NEW a \in inv'.bodies
      PROVE  {t[2] : t \in {u \in text' : u[1] = a}} = Listed(a)'
  <2>1. due' = {}
    BY <1>2 DEF OutputInv
  <2>2. \A d \in Docs : d \in Listed(a)' <=> \E t \in text' : t[1] = a /\ t[2] = d
    BY <1>2, <2>1 DEF RenderInv
  <2>3. \A t \in text' : t[2] \in Docs
    BY DEF CliTypeOK
  <2>4. QED
    <3>1. ASSUME NEW d \in Listed(a)' PROVE d \in Docs
      <4>1. d \in corpus'
        BY <3>1 DEF Listed, Reachable
      <4>2. QED BY <4>1 DEF RunIInv, TypeOK
    <3>2. QED BY <2>2, <2>3, <3>1
<1>3. QED BY <1>1, <1>2 DEF BodiesAreHonest


\* The invariant of the command, all together.
LEMMA NextCli == CliIInv /\ [CliNext]_allVars => CliIInv'
<1> SUFFICES ASSUME CliIInv, [CliNext]_allVars PROVE CliIInv'
  OBVIOUS
<1>1. [Next]_vars \/ Lstat \/ Load
  BY CliRunSteps DEF allVars
<1>2. RunIInv'
  <2>1. CASE [Next]_vars
    BY <2>1, NextRun DEF CliIInv
  <2>2. CASE Lstat \/ Load
    <3>1. pc = "start" /\ inv \in Invocations /\ RunIInv
      BY <2>2 DEF CliIInv, CliTypeOK, StepInv, Setup, Lstat, Load
    <3>2. /\ cmd' = cmd \/ \E c : cmd' = Effective(inv, c)
          /\ UNCHANGED <<refs, ctxDone, lost, pc, run, disk, exit>>
      BY <2>2 DEF Lstat, Load, Configured, ahead
    <3>3. cmd' \in Command
      BY <3>1, <3>2, EffectiveCommand DEF RunIInv, TypeOK
    <3>4. QED BY <3>1, <3>2, <3>3, Reconfigured
  <2>3. QED BY <1>1, <2>1, <2>2
<1>3. CliTypeOK' /\ StepInv' /\ FileInv' /\ OutputInv' /\ RenderInv' /\ ServerInv'
  BY <1>2, TypeSteps, StepSteps, FileSteps, OutputSteps, RenderSteps, ServerSteps
<1>4. ConfigIsHonoured'
  <2>1. code' = ExitUsage => step' \notin Starting
    BY <1>3, CodeValues DEF StepInv, Ended, Starting
  <2>2. QED BY <1>3, <2>1 DEF FileInv, OutputInv, ConfigIsHonoured
<1>5. OutputMatchesExit' /\ BodiesAreHonest' /\ ServerIsClosed'
  BY <1>2, <1>3, ExitSteps, BodySteps, ClosedSteps
<1>6. QED BY <1>2, <1>3, <1>4, <1>5 DEF CliIInv

\* The invariant holds in every reachable state.
LEMMA CliInvariance == CliSpec => []CliIInv
BY InitCli, NextCli, PTL DEF CliSpec

-----------------------------------------------------------------------------
\* What CheckRun promises of its run holds of the run of every command, whatever
\* flags and file made of the command line (cmd/matlatl, configFromFlags).
THEOREM CommandsRun == CliSpec => [](VerdictIsHonest /\ ArtifactsMatchExit)
<1>1. CliIInv => VerdictIsHonest /\ ArtifactsMatchExit
  BY HonestOf DEF CliIInv
<1>2. QED BY <1>1, CliInvariance, PTL

\* A command analyzes its tree with the settings of a .matlatl.yml that was there while
\* it started, whatever became of the file between Lstat and ReadFile, and without any
\* only if none was found, it was empty, or a notice was due (config.Load).
THEOREM ConfigHonoured == CliSpec => []ConfigIsHonoured
<1>1. CliIInv => ConfigIsHonoured
  BY DEF CliIInv
<1>2. QED BY <1>1, CliInvariance, PTL

\* The exit code of every command tells what it left on the disk (ADR 0005).
THEOREM OutputAgrees == CliSpec => []OutputMatchesExit
<1>1. CliIInv => OutputMatchesExit
  BY DEF CliIInv
<1>2. QED BY <1>1, CliInvariance, PTL

\* For any number of documents that change, vanish or grow while they are read again,
\* the two texts of the bundle list what they should, and note only what is gone.
THEOREM HonestBodies == CliSpec => []BodiesAreHonest
<1>1. CliIInv => BodiesAreHonest
  BY DEF CliIInv
<1>2. QED BY <1>1, CliInvariance, PTL

\* For any number of open requests: when serve returns its listener is closed, its
\* goroutine is gone, and 0 means that every request was answered (ServeListener).
THEOREM ClosedServer == CliSpec => []ServerIsClosed
<1>1. CliIInv => ServerIsClosed
  BY DEF CliIInv
<1>2. QED BY <1>1, CliInvariance, PTL
=============================================================================
