------------------------------ MODULE CheckRun ------------------------------
(***************************************************************************)
(* One run of `matlatl check`: Pipeline.Run (internal/application:         *)
(* pipeline.go, parse.go, findings.go), the command around it              *)
(* (cmd/matlatl: check.go, main.go) and the writer of its two artifacts    *)
(* (internal/infrastructure/emit/writer.go).                               *)
(*                                                                         *)
(* The scan, the parse stage and the link checker are taken at their word: *)
(* each is one step here, with the outcomes that ScanWalk, ParsePool and   *)
(* LinkCheck show it to have.  Documents are numbers in DocumentID order.  *)
(* BOUND: references have no fragment and name no directory, asset or      *)
(* alias, and structure findings keep their default severity, Info.        *)
(***************************************************************************)
EXTENDS Integers, FiniteSets

CONSTANTS
  Docs,        \* the documents the ignore rules leave in the tree
  RefSets,     \* what the documents may refer to (see References)
  Roots,       \* documents that are roots wherever they are read
  Untyped      \* documents that break a rule of OKF

\* A reference names the documents its target matches: at most one when it is a
\* path, any number when it is a wikilink; an external one is a URL.
References ==
  [from : Docs, kind : {"path", "wiki", "url"}, to : SUBSET Docs]

ASSUME CheckRunAssumption ==
  /\ Docs \subseteq Nat /\ IsFiniteSet(Docs)
  /\ RefSets \subseteq SUBSET References
  /\ \A refs \in RefSets : \A r \in refs : r.kind = "path" => Cardinality(r.to) <= 1
  /\ Roots \subseteq Docs /\ Untyped \subseteq Docs

VARIABLES
  refs,      \* the references of the documents
  cmd,       \* the command line
  ctxDone,   \* SIGINT or SIGTERM was received
  lost,      \* documents that have disappeared from the tree
  pc,        \* the stage the run is in
  scanned,   \* documents of ScanResult.Files
  failed,    \* those whose parseResult is an error
  corpus,    \* documents of the frozen corpus
  noticed,   \* documents a notice of the log stands for
  dead,      \* external references reported as DeadLink
  disk,      \* what each artifact in --out holds
  exit       \* the exit code

given == <<refs, cmd>>
run   == <<scanned, failed, corpus, noticed, dead>>
vars  == <<given, ctxDone, lost, pc, run, disk, exit>>

Artifacts == 1..2    \* findings.json, then junit.xml

\* ADR 0005; usage errors end before the run begins.
ExitOK       == 0
ExitFindings == 1
ExitRuntime  == 3
Running      == -1

-----------------------------------------------------------------------------
(* Resolve, build, analyze: pure functions of the documents of the corpus. *)

Read(docs) == {r \in refs : r.from \in docs}

External(docs) == {r \in Read(docs) : r.kind = "url"}
Internal(docs) == Read(docs) \ External(docs)

Broken(docs)    == {r \in Internal(docs) : r.to \intersect docs = {}}
Ambiguous(docs) == {r \in Internal(docs) : Cardinality(r.to \intersect docs) > 1}
Valid(docs)     == Internal(docs) \ (Broken(docs) \union Ambiguous(docs))

\* The projection has no self-loops and no edge that does not resolve.
Edges(docs) ==
  {e \in docs \X docs : e[1] # e[2] /\ \E r \in Valid(docs) : r.from = e[1] /\ e[2] \in r.to}

RootSet(docs) == Roots \intersect docs

Orphan(docs) ==
  {d \in docs \ RootSet(docs) : \A e \in Edges(docs) : d # e[1] /\ d # e[2]}

Unreachable(docs) ==
  IF RootSet(docs) = {} THEN {}
  ELSE {d \in docs \ Orphan(docs) :
          \E S \in SUBSET docs :
            /\ RootSet(docs) \subseteq S /\ d \notin S
            /\ \A e \in Edges(docs) : e[1] \in S => e[2] \in S}

\* Dead links are counted in the Result and gate nothing.
CheckExitCode(docs, deadLinks, c) ==
  IF \/ c.okf /\ Untyped \intersect docs # {}
     \/ Broken(docs) # {}
     \/ c.strict /\ Ambiguous(docs) # {}
     \/ c.strict /\ Orphan(docs) \union Unreachable(docs) # {}
  THEN ExitFindings ELSE ExitOK

-----------------------------------------------------------------------------
\* The flags, and whether more than one parse worker is configured or detected.
Command ==
  [strict : BOOLEAN, okf : BOOLEAN, external : BOOLEAN, out : BOOLEAN, pool : BOOLEAN]

Init ==
  /\ refs \in RefSets /\ cmd \in Command
  /\ ctxDone = FALSE /\ lost = {}
  /\ pc = "start"
  /\ scanned = {} /\ failed = {} /\ corpus = {} /\ noticed = {} /\ dead = {}
  /\ disk = [a \in Artifacts |-> "old"]
  /\ exit = Running

Cancel ==
  /\ ~ctxDone /\ ctxDone' = TRUE
  /\ UNCHANGED <<given, lost, pc, run, disk, exit>>

\* A document is removed or becomes unreadable.  Once parsed it does not matter.
Vanish(d) ==
  /\ pc \in {"start", "scan", "parse"} /\ d \notin lost
  /\ lost' = lost \union {d}
  /\ UNCHANGED <<given, ctxDone, pc, run, disk, exit>>

Exit(code) == exit' = code /\ pc' = "exit"

Start ==
  /\ pc = "start"
  /\ IF ctxDone THEN Exit(ExitRuntime) ELSE pc' = "scan" /\ UNCHANGED exit
  /\ UNCHANGED <<given, ctxDone, lost, run, disk>>

(* Stage 1.  Scan answers with documents that are there, and a notice for  *)
(* whatever else is there (ScanWalk, NothingIsLost); or with an error.     *)

Scan ==
  /\ pc = "scan" /\ ~ctxDone
  /\ \E S \in SUBSET (Docs \ lost) :
       scanned' = S /\ noticed' = (Docs \ lost) \ S
  /\ pc' = "parse"
  /\ UNCHANGED <<given, ctxDone, lost, failed, corpus, dead, disk, exit>>

ScanFails ==
  /\ pc = "scan"
  /\ Exit(ExitRuntime)
  /\ UNCHANGED <<given, ctxDone, lost, run, disk>>

(* Stage 2.  parseFiles answers with a result per file, or with the        *)
(* cancellation; or, on the sequential path, with a result per file of     *)
(* which the last is the cancellation (ParsePool, SuccessIsComplete).      *)

Parse ==
  /\ pc = "parse" /\ (~ctxDone \/ scanned = {})
  /\ failed' = scanned \intersect lost
  /\ pc' = "merge"
  /\ UNCHANGED <<given, ctxDone, lost, scanned, corpus, noticed, dead, disk, exit>>

Last(S) == {d \in S : \A e \in S : e <= d}

\* resolveWorkerCount: never more workers than files.
Sequential == ~cmd.pool \/ \A d, e \in scanned : d = e

ParseLate ==
  /\ pc = "parse" /\ ctxDone /\ scanned # {} /\ Sequential
  /\ failed' = (scanned \intersect lost) \union Last(scanned)
  /\ pc' = "merge"
  /\ UNCHANGED <<given, ctxDone, lost, scanned, corpus, noticed, dead, disk, exit>>

ParseCanceled ==
  /\ pc = "parse" /\ ctxDone /\ scanned # {}
  /\ Exit(ExitRuntime)
  /\ UNCHANGED <<given, ctxDone, lost, run, disk>>

(* The merge and the freeze; stages 3 to 5 follow with no further input.   *)

\* Mutant of Merge: a file that cannot be parsed is passed over in silence.
MergeSilently ==
  /\ pc = "merge"
  /\ corpus' = scanned \ failed
  /\ pc' = IF cmd.external THEN "external" ELSE IF cmd.out THEN "emit" ELSE "verdict"
  /\ UNCHANGED <<given, ctxDone, lost, scanned, failed, noticed, dead, disk, exit>>

Merge ==
  /\ pc = "merge"
  /\ corpus' = scanned \ failed
  /\ noticed' = noticed \union failed
  /\ pc' = IF cmd.external THEN "external" ELSE IF cmd.out THEN "emit" ELSE "verdict"
  /\ UNCHANGED <<given, ctxDone, lost, scanned, failed, dead, disk, exit>>

\* checkExternalLinks: every URL has a result (LinkCheck, MapIsComplete), and
\* once the context is done none of them is good.
CheckExternal ==
  /\ pc = "external"
  /\ \E D \in SUBSET External(corpus) :
       (ctxDone => D = External(corpus)) /\ dead' = D
  /\ pc' = IF cmd.out THEN "emit" ELSE "verdict"
  /\ UNCHANGED <<given, ctxDone, lost, scanned, failed, corpus, noticed, disk, exit>>

(* Stage 6.  FSWriter.Write, one artifact after the other; each is written *)
(* in place, so that a failure may leave it half written.                  *)

\* The artifact whose turn it is.
Due(a) == disk[a] = "old" /\ \A b \in Artifacts : b < a => disk[b] = "new"

Write(a) ==
  /\ pc = "emit" /\ ~ctxDone /\ Due(a)
  /\ disk' = [disk EXCEPT ![a] = "new"]
  /\ UNCHANGED <<given, ctxDone, lost, pc, run, exit>>

\* Mutant of WriteFails: the error of a write is not returned.
WriteUnchecked(a) ==
  /\ pc = "emit" /\ ~ctxDone /\ Due(a)
  /\ disk' = [disk EXCEPT ![a] = "torn"]
  /\ pc' = "verdict"
  /\ UNCHANGED <<given, ctxDone, lost, run, exit>>

WriteFails(a) ==
  /\ pc = "emit" /\ ~ctxDone /\ Due(a)
  /\ \E left \in {"old", "torn"} : disk' = [disk EXCEPT ![a] = left]
  /\ Exit(ExitRuntime)
  /\ UNCHANGED <<given, ctxDone, lost, run>>

WriteCanceled ==
  /\ pc = "emit" /\ ctxDone /\ \E a \in Artifacts : Due(a)
  /\ Exit(ExitRuntime)
  /\ UNCHANGED <<given, ctxDone, lost, run, disk>>

Written ==
  /\ pc = "emit" /\ \A a \in Artifacts : disk[a] = "new"
  /\ pc' = "verdict"
  /\ UNCHANGED <<given, ctxDone, lost, run, disk, exit>>

Verdict ==
  /\ pc = "verdict"
  /\ Exit(CheckExitCode(corpus, dead, cmd))
  /\ UNCHANGED <<given, ctxDone, lost, run, disk>>

Terminating == pc = "exit" /\ UNCHANGED vars

Stages ==
  \/ Start \/ Scan \/ ScanFails \/ Parse \/ ParseLate \/ ParseCanceled
  \/ Merge \/ CheckExternal \/ WriteCanceled \/ Written \/ Verdict
  \/ \E a \in Artifacts : Write(a) \/ WriteFails(a)

Next == Stages \/ Cancel \/ Terminating \/ \E d \in Docs : Vanish(d)

\* Every stage returns (ScanEnds, Returns, CheckReturns).
Spec == Init /\ [][Next]_vars /\ WF_vars(Stages)

-----------------------------------------------------------------------------
\* Every stage hands on a part of what it was given: failed results are of
\* scanned files, corpus documents were scanned, dead links were read.
TypeOK ==
  /\ refs \in RefSets /\ cmd \in Command
  /\ ctxDone \in BOOLEAN /\ lost \subseteq Docs
  /\ pc \in {"start", "scan", "parse", "merge", "external", "emit", "verdict", "exit"}
  /\ failed \subseteq scanned /\ scanned \subseteq Docs
  /\ corpus \subseteq scanned /\ noticed \subseteq Docs
  /\ dead \subseteq refs
  /\ disk \in [Artifacts -> {"old", "torn", "new"}]
  /\ exit \in {Running, ExitOK, ExitFindings, ExitRuntime}

Answered == exit \in {ExitOK, ExitFindings}

\* ADR 0005: an exit code of 0 or 1 is the verdict on the tree without the
\* documents a notice of this very run stands for, or that were gone when it was
\* scanned; a file lost later is never lost without a notice, and the network has
\* no say ("DeadLinkCount is deliberately excluded from the exit contract").
VerdictIsExplained ==
  Answered =>
    \E gone \in SUBSET (lost \ scanned) :
      exit = CheckExitCode(Docs \ (noticed \union gone), {}, cmd)

\* A verdict is about every readable document that was scanned, interrupted or
\* not, up to one: on the sequential path the last may be missing from it.
VerdictIsComplete ==
  Answered =>
    LET missing == (scanned \ lost) \ corpus
    IN  missing = {} \/ (ctxDone /\ Sequential /\ missing = Last(scanned))

\* The verdict is honest, with the types of the run: it is the one on what the log
\* says was left, and that is all there was.
VerdictIsHonest == TypeOK /\ VerdictIsExplained /\ VerdictIsComplete

\* check, "Emit artifacts when --out is set (always, regardless of outcome)": a
\* verdict comes with both artifacts of this run; a mix of runs, or a torn file,
\* only with exit code 3.
ArtifactsMatchExit ==
  /\ Answered /\ cmd.out => \A a \in Artifacts : disk[a] = "new"
  /\ \A a \in Artifacts : disk[a] # "old" => cmd.out /\ corpus = scanned \ failed
  /\ \A a, b \in Artifacts : a < b /\ disk[b] # "old" => disk[a] = "new"
=============================================================================
