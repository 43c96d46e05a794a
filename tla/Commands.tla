------------------------------ MODULE Commands ------------------------------
(***************************************************************************)
(* Every command of matlatl (cmd/matlatl): the command line and            *)
(* .matlatl.yml (root.go, internal/infrastructure/config), the run of      *)
(* CheckRun, and what each command makes of it: check its verdict, emit    *)
(* and index their artifacts with document bodies read once more           *)
(* (emit/llmstxt), graph, report, orphans, fixprompt and the bare command   *)
(* one rendering, serve a server that lives until it is interrupted         *)
(* (internal/infrastructure/mcpserver).                                    *)
(*                                                                         *)
(* The variables of CheckRun are those of the pipeline; cmd is what        *)
(* configFromFlags has made of flags and file so far.  BOUND: of the       *)
(* file's keys, okf and emitExclude; the file changes once while the       *)
(* command starts, and becomes neither a symlink nor too large; a body     *)
(* changes once, after it was parsed; at most MaxRequests are open.        *)
(***************************************************************************)
EXTENDS CheckRun, Sequences

CONSTANTS
  Invocations,   \* command lines, with what .matlatl.yml is and what they are run on
  Excluded,      \* the documents its emitExclude matches
  Notable,       \* hubs, and documents with an onboarding name
  MaxRequests

Names == {"check", "matlatl", "emit", "index", "graph", "report", "orphans",
          "fixprompt", "serve"}

\* What is at .matlatl.yml: "absent", nothing or no regular file; "skipped", a symlink
\* or too large; "unreadable"; "wrong", a mistake in it; "empty"; or settings, of which
\* all have emitExclude and some okf.
FileKinds == {"absent", "skipped", "unreadable", "wrong", "empty", "valid", "valid_okf"}

\* What Load makes of content without a mistake: no settings, or those of the file.
Settings(kind) == IF kind \in {"valid", "valid_okf"} THEN kind ELSE "zero"

ASSUME CommandsAssumption ==
  /\ \A i \in Invocations :
       /\ i.name \in Names /\ i.flags \in Command
       /\ i.file \in FileKinds /\ i.becomes \subseteq FileKinds \ {"skipped"}
       /\ i.usage \in {"ok", "early", "late", "after"}
       /\ i.quiet \in BOOLEAN /\ i.bodies \subseteq {"full", "small"}
       /\ i.trees \subseteq RefSets /\ i.artifacts \in Nat
       /\ i.usage = "after" => i.name = "graph"
       /\ i.name = "serve" => i.artifacts = 0
  /\ Excluded \subseteq Docs /\ Notable \subseteq Docs /\ MaxRequests \in Nat

VARIABLES
  inv,       \* the invocation
  step,      \* where the command is
  file,      \* what .matlatl.yml is now
  found,     \* whether Lstat found a regular file within the cap
  conf,      \* the settings Load returned
  logged,    \* whether a notice said that .matlatl.yml was skipped
  body,      \* what has become of the bodies since they were parsed
  due,       \* what is still to be rendered: <<artifact, document>>
  text,      \* the bodies rendered so far: <<artifact, document, body>>
  written,   \* how many artifacts are on the disk
  torn,      \* whether the one after them is half written
  server,    \* the MCP server: listener, the goroutine in Serve, requests
  code       \* the exit code of the process

configVars == <<file, found, conf, logged>>
outputVars == <<body, due, text, written, torn>>
cliVars    == <<inv, step, configVars, outputVars, server, code>>
allVars    == <<vars, cliVars>>

ExitUsage == 2

Is(name)  == inv.name = name
Ended     == code # Running
Ends(c)   == step' = "exit" /\ code' = c

-----------------------------------------------------------------------------
(* configFromFlags.  Flags and file only add to each other; serve takes    *)
(* nothing but the path, and only check has artifacts of the run itself.   *)

Effective(i, c) ==
  IF i.name = "serve"
  THEN [i.flags EXCEPT !.strict = FALSE, !.okf = FALSE, !.external = FALSE, !.out = FALSE]
  ELSE [i.flags EXCEPT !.okf = @ \/ c = "valid_okf",
                       !.out = @ /\ i.name = "check"]

CliInit ==
  /\ inv \in Invocations
  /\ Init /\ refs \in inv.trees /\ cmd = Effective(inv, "zero")
  /\ step = "flags"
  /\ file = inv.file /\ found = FALSE /\ conf = "zero" /\ logged = FALSE
  /\ body = [d \in Docs |-> "parsed"] /\ due = {} /\ text = {}
  /\ written = 0 /\ torn = FALSE
  /\ server = [listener |-> "none", serve |-> "none", open |-> 0, cut |-> 0]
  /\ code = Running

\* Flags and arguments that exclude each other, before the file is looked at.
Flags ==
  /\ step = "flags"
  /\ IF inv.usage = "early" THEN Ends(ExitUsage) ELSE step' = "lstat" /\ UNCHANGED code
  /\ UNCHANGED <<vars, inv, configVars, outputVars, server>>

\* The run, its command line apart, and what the command has not come to yet.
ahead == <<refs, ctxDone, lost, pc, run, disk, exit, outputVars, server>>

\* The rest of configFromFlags, with what Load returned.
Configured(c) ==
  /\ conf' = c /\ cmd' = Effective(inv, c)
  /\ IF inv.usage = "late" THEN Ends(ExitUsage)
     ELSE step' = (IF Is("serve") THEN "listen" ELSE "run") /\ UNCHANGED code

\* Load: Lstat first; whatever its error, there is no file.  A notice is lost under
\* --quiet.
Lstat ==
  /\ step = "lstat"
  /\ logged' = (file = "skipped" /\ ~inv.quiet)
  /\ \/ /\ file \notin {"absent", "skipped"}
        /\ found' = TRUE /\ step' = "read" /\ UNCHANGED <<conf, cmd, code>>
     \/ /\ file \in {"absent", "skipped"}
        /\ Configured("zero") /\ UNCHANGED found
  /\ UNCHANGED <<ahead, inv, file>>

\* Mutant of Load: a file that cannot be read is one that is not there.
LoadIfReadable ==
  /\ step = "read"
  /\ IF file = "wrong" THEN Ends(ExitUsage) /\ UNCHANGED <<conf, cmd>>
     ELSE Configured(Settings(file))
  /\ UNCHANGED <<ahead, inv, file, found, logged>>

\* ReadFile and decode, of what is there by now.  A file that is gone since Lstat, or
\* that cannot be read, "is a hard error so the user is not silently running" without.
Load ==
  /\ step = "read"
  /\ \/ /\ file \in {"absent", "unreadable", "wrong"}
        /\ Ends(ExitUsage) /\ UNCHANGED <<conf, cmd>>
     \/ /\ file \notin {"absent", "unreadable", "wrong"}
        /\ Configured(Settings(file))
  /\ UNCHANGED <<ahead, inv, file, found, logged>>

-----------------------------------------------------------------------------
(* The run, up to the verdict or the rendering.                            *)

Pipeline ==
  /\ step = "run" /\ Stages /\ (Is("check") \/ pc # "verdict")
  /\ UNCHANGED cliVars

\* The pipeline failed; or check has its verdict.
RunEnds ==
  /\ step = "run" /\ exit # Running
  /\ Ends(exit)
  /\ server' = [server EXCEPT !.listener = IF Is("serve") THEN "closed" ELSE @]
  /\ UNCHANGED <<vars, inv, configVars, outputVars>>

-----------------------------------------------------------------------------
(* Rendering.  Everything comes from the frozen result but the bodies; full *)
(* and small are read apart, full first.                                   *)

\* rankedReachable, smallSet and emitExclude; without a root set everything counts as reachable.
Reachable(docs) ==
  IF RootSet(docs) = {} THEN docs
  ELSE {d \in docs : \A S \in SUBSET docs :
          RootSet(docs) \subseteq S /\ (\A e \in Edges(docs) : e[1] \in S => e[2] \in S)
            => d \in S}

Hidden == IF conf = "zero" THEN {} ELSE Excluded

Listed(artifact) ==
  LET all == Reachable(corpus) \ Hidden
  IN  IF artifact = "full" THEN all ELSE all \intersect (RootSet(corpus) \union Notable)

\* graph looks at --format and --tree only now.
Analyzed ==
  /\ step = "run" /\ ~Is("check") /\ pc = "verdict"
  /\ IF inv.usage = "after" THEN Ends(ExitUsage)
     ELSE step' = (IF Is("serve") THEN "serve" ELSE "render") /\ UNCHANGED code
  /\ server' = [server EXCEPT !.serve = IF Is("serve") THEN "starting" ELSE @]
  /\ due' = {e \in inv.bodies \X corpus : e[2] \in Listed(e[1])}
  /\ UNCHANGED <<vars, inv, configVars, body, text, written, torn>>

NextBody == {e \in due : e[1] = "full" \/ \A f \in due : f[1] = "small"}

\* Mutant of ReadBody: a document whose body is gone is left out.
ReadBodyOrSkip ==
  /\ step = "render"
  /\ \E e \in NextBody :
       /\ due' = due \ {e}
       /\ text' = IF body[e[2]] = "unreadable" THEN text
                  ELSE text \union {<<e[1], e[2], body[e[2]]>>}
  /\ UNCHANGED <<vars, inv, step, configVars, body, written, torn, server, code>>

\* A body that is gone or has grown past the cap is replaced by a note.
ReadBody ==
  /\ step = "render"
  /\ \E e \in NextBody :
       due' = due \ {e} /\ text' = text \union {<<e[1], e[2], body[e[2]]>>}
  /\ UNCHANGED <<vars, inv, step, configVars, body, written, torn, server, code>>

\* The rendering is complete; without --out it is printed, which may fail.
Rendered ==
  /\ step = "render" /\ due = {}
  /\ \/ inv.flags.out /\ inv.artifacts > 0 /\ step' = "write" /\ UNCHANGED code
     \/ ~(inv.flags.out /\ inv.artifacts > 0) /\ \E c \in {ExitOK, ExitRuntime} : Ends(c)
  /\ UNCHANGED <<vars, inv, configVars, outputVars, server>>

\* FSWriter.Write: a look at the context and one artifact, in order and in place.
WriteArtifact ==
  /\ step = "write" /\ ~ctxDone /\ written < inv.artifacts
  /\ written' = written + 1
  /\ UNCHANGED <<vars, inv, step, configVars, body, due, text, torn, server, code>>

\* Mutant of ArtifactFails: the error of the writer is printed and forgotten.
ArtifactForgotten ==
  /\ step = "write" /\ written < inv.artifacts
  /\ torn' \in (IF ctxDone THEN {FALSE} ELSE BOOLEAN)
  /\ Ends(ExitOK)
  /\ UNCHANGED <<vars, inv, configVars, body, due, text, written, server>>

ArtifactFails ==
  /\ step = "write" /\ written < inv.artifacts
  /\ torn' \in (IF ctxDone THEN {FALSE} ELSE BOOLEAN)
  /\ Ends(ExitRuntime)
  /\ UNCHANGED <<vars, inv, configVars, body, due, text, written, server>>

AllWritten ==
  /\ step = "write" /\ written = inv.artifacts
  /\ Ends(ExitOK)
  /\ UNCHANGED <<vars, inv, configVars, outputVars, server>>

-----------------------------------------------------------------------------
(* ServeListener.  serve is the goroutine in http.Server.Serve: starting,  *)
(* serving, or returned with what it sent to errCh.                        *)

Listen ==
  /\ step = "listen"
  /\ \/ server' = [server EXCEPT !.listener = "open"] /\ step' = "run" /\ UNCHANGED code
     \/ Ends(ExitRuntime) /\ UNCHANGED server
  /\ UNCHANGED <<vars, inv, configVars, outputVars>>

ShuttingDown == step \in {"drain", "join", "failed"}

\* Serve returns once Shutdown was called, before it began or after; it closes the
\* listener on its way out.
ServeReturns ==
  /\ server.serve \in {"starting", "serving"} /\ ShuttingDown
  /\ server' = [server EXCEPT !.serve = "ErrServerClosed", !.listener = "closed"]
  /\ UNCHANGED <<vars, inv, step, configVars, outputVars, code>>

ServeStarts ==
  /\ server.serve = "starting" /\ ~ShuttingDown
  /\ server' = [server EXCEPT !.serve = "serving"]
  /\ UNCHANGED <<vars, inv, step, configVars, outputVars, code>>

\* Accept fails for good.
AcceptFails ==
  /\ server.serve = "serving" /\ ~ShuttingDown
  /\ server' = [server EXCEPT !.serve = "error", !.listener = "closed"]
  /\ UNCHANGED <<vars, inv, step, configVars, outputVars, code>>

Request ==
  /\ server.serve = "serving" /\ ~ShuttingDown /\ ~Ended /\ server.open < MaxRequests
  /\ server' = [server EXCEPT !.open = @ + 1]
  /\ UNCHANGED <<vars, inv, step, configVars, outputVars, code>>

\* A handler answers from the frozen analysis; an event stream may stay open.
Answer ==
  /\ server.open > 0 /\ ~Ended
  /\ server' = [server EXCEPT !.open = @ - 1]
  /\ UNCHANGED <<vars, inv, step, configVars, outputVars, code>>

\* The select: the context, or the end of the goroutine; both may be ready.  Shutdown
\* closes a listener that Serve has taken over; one it has not is Serve's to close.
Interrupted ==
  /\ step = "serve" /\ ctxDone
  /\ step' = "drain"
  /\ server' = [server EXCEPT !.listener = IF server.serve = "starting" THEN @ ELSE "closed"]
  /\ UNCHANGED <<vars, inv, configVars, outputVars, code>>

\* The process ends with what it has not answered.
ServeFailed ==
  /\ step = "serve" /\ server.serve = "error"
  /\ Ends(ExitRuntime)
  /\ server' = [server EXCEPT !.cut = server.open, !.open = 0]
  /\ UNCHANGED <<vars, inv, configVars, outputVars>>

Drained ==
  /\ step = "drain" /\ server.open = 0
  /\ step' = "join"
  /\ UNCHANGED <<vars, inv, configVars, outputVars, server, code>>

\* Mutant of DrainTimesOut: Shutdown without its timeout.
DrainForever == FALSE /\ UNCHANGED allVars

\* shutdownTimeout: what is still open is closed.
DrainTimesOut ==
  /\ step = "drain" /\ server.open > 0
  /\ step' = "failed"
  /\ server' = [server EXCEPT !.cut = server.open, !.open = 0]
  /\ UNCHANGED <<vars, inv, configVars, outputVars, code>>

\* Mutant of Join: the end of the goroutine is not waited for.
JoinNot ==
  /\ step \in {"join", "failed"}
  /\ Ends(IF step = "failed" THEN ExitRuntime ELSE ExitOK)
  /\ UNCHANGED <<vars, inv, configVars, outputVars, server>>

\* <-errCh.
Join ==
  /\ step \in {"join", "failed"} /\ server.serve \in {"ErrServerClosed", "error"}
  /\ Ends(IF step = "failed" \/ server.serve = "error" THEN ExitRuntime ELSE ExitOK)
  /\ UNCHANGED <<vars, inv, configVars, outputVars, server>>

-----------------------------------------------------------------------------
(* The environment.                                                        *)

\* .matlatl.yml is written, removed or made unreadable while the command starts.
EditFile ==
  /\ step \in {"flags", "lstat", "read"} /\ file = inv.file
  /\ file' \in inv.becomes
  /\ UNCHANGED <<vars, inv, step, found, conf, logged, outputVars, server, code>>

\* A document is edited, or removed or grown past the cap, after it was parsed.
Change(d) ==
  /\ pc = "verdict" /\ ~Ended /\ inv.bodies # {} /\ body[d] = "parsed"
  /\ \E b \in {"changed", "unreadable"} : body' = [body EXCEPT ![d] = b]
  /\ UNCHANGED <<vars, inv, step, configVars, due, text, written, torn, server, code>>

Environment ==
  \/ ~Ended /\ (Cancel \/ \E d \in Docs : Vanish(d)) /\ UNCHANGED cliVars
  \/ EditFile \/ \E d \in Docs : Change(d)
  \/ Request \/ Answer \/ AcceptFails

CommandStep ==
  \/ Flags \/ Lstat \/ Load \/ Pipeline \/ RunEnds \/ Analyzed
  \/ ReadBody \/ Rendered \/ WriteArtifact \/ ArtifactFails \/ AllWritten
  \/ Listen \/ Interrupted \/ ServeFailed \/ Drained \/ DrainTimesOut \/ Join

ServeStep == ServeStarts \/ ServeReturns

CliNext == CommandStep \/ ServeStep \/ Environment \/ (Ended /\ UNCHANGED allVars)

\* A command goes on whenever it can, Shutdown's timer runs out, and the goroutine
\* in Serve is scheduled.  A request need not end.
CliSpec ==
  CliInit /\ [][CliNext]_allVars /\ WF_allVars(CommandStep) /\ WF_allVars(ServeStep)

-----------------------------------------------------------------------------
\* What a run may say of its settings: they are those of this kind of file.  Once Lstat
\* has found a file the run does not go on as if there were none; without settings it
\* runs if there was nothing to find, if the file was empty, or if a notice says that
\* it was skipped.
SettingsOf(kind) ==
  /\ kind \in IF found THEN {"empty", "valid", "valid_okf"} ELSE {"absent", "skipped"}
  /\ kind = "skipped" => logged \/ inv.quiet
  /\ conf = Settings(kind) /\ cmd = Effective(inv, conf)

\* ADR 0011 and the comments of Load: a command analyzes the tree with the settings of
\* a file that was there while it started, though .matlatl.yml is gone, unreadable or
\* another file by the time it is read; and a usage error, which leaves nothing behind,
\* has a cause.
ConfigIsHonoured ==
  /\ pc # "start" =>
       inv.usage \notin {"early", "late"} /\ \E kind \in {inv.file, file} : SettingsOf(kind)
  /\ code = ExitUsage =>
       /\ written = 0 /\ ~torn /\ server.listener = "none"
       /\ inv.usage = "ok" =>
            found /\ {inv.file, file} \intersect {"absent", "unreadable", "wrong"} # {}

\* ADR 0005 and the comments of the commands: only check ends with 1, and every
\* other end of an analyzed tree is 0 with the whole output or 3; a mix of old and
\* new artifacts, or half of one, is left behind only with 3.
OutputMatchesExit ==
  /\ code = ExitFindings => Is("check")
  /\ code = ExitOK /\ ~Is("check") => pc = "verdict" /\ written \in {0, inv.artifacts} /\ ~torn
  /\ code = ExitOK /\ inv.flags.out /\ ~Is("check") => written = inv.artifacts
  /\ written > 0 \/ torn => due = {}

\* "A document whose body cannot be read is skipped with an inline note": the full
\* text has a section for each document it should list, whatever has happened to
\* the files since, a note only where a body could not be read, and the small one
\* is never older than the full one.
BodiesAreHonest ==
  /\ written > 0 => \A a \in inv.bodies : {t[2] : t \in {u \in text : u[1] = a}} = Listed(a)
  /\ \A t \in text : t[3] # body[t[2]] => t[3] = "parsed"
  /\ \A t, u \in text :
       t[1] = "full" /\ u[1] = "small" /\ t[2] = u[2] /\ t[3] # "parsed" => u[3] = t[3]
  /\ \A t \in text : t[2] \notin Hidden

\* When serve has returned, its listener is closed and no goroutine is in Serve;
\* and it returns without an error only if it has answered every request.
ServerIsClosed ==
  Ended /\ Is("serve") =>
    /\ server.listener \in {"none", "closed"}
    /\ server.serve \notin {"starting", "serving"}
    /\ code = ExitOK => server.open = 0 /\ server.cut = 0

\* Every command ends, and serve does once it is interrupted, even while an agent
\* holds a stream open.
CommandEnds == ~Is("serve") \/ ctxDone ~> Ended
=============================================================================
