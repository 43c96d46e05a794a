# matlatl in TLA+

`matlatl` checks a tree of Markdown documents: it scans the tree, parses every
document, resolves the links between them, builds a graph, analyses it and
writes reports. `matlatl check` is a gate in other people's CI, so what matters
is that its exit code means something: the verdict covers the documents it says
it covers, does not depend on the order in which goroutines finish, and is not
given at all when the run was interrupted. The other commands write what agents
read, so what they leave on the disk must be whole and must say what the
documents said. The repository also holds an evaluation of agents, whose
records are evidence and must survive races, failures and crashes.

This directory models that program in TLA+. TLC checks the models on small
instances; TLAPS proves the main results for every instance. `PROJECT.json`
holds the runs, the source lines each definition stands for, the hazards and
the findings. Paths below are relative to the repository root.

## 1. The system

| Component | Code | State | Operations | What makes it correct |
|---|---|---|---|---|
| File scanner | `internal/infrastructure/fsscanner` | files and notices found so far, ignore matcher | `Scan`: canonicalize, ask git, walk, sort | every document the rules leave in is returned once and in order, or a notice accounts for it; own output is never scanned; a changing tree does not stop it |
| Parse stage | `internal/application/parse.go` | one slot per file, a channel, two contexts | `parseFiles`, its feeder and workers | same answer at any worker count; all or nothing under cancellation; no race, no goroutine left, no hang |
| Pipeline | `internal/application/pipeline.go` | the frozen corpus, references, metrics | `Run`: six stages in order | a run ends with a verdict on what it read, or with a runtime error |
| Configuration | `internal/infrastructure/config` | `.matlatl.yml` | `Load`: lstat, read, decode | a file that is there is honoured, skipped with a notice, or refused, also when it changes meanwhile |
| Commands | `cmd/matlatl` | flags, signal context | `check`, `emit`, `report`, `graph`, `orphans`, `index`, `serve`, `fixprompt` and the bare command | artifacts and exit code agree; every command ends |
| External links | `internal/infrastructure/linkcheck` | result map, semaphore, last slot of each host | `Check`, `checkOne`, `rateLimit`, redirects | complete and final map, bounded and spaced requests, termination |
| Corpus | `internal/domain/corpus` | documents, heading and alias index, frozen flag | `Add`, `Freeze`, lookups | read-only after `Freeze` |
| Resolver | `internal/domain/reference` | none (pure) | `Resolve` by link type and policy | one health per reference; never leaves the root; a link written to a document arrives there |
| Reference graph | `graphmodel/{graphmodel,hierarchy}.go` | nodes, edges, projection | `BuildReferenceGraph`, `BuildHierarchyTree` | the projection has the resolved links, no self-loop; a tree of sections; every document in the hierarchy once |
| Reachability, orphans | `graphmodel/{hops,orphans,roots}.go` | distance map, queue | `rootDistances`, `DetectOrphans`, ... | shortest distances; reports that do not contradict each other |
| Graph analyses | the other files of `graphmodel` | union-find, stacks, frontiers | components, bow-tie, gaps, cut points, trails, suggested links, navigability, betweenness, scent | each equals its textbook definition; a list that is cut says so |
| OKF | `internal/domain/okf` | none | `Check` | conformance rules, independent of health |
| Findings, exit contract | `internal/application/{findings,graphfindings,okffindings}.go` | the `Result` | findings per kind, `CheckExitCode` | ADR 0005 and 0023: which findings gate, flags only add; no two contradict each other |
| Fix prompts | `internal/infrastructure/emit/fixprompt.go` | none | selection by mode, kind, exclusion and cap | what gates is never left out, what is left out is counted |
| Emitters, bundle | `internal/infrastructure/emit` | bodies read once more | rendering, `BodyReader.Read`, `FSWriter.Write` | whole artifacts or exit code 3; no document missing from the text |
| MCP server | `internal/infrastructure/mcpserver` | listener, one immutable result, open requests | `ServeListener`, handlers | shuts down in bounded time and leaves nothing open |
| Parser | `mdparser` | none | bytes in, document out | formats |
| Evaluation attempt | `eval/cmd/eval-supervisor`, `eval/internal/agentoutcome` | container, frames, capture, outcome | supervisor, runtime, `isolatedRun` | one terminal frame, cleanup, a classification that exposure decides |
| Evaluation verifier | `eval/internal/nimbus/verifier.go` | goroutine per task, containers, volumes | `Verify`, stages, cleanups | a score is the candidate's own; nothing left behind |
| Evaluation records | `eval/cmd/eval`, `nimbus/freeze.go`, `evalfs`, `harness`, `manifest`, `report` | freeze record, image file, result root, report | `nimbus freeze`, `verify`, `probe`, `smoke`, `report`, ... | a gate opens on a whole record of this suite only; records last |

They interact by calls, in one direction: the command loads the configuration
and calls the pipeline, the pipeline the scanner, the pool, the pure domain and
(if asked) the link checker, then the command renders and calls the writer, or
serves. What is shared is the context: one `SIGINT` or `SIGTERM` cancels it, and
each stage looks at it in its own way and at its own times. Concurrency is
inside three stages (the pool, the link checker, the server) and outside the
program: other processes change the tree while it is read, and once more before
its bodies are read for the bundle. The evaluation's commands interact by files
and by the container runtime only.

Hard to test, and therefore the subject of the models: a cancellation between
two looks at the context; the interleavings of feeder, workers and closing; a
slot reserved under a lock and waited for outside it; files that vanish between
two system calls; caps met exactly; a write that fails after another succeeded;
a shutdown that races the goroutine it stops; searches on explicit stacks whose
answer depends on the order in which frames return; a cleanup that races the
creation of what it removes; a record half written when another command reads
it. The full list, each at its line, is `hazards` in `PROJECT.json`.

## 2. Modules

| Module | Models | Extends | Checked by | Proofs |
|---|---|---|---|---|
| `ParseStage` | what `parseFiles` promises, in three actions | | as a property of `parse` | |
| `ParsePool` | `parseFiles`: main, feeder, workers | | `parse`, `parse_canceled` | `ParsePoolProofs` |
| `LinkCheck` | `Checker.Check`, its goroutines, `rateLimit`, redirects | | `linkcheck` | `StagesProofs` |
| `RootSearch` | `rootDistances` and the reports read from it | | `root_search` | `StagesProofs` |
| `ScanWalk` | `Scanner.Scan` over a changing tree | | `scan`, `scan_local` | `ScanWalkProofs` |
| `CheckRun` | one run of the pipeline and of `check`, end to end | | `commands` | `CommandsProofs` |
| `Commands` | every command around that run, the configuration, the bundle, the server | `CheckRun` | `commands` | `CommandsProofs` |
| `Corpus` | the frozen corpus: paths, sections, aliases | | `analysis` | `StructureProofs` |
| `Resolver` | `Resolve` and the three policies | `Corpus` | `analysis` | `StructureProofs` |
| `ReferenceGraph` | nodes, edges, projection, hierarchy | `Resolver` | `analysis` | `StructureProofs` |
| `Components` | union-find, Tarjan, condensation, bow-tie, gaps | `ReferenceGraph` | `analysis` | `StructureProofs` |
| `CriticalStructure` | articulation points and bridges | `ReferenceGraph` | `analysis` | `AnalysisProofs` |
| `Trails` | Kahn's loop over strong components | `Components` | `analysis` | `AnalysisProofs` |
| `Metrics` | suggested links, navigability, betweenness | `ReferenceGraph` | `analysis` | `AnalysisProofs` (order and caps) |
| `Scent` | links whose text does not say where they lead | `ReferenceGraph` | `analysis` | `AnalysisProofs` |
| `Findings` | every finding, OKF, the exit code, fix prompts | `Components`, `CriticalStructure`, `Metrics`, `Scent` | `analysis` | `AnalysisProofs` |
| `Analysis` | stages 3 to 5 of the pipeline, in the order of the code | `Trails`, `Findings` | `analysis` | `AnalysisProofs` |
| `EvalSupervisor` | the container of one evaluation attempt: supervisor and agent | | as part of `EvalAttempt` | `EvalAttemptProofs` |
| `EvalAttempt` | the same attempt seen from the host: `isolatedRun`, the container runtime | `EvalSupervisor` | `attempt`, `attempt_exposure` | `EvalAttemptProofs` |
| `Verifier` | `nimbus.Verify`: tasks, stages, clients, cleanups | | as part of `EvalRecords` | `EvalRecordsProofs` |
| `EvalRecords` | the commands of the offline evaluation on one disk | `Verifier` | `eval_records`, `verifier_leftovers` | `EvalRecordsProofs` |
| `Sorting` | Go's sort of a finite set by a key, for `LinkCheck` and `ScanWalk` | | in `linkcheck`, `scan` | in the modules that use it |

Each `MC` module gives the constants of the module it is named after.

`CheckRun` composes the stages by their results. Its `Scan`, `Parse` and
`CheckExternal` actions have exactly the outcomes that `ScanWalk`
(`NothingIsLost`), `ParsePool` (`SuccessIsComplete`) and `LinkCheck`
(`MapIsComplete`) allow, and its operators for the graph are the reports of
`RootSearch` and `Analysis` without the searches. The detailed modules say why a
stage behaves so, `CheckRun` what follows for the exit code.

The names of the code are kept where TLA+ allows. Operators whose comment says
"Mutant of" are plausible bugs that the properties are tried on; no
specification uses them. A property that is a conjunction of named parts
(`PoolIsSound == TypeOK /\ SlotOwnership /\ AnswerIsFinal`) is what a run checks; its comment says
what the parts have in common, the comment of each part what it says.

### ParsePool

`pc` is where the goroutine that called `parseFiles` is, `wpc[w]` where worker
*w* is, and `next` the index that is parsed or fed next. The channel `jobs` is
unbuffered: a send and the matching receive are one step (`Feed(w)`), and the
feeder's `select` is the choice between `Feed` and `FeedCanceled`. `ctxDone` and
`wctxDone` are the two contexts; `Propagate` cancels the derived one some time
after its parent. A worker's turn is three steps (look at `wctx`, parse, store),
since others run in between. Parsing is reduced to the three outcomes the
pipeline tells apart. A `DocumentID` is its rank, since only its order matters.

`ParseStage` is the abstract specification: files, a context, and an answer that
appears at once. `Stage` instantiates it with `ret <- AsPromised`, which is the
answer but for the one thing that breaks the promise (finding 1): a success that
carries a cancellation error counts as the cancellation it is.

### LinkCheck

One action per step that another goroutine can get between: the loop's `select`
(`Skip`, `Spawn`), the guard, the critical section of `rateLimit` (`Reserve`),
the wait (`Wake`), a request (`Send`), its answer (`Reply`), a redirect (`Hop`),
the deferred release (`Finish`). The guard and the network are
nondeterministic. Time is a number of ticks relative to now (`Tick`), so the
state space is finite; a slot an interval or more behind is forgotten, because
`rateLimit` treats it as no slot. `via` counts the requests of a chain, as
`len(via)` does when `CheckRedirect` is called.

### RootSearch

The breadth-first search one loop turn at a time, over any graph without
self-loops. The queue is never shortened and `head` moves, as in the code.
`FarFromRoot`, `Isolated`, `DeadEnd`, `UnderLinked` and `Unreachable` are the
sets the code computes from the finished map, and the properties compare them
with a definition of reachability that has no search in it (`Reachable`). The
specification is `SearchSpec`, with `SearchInit` and `SearchNext`: it is proved
about in one module with `LinkCheck`, which has a `Spec` of its own.

### ScanWalk

The walk visits the least pending entry; reading a directory makes its entries
pending, so a directory that vanishes before it is read yields none. The
callback's cases are actions: `Stop` (context), `PruneDir`, `ReadDir`,
`PassFile`, `Canonicalize`; then, after a point where another process may act,
`Reject`, `Accept`, `Truncate`. `Vanish` removes an entry and what is below it
at any step. The ignore rules are data (a verdict per entry), but the
conversion of git's answer into ignore lines is modelled by what it does
(`Occurs`), because a finding is about it.

### CheckRun and Commands

In `CheckRun`, `pc` is the stage. `Scan` splits the documents that are there
into scanned and noticed; `Parse`, `ParseLate` and `ParseCanceled` are the three
answers of the parse stage; `Merge` builds the corpus; resolution and analysis
are operators of the corpus (`Broken`, `Ambiguous`, `Orphan`, `Unreachable`);
`Write` and `WriteFails` put the two artifacts of `check` on the disk, one after
the other; `CheckExitCode` ends it.

`Commands` puts the command line around it. An invocation (`inv`) is a command
line together with what `.matlatl.yml` is at first, what it may become, and the
tree it runs on. `step` is where the command is: `Flags`, `Lstat` and `Load`
come before the run (`Pipeline` is a step of `CheckRun`), `Analyzed` after it.
`file` is what `.matlatl.yml` is now, and `EditFile` changes it up to the moment
it is read; `found` is what `Lstat` saw, `conf` what `Load` returned. `cmd`, the
command line the run of `CheckRun` goes by, is that of the flags alone until
`Configured` adds `conf` to it, so a run whose settings were lost on the way is
a state that `ConfigIsHonoured` rejects. Flags are wrong
early, after the file was read, or only when the pipeline is done, as the code
of each command has it. The bundle is a set of bodies that are `due`; `Change`
edits or removes a document after it was parsed, so that what `ReadBody` finds
is not what was analysed, and not the same for the two texts that have bodies.
`torn` is a half-written artifact. The server is a record: its listener, the
goroutine in `http.Server.Serve`, the requests open and the requests cut off.
`ServeListener`'s `select` is the choice between `Interrupted` and
`ServeFailed`; `Drained` and `DrainTimesOut` are the two ends of `Shutdown`, and
`Join` is the read of `errCh`. What `net/http` does inside is external.

### Corpus to Analysis

A document is its rank, a path the sequence of its components, so that `Clean`
and `EscapesRoot` are what they do. `Resolver` is one operator per method.
`ReferenceGraph` keeps edges as a set: two that differ in nothing are one, which
every analysis but a count in a report agrees with.

The analyses with a loop worth the name are step by step, on explicit stacks
like the code's: `Union` is one link with its two finds and their path
compression; `StrongConnect`, `Descend`, `BackEdge` and `Return` are the four
things a turn of Tarjan's loop does; `AbRoot` to `AbReturn` those of the low-link
search, whose frames skip the parent once (a link in both directions is one
undirected edge, since neighbours are a set); `TrailStarts`, `TrailTakes` and
`TrailEnds` Kahn's loop with its frontier. The others are functions of the graph
or of the distances found: bow-tie, gaps, suggested links, compactness, stratum,
path lengths, clustering, betweenness, scent. A float is the fraction it stands
for, or a multiple of 1/`Scale`. PageRank is any assignment of scores, ties
included. `Analysis` is the order of `Analyze`, and what `report` holds is what
the code keeps.

A finding keeps what tells two findings apart or is acted on. `SelectFindings`
is the prompt's selection, with its modes, exclusion and caps.

### EvalSupervisor and EvalAttempt

The container is `box`, its two processes are `child` and `sup`, and what they
leave to the host are `frames` (the lines on standard output) and `capture` (the
files in `/capture`). The supervisor's `select` is the choice among the `Loop...`
actions; the goroutines beside it are `ReadControl`, `WaitAgent` and `Overflow`,
and what they have reported but the loop has not taken is `sup.sig` and
`sup.wait`. The exports of the report are one action each (`Export`), which
either puts all its files in place or fails. `Exit` ends PID 1 and with it every
process.

The host composes with the container by four operators only (`BoxStarts`,
`BoxTerm`, `BoxEnds` and the reading of `frames`). `pc` follows `isolatedRun`;
inside it `start` to `drain` are `commandRuntime.Run`. `got` is how many frames
reached the host before the CLI ended, so a run that breaks off is classified
from a prefix; `Verdict` is `parseControl` with the decision made of it. The
context is read where the code reads it, and a deadline can pass between two
such looks. `execution` and `outcome` are the status in `execution.json` and in
`outcome.json`. The error of the first write is dropped (`RecordExecution`), so
`"lost"` is one of its outcomes; a failed write of `metrics.json` leaves the
second behind although the attempt fails (`Grade`). `result` is what the caller
of the runner sees: an exit status that is not zero (`"failed"`) or the status
of the graded attempt.

### Verifier and EvalRecords

`goroutine[t]` is the goroutine of task *t*: where it is, which patch case and
which of the three stages it works on, what its client of the container runtime
is doing and the error of the case. The runtime creates a container at any time
while a client that asked for it lives (`Create`), which is why an aborted stage
cleans up twice (`Sweep`, `Abandon`). `check` and `run` go through
`runOwnedContainer`, `build` through `runDetachedBuild`. `truth` is what the
candidate really did, or that the runtime broke off before it could tell;
`Judge` is what `verifyTask` makes of the joined errors of the case and its
cleanup. Failures that are not the candidate's are `Fault`s, bounded by a
constant. The code does not take all of them for such: a client of the build
that does not start (`Start`), and a client or a container that is gone by
itself (`RuntimeLoses`), end in a `verificationFailure`, as they do in the model.

In `EvalRecords` each process has a command and a place in it (`proc`), and the
disk is the freeze record, the file of audited images, a result root and the
report page. A write that is not to a temporary file is two steps: `Torn`, then
whole. `Break` ends a process between any two of its steps, `Edit` changes one
of the two parts of the suite while somebody may be hashing them in order, and
`Pull` replaces the image of the runtime. `verify` runs the tasks of `Verifier`.
`ValidateRecords` is the check of retries over the records in memory.

## 3. Runs

| Run | Instance | Shows |
|---|---|---|
| `parse` | 0 to 3 files, 1 to 3 workers, canceled at any step | complete, ordered and final answers; no race on a slot; cancellation only for who canceled; no goroutine left; `ParseStage` implemented on both paths; it returns |
| `parse_canceled` | the same with up to 2 files | **violated**: a success that carries a cancellation error |
| `linkcheck` | 3 URLs, 2 hosts, a duplicate, 3 configurations | complete, final map; bounded requests, spaced slots, bounded chains; `Check` returns |
| `root_search` | all 4096 projections of 4 documents; 0, 1 or 2 roots | exact reachability and distances, consistent reports |
| `scan` | a tree of 8 entries, cap 3, up to 2 vanish | nothing lost in silence, output stays out, order, termination |
| `scan_local` | the same tree, git ignoring one file | **violated**: a tracked file of the same name is hidden too |
| `commands` | 3 documents, 3 sets of references, 46 invocations; a `.matlatl.yml` of every kind, and one that becomes another | the exit code is explained by the log, complete, agrees with the artifacts; a run has the settings of a file that was there; bodies are honest; the server closes; every command ends |
| `analysis` | six families of corpora, links and settings | resolution stays inside and arrives; graph, components, cut points, trails and measures equal their definitions; caps are reported; findings do not contradict each other; the prompt keeps the gate; it ends |
| `attempt` | one attempt; writes in the container, commands of the runtime and writes of the host's records may fail, the deadline may pass, the caller may cancel | a completed attempt is earned; capture is read only once nothing can write to it; every failure after exposure is graded; the records agree and leftovers are reported; the attempt ends |
| `attempt_exposure` | as `attempt`, where only writes in the container fail | **violated**: a runner that fails after the model was asked |
| `eval_records` | two processes on one disk, three tasks for the verifier | a score of 1 is the candidate's, and so is one of 0 unless a client or container was lost unasked; at most two tasks use the runtime and nothing is left unexplained; the gate opens on a whole record of this suite only; records last and the report shows them; every command ends |
| `verifier_leftovers` | one task whose patch should fail, one fault | **violated**: a verification that says ok with a container or volume left |

**Bounds, and why they are enough.**

- *Parse.* Two workers and three files are the least where a worker can take a
  second index while another holds the first, and where a worker can leave
  while the feeder still has something to feed. Zero and one file, and one
  worker, are separate paths of the code. The cap is three so that it, the
  number of files and the configured count each are the least of the three at
  some point. The theorems have no bound.
- *Links.* Two URLs of one host compete for slots, the third is on another host
  and only competes for the semaphore; limits of one and two are met, the
  default (8) is not. An interval of two ticks is the least in which "too
  early" and "much too early" differ. A goroutine that may send does so before
  the next tick: no delay of the scheduler between permission and request.
- *Graph search.* Four documents have chains of three hops, diamonds, cycles on
  and off the roots and isolated parts. Again the theorems have no bound.
- *Scan.* The tree has a directory before a file whose name sorts the other
  way, two files with one base name, a directory in a directory, a symlink, and
  one file more than the cap. No entry appears or changes kind during a scan.
- *Commands.* References have no fragment and name no directory, asset or alias
  (`Resolver` has them all); graduated structure findings keep their default
  severity (`Findings` has both). Three artifacts stand for the seven of the
  bundle: the first, the last and one between. Of the file's keys, `okf` and
  `emitExclude` are effective. The file changes once while a command starts, and
  not into a symlink or past the cap, which `ReadFile` would follow or read. A body changes once, two requests are open at
  most. Each invocation has the trees in which its flags make a difference.
- *Analysis.* Four documents in two directories, with all graphs of at most
  four links or at least eleven of twelve: paths, cycles, diamonds, two
  components, isolated documents, links in both directions, and the nearly
  complete graphs. Six documents with 128 sets of seven links, where the caps
  (two gaps, three suggested links, a fan-out of three) are met and passed.
  Twenty references chosen for the rules of the resolver, alone with every
  policy and setting and in pairs. OKF bundles with front matter absent, broken
  and of every type. Two assignments of PageRank, one with ties. `Scale` is a
  multiple of every divisor these instances meet. The empty corpus, for which
  the code has early returns, is not an instance.
- *Attempt.* One attempt has no size to bound: the state space is complete. What
  may fail is a constant each, because the second run needs all but one off.
- *Evaluation.* Three tasks compete for the two places of the semaphore, one of
  them with a patch that should fail; one fault. Two commands beside each other
  in the pairs that share a file, with one edit (of a part of the suite or of
  the image) and one crash, and once with two edits of the suite, the second of
  which may come after a process has ended. Three attempts with any parents, also
  ones that are not in the result root, two schedules and a retryable and
  another status.

**Fairness.** A goroutine that can run runs (`WF` on main and on each worker, on
the loop, on each URL): the Go scheduler is fair to runnable goroutines. A
canceled context cancels its children (`WF_vars(Propagate)`). Time passes
(`WF_vars(Tick)`), and the client's timeout answers where the network does not,
so that `Reply` is part of the fair step. Nobody is bound to cancel, to remove a
file or to make a write fail, and no action needs strong fairness. The walk and
the analysis are single goroutines (`WF` on their next step). A command goes on
whenever it can (`WF_allVars(CommandStep)`), which includes `Shutdown`'s timer,
and the goroutine in `Serve` is scheduled; a request need not end, and a user
need not interrupt: `CommandEnds` says that `serve` ends once it is. In an
attempt only the host's own steps and the timer of its deadline are fair
(`WF_vars(Host)`, `WF_vars(Deadline)`): the agent, the supervisor and the
runtime's CLI may stop at any point, and `AttemptEnds` holds all the same. In
the evaluation each process and each task of the verifier is scheduled; a stage
of a task ends by its deadline if by nothing else.

**Deadlock** is checked in every run but those of an attempt: the end of a call
is a stuttering step, which is possible only once every goroutine is gone. An
attempt has no such step: it stops when it is done, whatever is left in a
container that could not be removed, and `AttemptEnds` says that it stops
nowhere else.

## 4. Findings

1. *A late interrupt becomes a broken link* (`parse_canceled`). The sequential
   path of `parseFiles` looks at `ctx` before each file but not after the last;
   the parser looks again. An interrupt between the two makes the last file a
   per-file error, and the run goes on to a verdict without that document. The
   pool looks once more and cannot. `SuccessIsComplete` and `VerdictIsHonest`
   state the exception precisely: one document, the last, sequential path only.
2. *A git-ignored file hides its namesakes* (`scan_local`). Git's answer is a
   list of exact paths; the lines made from it match at any depth.
3. *A failed write of the exposure marker is not gradeable* (`attempt_exposure`).
   The supervisor writes the marker before the frame. When the write fails the
   agent has closed its pipe and may already have asked the model, but no frame
   goes out, so the host ends with a status that is not zero, which the
   documentation reserves for failures before exposure. `ExposureIsGraded` is
   what does hold: what the host has recorded as exposed is graded.
4. *A verification can succeed and leave a container behind*
   (`verifier_leftovers`). The error of the last cleanup is joined to the
   candidate's failure, and what reads the joined error finds the candidate's
   part first (`nimbus/verifier.go:247-249`, `802-805`, `155-161`). If the case
   was expected to fail, the task passes. `eval/README.md:153-155` promises that
   absence is checked after success, error, timeout and cancellation.
   `LeftoversAreExplained` is what does hold: only a failed cleanup, or a client
   that would not die, leaves anything.

Met while modelling, without a run of their own:

- *Links.* `PerHostInterval` spaces the first requests to a host; a GET after a
  refused HEAD and every redirect go out at once (`linkcheck.go:259` against
  `:72-73`), and an interval of zero means 200 ms (`:130-132`). `MaxRedirects`
  *n* refuses after *n* - 1 redirects (`:146`). `SlotsAreSpaced` and
  `ChainsAreBounded` state what does hold.
- *Scan.* An `--out` at or above the scan root prunes every subdirectory
  (`OutputExcludes`; `OutputStaysOut` is about an output directory inside the
  tree). A file that vanishes during the walk is reported as escaping the root.
  Links to documents that were not read (oversized, beyond the cap, unreadable)
  count as broken, which is why `VerdictIsExplained` speaks of what the log
  names.
- *Commands.* `serve` takes nothing from the flags or `.matlatl.yml` but the
  path and `--quiet` (`mcpserver.go:73-85`), although `serve.go:29-30` says its
  tools return the same data as the artifacts. The bare command ends with 3 for
  every error. `graph` looks at its format after the pipeline has run. Under
  `--quiet` the notices a verdict rests on are not shown (`noticed` is what
  would be logged). When `Accept` fails, `serve` returns without draining; an
  open event stream makes an interrupted `serve` end with 3 after five seconds.
  The two texts of the bundle read each body on their own and may differ.
- *Analysis.* The largest possible sum of `Stratum` is taken as *N*²/2, which
  saturates at one. The longest-suffix policy never prefers a longer match,
  since all forms of a target have one length. A link to a directory drops its
  fragment unchecked. The line above the list in `llms.txt` counts unreachable
  documents the list does not have. A link whose target is titled with a phrase
  without scent is told to use that title; and if the title is the target's file
  name in front of a heading, taking the suggestion leaves the finding as it is,
  since only the heading is then compared (`ScentIsActionable` has the
  exception). A slug given as an explicit ID is kept as it is written
  (`mdparser.go:391-396`, `:592`), so two headings of a document may have one
  slug, although `document.go:156` says that slugs are unique per document. Their
  sections are one node, which may then have several parents: `GraphIsExact`
  allows a node as many as there are headings that share its slug.
- *Execution record.* The error of writing `execution.json` is dropped
  (`agentoutcome/oci.go:649`, `:672`), while that of every other record ends the
  attempt as failed. If only this write fails, the runner exits zero with a
  graded outcome, completed ones included, and without the file that
  `eval/README.md:87-90` says holds the attempt's identity, exposure and terminal
  class. Such ends are states of `attempt` (`execution = "lost"`), and
  `RecordsAgree` is what does hold: the two records agree where both are there.
- *Scores.* `runDetachedBuild` hands on any error of its client that is not its
  context's (`nimbus/verifier.go:433-437`), also that it did not start
  (`:743-745`), died, or wrote too much (`:752-754`); `verifyCase` makes it the
  candidate's (`:285-288`) and `verifyTask` scores it 0 (`:159-161`). A case that
  is expected to fail then verifies although nothing was judged, while
  `docs/research/nimbus-eval-corpus.md:32` has the verifiers "score known code
  changes correctly". Such scores are states of `eval_records` (`truth = "lost"`),
  and `ScoreIsEarned` is what does hold: a 1 is always the candidate's own, and a
  0 that is not comes from a lost client or container alone, never from a
  deadline, a cancellation, a setup failure or an aborted stage.
- *Evaluation.* `Verify` returns the error of the first task in order, so that a
  task canceled because of another hides the cause. Nothing handles a signal: a
  killed `verify` leaves its containers. A crash in `smoke` leaves a directory
  no later run accepts. An edit of the suite between `Load` and `CheckFreeze`
  lets `verify` use the suite in memory although it is not the frozen one, which
  is why `FrozenOrRefused` speaks of processes that are not `stale`. Records of a
  retry are not compared by agent.

## 5. Proofs

TLAPS checks eight modules. Each specification has an inductive invariant, with
one lemma for `Init`, one for `Next` (one step or lemma per action) and the properties as
consequences: 31 of the 40 properties of the passing runs are theorems, for any
values of the constants. None assumes anything beyond the named assumptions on
the constants, which TLC evaluates in the runs. TLC checked each invariant
before it was proved.

- **`ParsePoolProofs`** (any number of files, workers and any cap): `Soundness`,
  `Completeness`, `WriteOnce`, and `PoolRefinesStage`, the safety part of the
  refinement, on the pool and on the sequential path. `SuccessIsComplete` is
  about the returned value only and is far from inductive. The invariant follows
  every index: not fed yet and empty; held by exactly one worker and empty;
  stored with the true outcome, or with a cancellation that only a done context
  explains; or dropped by a worker that has left because the context was done.
  From it, when main sees all workers gone, no feed error and a context that is
  not done, every slot is filled and true. For the refinement, the lemma
  `PromisedAnswer` says that `AsPromised` of such an answer is the abstract one.
- **`StagesProofs`**, about the two stages that share no state. The search from
  the roots (any corpus, projection and root set): `Exactness`, `Consistency`. The
  invariant is that of breadth-first search: the queue lists the reached documents
  in order of distance and spans at most one hop beyond the head; every link of a
  visited document has been followed; every reached document lies in each
  link-closed set that holds the roots. At the end the reached set is itself
  closed, so it is the least such set.

  The link checker (any URLs, hosts, input lists and configurations):
  `CompleteMap`, `BoundedLoad`, `FinalVerdict`. The map is complete only when
  `Check` returns, so each URL is followed from its place in the sorted list: the
  places before the loop's have a goroutine or an entry of their own
  (`PlaceInv`), and a goroutine has an entry exactly when it is past deciding
  (`RecordInv`). The semaphore's counter is the number of goroutines that hold
  it (`SemInv`). That slots are spaced rests on `SlotInv`: a slot lies between
  the floor below which `rateLimit` forgets it and its host's last slot, so a
  new one is an interval after all of them.
- **`ScanWalkProofs`** (any tree, rules, cap and history of vanishing entries):
  `CleanScan`, `NothingLost`. The invariant says how the walk covers the tree:
  each document that the rules leave in and that is still there has been found,
  is blamed on a directory that could not be read, or lies at or under a pending
  entry (`CoverInv`); no pending entry lies under a barred directory (`WayInv`);
  what has been found is before all that is pending (`FilesInv`). A tree is a
  numbering of its entries in the walk's order; `InsideTrans` and the lemmas
  beside it are what that numbering gives.
- **`CommandsProofs`** (any tree, references, failures, command line and
  configuration file): of the run alone (`Spec` of `CheckRun`) `Explained`,
  `Complete`, `Honest`, `ArtifactsAgree`; of every command (`CliSpec`)
  `CommandsRun`, `ConfigHonoured`, `OutputAgrees`, `HonestBodies`,
  `ClosedServer`. The run's invariant carries an account of the documents
  (scanned, noticed or gone) through the stages, what the failed results are,
  and what is on the disk. `CliRunSteps` says that each step of a command is a
  step of its run or none, but for `Lstat` and `Load`, which may still change its
  command line; `Reconfigured` says that before the first stage this does no
  harm, so that all of this holds of every command. The rest of the invariant
  follows the settings (those of the flags, then those of a file that was there:
  `FileInv`), the disk, the bodies still to be rendered and the server, each with
  its own conjunct.
- **`EvalAttemptProofs`** (whatever may fail): `CompletedEarned`,
  `ExposureGraded`, `HonestOutcome`, and the action property `SealedCapture`.
  The invariant has two halves, one for the container and one for the host, that
  meet where the two do: in the frames, the capture directory and the state of
  the container. What a frame says holds (`FramesInv`); what the supervisor has
  seen, the agent has done (`WitnessInv`); and what the host concludes rests on
  a frame that was sent (`VerdictInv`), so that a completed attempt leads back,
  through a frame and a status, to an agent that ended with success. The
  execution record is either what the frames say or lost, at every place where
  the attempt can still be graded.
- **`EvalRecordsProofs`** (any suite, any number of tasks, cases, processes,
  edits, crashes and faults): `ScoresEarned`, `CleanRuntime`, `FrozenGate`,
  `SoundReport`, and the action property `WholeLast`. For the verifier the
  invariant says who owns what is left in the runtime: the current case of a
  task that holds a slot, or a cleanup that failed (`OwnInv`); and that the
  truth about a case is known, or lost, when it is scored (`Settled`). For the records it
  says what a process at each point has read and hashed (`Hashed`), that a file
  is filled by one process at a time and is not whole meanwhile (`FillInv`), and
  that rows once loaded stay on the disk (`Rowed`, `PageInv`).
- **`StructureProofs`** (any corpus, references and settings): `Resolution`,
  `GraphSound`, and what the components, the bow-tie and the searches reach.
  *Resolution* rests on `Clean`, whose fold is followed component by component:
  a cleaned path has `Up` only in front, so that a target that does not escape
  the root names a place below it. `CleanLink` is why a link written from one
  document to another arrives. *Union-find* (`Unites`): the parents form a
  forest, the ends of a link united so far have one root, and no set that is
  closed under the links, either way, is left by going to a parent; path
  compression keeps all three. *Tarjan* (`TarjanRight`): numbers follow the
  order of visits; every document on the stack leads down to that of a frame,
  and a frame leads to all above it; `low` of a frame is the number of a
  document on the stack that it leads to, and no higher than any stacked
  neighbour looked at in its part; what has left the stack is closed and
  consists of whole strong components. One lemma per step (`ConnectStep`,
  `DescendStep`, `BackStep`, `ReturnStep`) keeps it. The *bow-tie* is the
  definition once the components are exact, and breadth-first search gives the
  balls its frontiers stand for.
- **`AnalysisProofs`** extends it to a whole run, whose invariant is `IndInv`
  (`Invariance`): `StructureExact`, `Topological`, `AdviceSound`, `PromptGate`.
  *Cut points and bridges* (`LowRight`): the frames are a path from the root, and
  a document that has been met belongs to the block of the last frame pushed
  before it. All links of a finished document lead to documents met before the
  next frame; `low` of a frame is the least number that a link leads to from
  what was looked at in its block, the link to the frame below left aside; each
  block, and the rest of the tree, is connected by itself. Then a frame that
  returns with `low` no less than the number of the frame below hangs on that
  document alone, and one that returns with less has a way round. What the
  search calls a cut point or a bridge is one so far, and what is finished and
  not called one is none; for the root, its children count. Four relations say
  what the six actions do to this (`Finds`, `Tries`, `Backs`, `Ends`), and the
  invariant is proved for each of them, without the records and stacks.
  *Trails*: Kahn's frontier holds the components all of whose predecessors are
  out, so none comes before what leads to it. *Advice*: the order of the report
  is strict and total on the findings of a kind, so a cap keeps the first of
  them and counts the rest (`FewAreFirst`). *The prompt*: no finding that gates
  is of a kind that is capped or can be excluded.

The recursive functions and folds of `Components`, `Corpus` and `Trails` are
proved about without the library's induction theorems, which take a predicate as
a parameter that no backend instantiates. `LeastOf` says that a non-empty set of
numbers has a least member, so a proof by induction becomes one by the least
counterexample; `IterationExists`, that what a loop computes step by step exists
as a function of the step; `Upward`, that what holds at the start and is kept by
every step holds at the end. Reachability is membership in every closed set, so
it needs no induction at all. The modules that sort (`SortedBy`) have the lemma
that each member of a finite set is returned once, in order of its key.

What the proofs changed in the model:

- Two assumptions were missing from `CommandsAssumption`, and both are what the
  code does: only `graph` looks at a flag after its pipeline has run, and `serve`
  writes no artifact. `EvalAssumption` had to say what a record may contain, that
  an empty name is not an attempt's, and that a torn file is not an absent one.
- The history variable `stale` of `EvalRecords` used to be set to the processes
  that run at an edit. A process that had ended after a first edit was then
  forgotten at a second, and `FrozenOrRefused` would have been false of it; the
  invariant is not inductive with one, and no run had two edits. It is now kept.
- `Ancestors`, the attempts a retry goes back to, was recursive and is now the
  least set closed under the parent. Only `ReportIsSound` uses it: the code looks
  at direct parents. The roots of the run now have retries whose parent is
  missing.
- `Analysis` had no assumptions but that on `Scale`. What the parser, the scanner
  and the configuration let through is now stated (`InputsAssumption`,
  `TextsAssumption`, `RanksAssumption`, `CapsAssumption`, `WeightAssumption`).
- The order of the report compared places one after the other in a way that was
  not a strict order of all findings: texts and fragments were not compared.
  `EarlierInReport` is now lexicographic over everything the code compares, with
  the order of strings as a constant (`Collation`).
- `GraphIsExact` said that the sections of a document form a tree. That is false
  of a corpus with two equal explicit IDs, which no run had; it now says what
  does hold. `ScentIsActionable` had no exception for a title that reads as its
  own file's heading. Both are described in section 4.
- `StructureIsExact` puts the two searches in one property, and `AdviceIsSound`
  what was three; `MeasuresAgree` is alone, since it is only model-checked.
- Statuses, schedules and attempts are constants, not strings of any kind, since
  no backend knows that a literal is a `STRING`.

Only model-checked:

- all liveness (`Returns`, `CheckReturns`, `ScanEnds`, `CommandEnds`,
  `Terminates`, `AttemptEnds`, `CommandsEnd`, and the fairness part of
  `ImplementsStage`), which the prover cannot treat;
- `MeasuresAgree`. Its sums over sets of pairs are folds whose terms are folds, and
  the comparison of Brandes' accumulation with the share of shortest paths holds
  only when `Scale` is a multiple of every number of shortest paths, since the
  model divides integers: a fact about an instance and not about every one.
  (The components are proved right, and so is what the searches of the bow-tie
  reach; that distances are least is proved for the search from the roots only.)

## 6. Plan

Modelled first: the path from the tree to the exit code, because everything the
program promises its users passes through it; then an evaluation attempt, which
has most of the failures; then what the verdict is made of (resolver, graph,
analyses, findings), the commands around it, and the records of the evaluation.
The modules of section 2 and the proofs of section 5 are what came of it. What
is left:

1. The arithmetic of `Metrics` over exact fractions, and `MeasuresAgree` as a
   theorem.
2. The composition of `CheckRun` with its stages as refinement theorems.

## 7. Not modelled

Parsing of Markdown, YAML and command lines, rendering of every format: text in
and text out, covered by golden tests. The numbers of PageRank and HITS:
floating point; the rest depends on PageRank only by its order. The characters
of paths, slugs and patterns: string arithmetic, reduced to components, names
and verdicts. Address classification of the link checker's guard: a predicate,
reduced to its two answers. `net/http`, the container runtimes and git are
external and modelled by what the code relies on.

In the evaluation: building images and argument lists, the checks of mounts and
of private trees, scoring, task hashing, qualification, the probe's other
checks, and `Materialize`, `Reset`, `ApplyCase` and `ValidateRetry` of a
workspace (one process, one directory, each call made by hand). The correctness
suite is a second implementation of the graph operations used as a test oracle:
`Analysis` states its own definitions by reachability instead of modelling
another program's copy of them.

## 8. Running

```
tlc -config MCParsePool.cfg MCParsePool.tla     # any .cfg with the module its run names
tlapm ParsePoolProofs.tla                       # and the other modules named ...Proofs
```

Every passing run ends within two or three minutes. `StructureProofs` and
`AnalysisProofs` take ten to fifteen minutes each from nothing, the other proof
modules less than three.
