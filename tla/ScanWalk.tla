------------------------------ MODULE ScanWalk ------------------------------
(***************************************************************************)
(* Stage 1 of the pipeline: Scanner.Scan, over a tree other processes are  *)
(* free to change while it walks                                           *)
(* (internal/infrastructure/fsscanner: fsscanner.go, gitignore.go).        *)
(*                                                                         *)
(* The entries below the scan root are numbered in the order WalkDir meets *)
(* them, every directory before its contents; 0 is the root.  What an      *)
(* entry is, and what the ignore rules say of it, is data; what the walk   *)
(* does with it is the model.  Entries may disappear during the scan; none *)
(* appears and none changes its kind (BOUND), and a directory that can be  *)
(* listed lets its entries be looked up (BOUND).                           *)
(***************************************************************************)
EXTENDS Integers, FiniteSets, SequencesExt, Sorting

CONSTANTS
  Parent,      \* entry -> the directory it is in
  Kind,        \* entry -> "dir", "cache" (a default-ignored directory), "md",
               \*          "link" or "other"
  Name,        \* entry -> base name
  Rank,        \* markdown entry -> its place in DocumentID order
  LocalSets,   \* sets of entries that git ignores, closed under "is inside"
  FileRules,   \* verdicts of .matlatlignore: entry -> "none", "ignore", "keep"
  NestedSets,  \* sets of directories that hold a .git entry
  LargeSets,   \* sets of files above the size cap
  Outs,        \* places of the output directory (see OutPlaces)
  MaxFiles,    \* Config.MaxFiles
  MaxGone      \* BOUND: entries that may disappear

Entry == DOMAIN Parent
Dirs  == {n \in Entry : Kind[n] \in {"dir", "cache"}}
Docs  == {n \in Entry : Kind[n] = "md"}

\* --out: unset, the scan root, a directory above it, or one inside it.
OutPlaces == {"none", "root", "above"} \X {0} \union {"inside"} \X Dirs

ASSUME ScanWalkAssumption ==
  /\ Entry \subseteq Nat \ {0} /\ IsFiniteSet(Entry)
  /\ \A n \in Entry :
       /\ Parent[n] \in Dirs \union {0} /\ Parent[n] < n
       /\ \A m \in Entry : Parent[n] < m /\ m < n => Parent[m] >= Parent[n]
  /\ Kind \in [Entry -> {"dir", "cache", "md", "link", "other"}]
  /\ Rank \in [Docs -> Nat] /\ \A m, n \in Docs : Rank[m] = Rank[n] => m = n
  /\ LocalSets \subseteq SUBSET Entry
  /\ FileRules \subseteq [Entry -> {"none", "ignore", "keep"}]
  /\ NestedSets \subseteq SUBSET Dirs /\ LargeSets \subseteq SUBSET Docs
  /\ Outs \subseteq OutPlaces
  /\ MaxFiles \in Nat \ {0} /\ MaxGone \in Nat

\* n lies somewhere below d: nothing between them leaves d.
Inside(n, d) == d < n /\ \A m \in Entry : d < m /\ m <= n => Parent[m] >= d

Path[n \in Entry] ==
  IF Parent[n] = 0 THEN <<Name[n]>> ELSE Append(Path[Parent[n]], Name[n])

VARIABLES
  local, rules, nested, large, out,  \* the tree and the command line
  respect,   \* --respect-gitignore
  gone,      \* entries that have disappeared
  ctxDone,   \* the context is canceled
  pc,        \* "collect", "walk", "stat" or "done"
  git,       \* the entries git listed as ignored
  pending,   \* entries of directories read so far, still to be visited
  cur,       \* the file between EvalSymlinks and Lstat
  files,     \* ScannedFiles, in the order found
  notices,   \* pairs of notice kind and entry
  ret        \* what Scan returned

given == <<local, rules, nested, large, out, respect>>
vars  == <<given, gone, ctxDone, pc, git, pending, cur, files, notices, ret>>

Pending == [kind |-> "none"]
BadRoot == [kind |-> "badRoot"]    \* the root cannot be opened
Error   == [kind |-> "error"]      \* the walk was stopped

-----------------------------------------------------------------------------
(* The ignore rules.                                                       *)

\* gitIgnoreLines and the matcher they are compiled into: a line is the path of
\* an ignored entry, and a path matches a line that occurs anywhere in it.
Occurs(line, path) ==
  \E k \in 1..(Len(path) - Len(line) + 1) : SubSeq(path, k, k + Len(line) - 1) = line

GitLine(n) == \E g \in git : Occurs(Path[g], Path[n])

\* loadIgnore: git's lines first, .matlatlignore last, the last match wins.
Matches(n) == rules[n] = "ignore" \/ (rules[n] = "none" /\ GitLine(n))

\* Mutant of OutputExcludes: a path that is never canonicalized equals no entry.
OutputUnresolved(d) == out[1] \in {"root", "above"}

\* shouldSkipDir: the output directory, and all that is under it; every
\* directory of the scan is, when the output directory is the root or above.
OutputExcludes(d) ==
  \/ out[1] \in {"root", "above"}
  \/ out[1] = "inside" /\ d = out[2]
  \/ out[1] = "inside" /\ Inside(d, out[2])

SkipDir(d) == Kind[d] = "cache" \/ OutputExcludes(d) \/ Matches(d)

-----------------------------------------------------------------------------
Init ==
  /\ local \in LocalSets /\ rules \in FileRules
  /\ nested \in NestedSets /\ large \in LargeSets
  /\ out \in Outs /\ respect \in BOOLEAN
  /\ gone = {} /\ ctxDone = FALSE
  /\ pc = "collect"
  /\ git = {} /\ pending = {} /\ cur = 0
  /\ files = <<>> /\ notices = {} /\ ret = Pending

Cancel ==
  /\ ~ctxDone /\ ctxDone' = TRUE
  /\ UNCHANGED <<given, gone, pc, git, pending, cur, files, notices, ret>>

\* Another process removes an entry, with everything below it.
Vanish(n) ==
  /\ ret = Pending /\ n \notin gone
  /\ gone' = gone \union {n} \union {m \in Entry : Inside(m, n)}
  /\ Cardinality(gone') <= MaxGone
  /\ UNCHANGED <<given, ctxDone, pc, git, pending, cur, files, notices, ret>>

Return(r) == ret' = r /\ pc' = "done"

(* Before the walk: the root is canonicalized and git is asked for what it *)
(* ignores.  Whatever goes wrong there (no git, no work tree, a timeout,   *)
(* the end of the context, too much output) leaves the scan without git's  *)
(* rules and with one notice.                                              *)

\* filepath.Abs, EvalSymlinks or Stat of the root fails, or it is no directory.
OpenRoot ==
  /\ pc = "collect"
  /\ Return(BadRoot)
  /\ UNCHANGED <<given, gone, ctxDone, git, pending, cur, files, notices>>

Collect ==
  /\ pc = "collect"
  /\ \/ /\ ~respect /\ UNCHANGED <<git, notices>>
     \/ /\ respect /\ ~ctxDone
        /\ git' = local \ gone
        /\ UNCHANGED notices
     \/ /\ respect
        /\ notices' = notices \union {<<"gitignore", 0>>}
        /\ UNCHANGED git
  /\ pc' = "walk" /\ pending' = {0}
  /\ UNCHANGED <<given, gone, ctxDone, cur, files, ret>>

(* The walk: first the root, then always the next entry of the directories *)
(* read so far.                                                            *)

Visiting(n) == pc = "walk" /\ n \in pending /\ \A m \in pending : n <= m

Stop(n) == /\ Visiting(n) /\ ctxDone
           /\ Return(Error)
           /\ UNCHANGED <<given, gone, ctxDone, git, pending, cur, files, notices>>

Below(d) == {n \in Entry : Parent[n] = d /\ n \notin gone}

Skip(n, what) ==
  /\ pending' = pending \ {n}
  /\ notices' = notices \union what
  /\ UNCHANGED <<given, gone, ctxDone, pc, git, cur, files, ret>>

\* A directory: skipped, pruned as a repository of its own, or read.  Reading it
\* fails when it is gone, and may fail (permissions) when it is not.
PruneDir(n) ==
  /\ Visiting(n) /\ ~ctxDone /\ n \in Dirs
  /\ \/ SkipDir(n) /\ Skip(n, {})
     \/ ~SkipDir(n) /\ n \in nested \ gone /\ Skip(n, {<<"nested-repo", n>>})

Readable(n) == n = 0 \/ (n \in Dirs /\ ~SkipDir(n) /\ n \notin nested \ gone)

\* Mutant of ReadDir: the error of a directory that cannot be read is dropped.
ReadDirQuietly(n) ==
  /\ Visiting(n) /\ ~ctxDone /\ Readable(n)
  /\ \/ Skip(n, {})
     \/ /\ n \notin gone
        /\ pending' = (pending \ {n}) \union Below(n)
        /\ UNCHANGED <<given, gone, ctxDone, pc, git, cur, files, notices, ret>>

ReadDir(n) ==
  /\ Visiting(n) /\ ~ctxDone /\ Readable(n)
  /\ \/ Skip(n, {<<"walk-error", n>>})
     \/ /\ n \notin gone
        /\ pending' = (pending \ {n}) \union Below(n)
        /\ UNCHANGED <<given, gone, ctxDone, pc, git, cur, files, notices, ret>>

\* A file: the ignore rules come first and are silent.
PassFile(n) ==
  /\ Visiting(n) /\ ~ctxDone /\ n \in Entry \ Dirs
  /\ \/ Matches(n) /\ Skip(n, {})
     \/ ~Matches(n) /\ Kind[n] = "link" /\ Skip(n, {<<"skipped-symlink", n>>})
     \/ ~Matches(n) /\ Kind[n] = "other" /\ Skip(n, {})
     \/ ~Matches(n) /\ Kind[n] = "md" /\ n \in gone /\ Skip(n, {<<"escapes-root", n>>})

Canonicalize(n) ==
  /\ Visiting(n) /\ ~ctxDone /\ n \in Docs /\ ~Matches(n) /\ n \notin gone
  /\ cur' = n /\ pc' = "stat"
  /\ UNCHANGED <<given, gone, ctxDone, git, pending, files, notices, ret>>

Drop(kind) ==
  /\ pending' = pending \ {cur}
  /\ notices' = notices \union {<<kind, cur>>}
  /\ pc' = "walk" /\ cur' = 0
  /\ UNCHANGED <<given, gone, ctxDone, git, files, ret>>

\* The sort at the end of Scan, by DocumentID.
Sorted(s) == SortedBy(ToSet(s), Rank)

\* Mutant of Reject: nobody looks at the error of the stat.
RejectLarge == pc = "stat" /\ cur \notin gone /\ cur \in large /\ Drop("oversized")

\* The stat of the canonical path, then the size cap.
Reject == /\ pc = "stat"
          /\ \/ cur \in gone /\ Drop("io-error")
             \/ cur \notin gone /\ cur \in large /\ Drop("oversized")

\* The file is taken in while there is room.
Accept ==
  /\ pc = "stat" /\ cur \notin gone \union large /\ Len(files) < MaxFiles
  /\ files' = Append(files, cur)
  /\ pending' = pending \ {cur}
  /\ pc' = "walk" /\ cur' = 0
  /\ UNCHANGED <<given, gone, ctxDone, git, notices, ret>>

\* errStopWalk: the cap ends the walk, once there is a file too many.
Truncate ==
  /\ pc = "stat" /\ cur \notin gone \union large /\ Len(files) >= MaxFiles
  /\ notices' = notices \union {<<"truncated", 0>>}
  /\ Return([kind |-> "ok", files |-> Sorted(files)])
  /\ UNCHANGED <<given, gone, ctxDone, git, pending, cur, files>>

Finish ==
  /\ pc = "walk" /\ pending = {}
  /\ Return([kind |-> "ok", files |-> Sorted(files)])
  /\ UNCHANGED <<given, gone, ctxDone, git, pending, cur, files, notices>>

Terminating == pc = "done" /\ UNCHANGED vars

Visit(n) == Stop(n) \/ PruneDir(n) \/ ReadDir(n) \/ PassFile(n) \/ Canonicalize(n)

Walk ==
  \/ OpenRoot \/ Collect \/ Reject \/ Accept \/ Truncate \/ Finish
  \/ \E n \in Entry \union {0} : Visit(n)

Next == Walk \/ Cancel \/ Terminating \/ \E n \in Entry : Vanish(n)

\* The walk is one goroutine that never blocks.
Spec == Init /\ [][Next]_vars /\ WF_vars(Walk)

-----------------------------------------------------------------------------
NoticeKinds == {"gitignore", "nested-repo", "walk-error", "skipped-symlink",
                "escapes-root", "io-error", "oversized", "truncated"}

\* The types; only markdown files are collected, and never more than the cap.
TypeOK ==
  /\ local \in LocalSets /\ rules \in FileRules /\ nested \in NestedSets
  /\ large \in LargeSets /\ out \in Outs /\ respect \in BOOLEAN
  /\ gone \subseteq Entry /\ ctxDone \in BOOLEAN
  /\ pc \in {"collect", "walk", "stat", "done"}
  /\ git \subseteq local /\ pending \subseteq Entry \union {0}
  /\ cur \in Docs \union {0}
  /\ files \in Seq(Docs) /\ Len(files) <= MaxFiles
  /\ notices \subseteq NoticeKinds \X (Entry \union {0})
  /\ ret \in {Pending, BadRoot, Error} \union [kind : {"ok"}, files : Seq(Docs)]

Succeeded == ret.kind = "ok"
Truncated == <<"truncated", 0>> \in notices

\* The documents of the tree under a set of ignored entries: no walk in it.
Shut(d, ignored) == Kind[d] = "cache" \/ OutputExcludes(d) \/ d \in ignored \/ d \in nested

Kept(ignored) ==
  {n \in Docs \ (ignored \union large) :
     \A d \in Dirs : Inside(n, d) => ~Shut(d, ignored)}

Ignored == {n \in Entry : Matches(n)}

\* Scan: what it returns are documents the rules leave in, each once, in the
\* order of their identities, and no more than the cap; what it promises is
\* "sorted by DocumentID for determinism", and the walk is not in that order.
OnlyKept ==
  Succeeded =>
    /\ ToSet(ret.files) \subseteq Kept(Ignored)
    /\ \A j, k \in 1..Len(ret.files) : j < k => Rank[ret.files[j]] < Rank[ret.files[k]]
    /\ Truncated => Len(ret.files) = MaxFiles

\* No document is lost in silence: one that the rules leave in and that is not
\* returned has a directory it is in noticed, or the scan says it was truncated;
\* one that is still there is lost to an unreadable directory or to the cap,
\* never to the walk or to another process.  And a changing or unreadable tree
\* never stops the scan ("record a notice and keep going rather than aborting").
NothingIsLost ==
  /\ Succeeded =>
       \A n \in Kept(Ignored) \ gone :
         \/ n \in ToSet(ret.files) \/ Truncated
         \/ <<"walk-error", 0>> \in notices
         \/ \E d \in Dirs : Inside(n, d) /\ <<"walk-error", d>> \in notices
  /\ ret = Error => ctxDone

\* Config.OutputDir, "so a re-scan does not ingest its own artifacts": nothing
\* under an output directory inside the tree is scanned.
OutputStaysOut ==
  Succeeded /\ out[1] = "inside" =>
    \A n \in ToSet(ret.files) : ~Inside(n, out[2])

\* A scan is clean, with its types: nothing in it that a rule or the output directory
\* keeps out, nothing twice, nothing out of order.
ScanIsClean == TypeOK /\ OnlyKept /\ OutputStaysOut

\* Scan ends, whatever happens to the tree.
ScanEnds == <>(pc = "done")

\* Git answered, everything could be read and there is no other rule.
Undisturbed ==
  /\ gone = {} /\ out[1] = "none" /\ \A n \in Entry : rules[n] = "none"
  /\ \A x \in notices : x[1] \in {"skipped-symlink", "nested-repo", "oversized"}

\* --respect-gitignore, "local runs match a clean CI checkout": of an undisturbed
\* scan, the files git ignores are left out and no other ("matlatl's corpus
\* matches git check-ignore's own verdicts", ADR 0024).
LocalMatchesClean ==
  Succeeded /\ respect /\ Undisturbed => ToSet(ret.files) = Kept(local)
=============================================================================
