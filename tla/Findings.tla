------------------------------ MODULE Findings ------------------------------
(***************************************************************************)
(* What a run reports: the findings of the references, of the graph, of    *)
(* the OKF rules (internal/application: findings.go, graphfindings.go,     *)
(* okffindings.go; internal/domain/okf), the exit code they lead to, and   *)
(* the part of them a fix prompt shows (internal/infrastructure/emit/      *)
(* fixprompt.go).                                                          *)
(*                                                                         *)
(* A finding keeps what tells two findings apart or is acted on: messages  *)
(* and hints are left out.                                                 *)
(***************************************************************************)
EXTENDS Components, CriticalStructure, Metrics, Scent

CONSTANTS
  MaxPromptSuggested,  \* defaultSuggestedLinkCap
  MaxPromptScent,      \* defaultLowScentAnchorCap
  Collation            \* text -> its place in the order of strings

\* In the order of FindingKind.
Kinds ==
  <<"broken-link", "broken-anchor", "orphan", "unreachable", "ambiguous", "knowledge-gap",
    "under-linked", "dead-end", "suggested-link", "dead-link", "articulation-point", "bridge",
    "low-scent-anchor", "far-from-root", "okf-missing-frontmatter", "okf-missing-type",
    "okf-reserved-file-structure">>

Info == 0
Warning == 1
Error == 2

\* at: what else the finding is about on its line; other: the second document
\* of a pair, 0 if there is none; score: what its kind is ranked by.
Finding(kind, severity, doc, line) ==
  [kind |-> kind, severity |-> severity, doc |-> doc, line |-> line,
   at |-> [target |-> <<>>, frag |-> "", text |-> ""], other |-> 0,
   score |-> [num |-> 0, den |-> 1], shared |-> 0]

-----------------------------------------------------------------------------
(* References (findings.go) and external links found dead (parse.go).      *)

ReferenceFinding(r, kind, severity) ==
  [Finding(kind, severity, r.raw.origin, r.raw.line) EXCEPT
     !.at = [target |-> r.raw.target, frag |-> r.raw.frag, text |-> r.raw.text]]

FindingsFromReferences ==
  {ReferenceFinding(r, "broken-link", Error) : r \in {q \in refs : q.health = "broken"}}
  \union {ReferenceFinding(r, "broken-anchor", Error) :
            r \in {q \in refs : q.health = "broken-anchor"}}
  \union {ReferenceFinding(r, "ambiguous", Warning) :
            r \in {q \in refs : q.health = "ambiguous"}}

\* One for a URL and a line.  The checker is off if nothing is dead; LinkCheck
\* shows what it answers.
DeadLinkFindings ==
  {[ReferenceFinding(r, "dead-link", Warning) EXCEPT !.at.text = ""] :
     r \in {q \in refs : q.health = "external" /\ q.raw.target \in config.dead}}

-----------------------------------------------------------------------------
(* Roots, reachability and the structure tiers (roots.go, hops.go,         *)
(* orphans.go).  A distance is what rootDistances finds (RootSearch); the  *)
(* thresholds are normalized.                                              *)

RootSet ==
  {d \in Docs : \/ IsDirectoryIndex(Base(Path(d)))
                \/ Base(Path(d)) = [stem |-> "SKILL", ext |-> ".md"]
                \/ corpus[d].type = "index"
                \/ d \in config.roots}

Indeterminate == RootSet = {}
IntentionalOrphans == {d \in Docs : corpus[d].optOut}
StructureExempt == RootSet \union IntentionalOrphans

RootsOf(d) == {r \in RootSet : d \in DOMAIN bfs.dist[r]}
RootDistance(d) == Min({bfs.dist[r][d] : r \in RootsOf(d)})
Reached == {d \in Docs : RootsOf(d) # {}}

Isolated == {d \in Docs \ StructureExempt : graph.in[d] = {} /\ graph.out[d] = {}}
DeadEnd  == {d \in Docs \ StructureExempt : graph.out[d] = {}} \ Isolated

\* Mutant of UnderLinked: the ladder does not stop at the first tier.
UnderLinkedToo ==
  {d \in Docs \ StructureExempt : Cardinality(graph.in[d]) < config.inbound}

UnderLinked ==
  {d \in Docs \ StructureExempt : Cardinality(graph.in[d]) < config.inbound}
    \ (Isolated \union DeadEnd)

Unreachable ==
  IF Indeterminate THEN {} ELSE Docs \ (Reached \union IntentionalOrphans \union Isolated)

FarFromRoot == {d \in Reached \ StructureExempt : RootDistance(d) >= config.far}

StructureSeverity == IF config.structureWarns THEN Warning ELSE Info

DocumentFindings(kind, severity, docs) == {Finding(kind, severity, d, 0) : d \in docs}

\* The first document is where the finding is, the second the other endpoint.
PairFindings(kind, pairs) ==
  {[Finding(kind, Info, p[1], 0) EXCEPT !.other = p[2]] : p \in pairs}

FindingsFromMetrics(gaps, suggestions, scents) ==
  DocumentFindings("orphan", Warning, Isolated)
  \union DocumentFindings("unreachable", Warning, Unreachable)
  \union DocumentFindings("under-linked", StructureSeverity, UnderLinked)
  \union DocumentFindings("dead-end", StructureSeverity, DeadEnd)
  \union DocumentFindings("articulation-point", Info, ab.aps)
  \union DocumentFindings("far-from-root", Info, FarFromRoot)
  \union PairFindings("knowledge-gap", gaps)
  \union PairFindings("bridge", {<<Min(b), Max(b)>> : b \in ab.bridges})
  \union {[Finding("suggested-link", Info, s.a, 0) EXCEPT
             !.other = s.b, !.shared = s.shared, !.score = [num |-> s.adamicAdar, den |-> 1]] :
            s \in suggestions}
  \union {[Finding("low-scent-anchor", Info, s.source, s.line) EXCEPT
             !.at = [target |-> Path(s.target[1]), frag |-> s.target[2], text |-> s.text],
             !.other = s.target[1], !.score = s.score] : s \in scents}

-----------------------------------------------------------------------------
(* Check (okf.go): the three rules.  front is the state of the front       *)
(* matter block, type that of its type key.                                *)

\* BOUND: file names are in the case the code compares them in.
IsIndexFile(d) == Base(Path(d)) = [stem |-> "index", ext |-> ".md"]
IsLogFile(d)   == Base(Path(d)) = [stem |-> "log", ext |-> ".md"]
Concepts == {d \in Docs : ~IsIndexFile(d) /\ ~IsLogFile(d)}

MissingFrontmatter == {d \in Concepts : corpus[d].front # "parsed"}
MissingType == {d \in Concepts \ MissingFrontmatter : corpus[d].type \in {"none", "blank", "list"}}

\* The lines of the level 2 headings of a log that are no dates.
UndatedLines(d) ==
  {Sections(d)[i].from : i \in {k \in DOMAIN Sections(d) :
                                  Sections(d)[k].level = 2 /\ ~Texts[Sections(d)[k].text].date}}

\* A title may come from the first heading, so that it counts for nothing.
OnlyOKFVersion(d) ==
  /\ corpus[d].aliases = {} /\ corpus[d].parent = <<>>
  /\ corpus[d].type = "none" /\ ~corpus[d].optOut

BadIndex(d) ==
  /\ IsIndexFile(d) /\ corpus[d].front # "absent"
  /\ Dir(Path(d)) = <<>> => corpus[d].front = "unparseable" \/ ~OnlyOKFVersion(d)

ReservedStructure ==
  {<<d, 1>> : d \in {e \in Docs : BadIndex(e)}}
    \union UNION {{<<d, line>> : line \in UndatedLines(d)} : d \in {e \in Docs : IsLogFile(e)}}

Conformant == MissingFrontmatter \union MissingType = {} /\ ReservedStructure = {}

OKFFindings ==
  {Finding("okf-missing-frontmatter", Error, d, 1) : d \in MissingFrontmatter}
  \union {Finding("okf-missing-type", Error, d, 1) : d \in MissingType}
  \union {Finding("okf-reserved-file-structure", Error, v[1], v[2]) : v \in ReservedStructure}

-----------------------------------------------------------------------------
(* Stage 5 of the pipeline: one report, and the exit code of `check`.      *)

AllFindings(gaps, suggestions, scents) ==
  FindingsFromReferences
  \union FindingsFromMetrics(gaps, suggestions, scents)
  \union DeadLinkFindings
  \union (IF config.okf THEN OKFFindings ELSE {})

CountByKind(findings, kind) == Cardinality({f \in findings : f.kind = kind})

CheckExitCode(findings, strict) ==
  LET Some(kinds) == \E k \in kinds : CountByKind(findings, k) > 0 IN
  IF \/ config.okf /\ ~Conformant
     \/ Some({"broken-link", "broken-anchor"})
     \/ strict /\ Some({"ambiguous", "orphan", "unreachable"})
     \/ strict /\ config.structureWarns /\ Some({"under-linked", "dead-end"})
  THEN 1 ELSE 0

-----------------------------------------------------------------------------
(* FixPrompt.                                                              *)

PairKinds == {"suggested-link", "knowledge-gap", "bridge"}

\* Mutant of ExcludedAdvisory: a finding that gates is left out as well.
ExcludedFinding(f) ==
  f.doc \in config.exclude \/ (f.kind \in PairKinds /\ f.other \in config.exclude)

\* The other document of a link without scent may be excluded.
ExcludedAdvisory(f) ==
  /\ f.severity = Info
  /\ f.doc \in config.exclude \/ (f.kind \in PairKinds /\ f.other \in config.exclude)

\* The order of the report within a kind; for links without scent that of
\* ComputeScent, whose own ties keep the order of the edges.
EarlierInReport(f, g) ==
  LET At(h) == <<h.doc, h.line, h.other, Collation[h.at.text], Collation[h.at.frag]>> IN
  \E i \in 1..5 : At(f)[i] < At(g)[i] /\ \A k \in 1..(i - 1) : At(f)[k] = At(g)[k]

\* suggestedLinkRank and lowScentRank, and report order among equals.
Outranks(f, g) ==
  LET better == IF f.kind = "suggested-link" THEN More(f.score, g.score) ELSE More(g.score, f.score)
      worse  == IF f.kind = "suggested-link" THEN More(g.score, f.score) ELSE More(f.score, g.score) IN
  \/ better
  \/ ~worse /\ f.shared > g.shared
  \/ ~worse /\ f.shared = g.shared /\ EarlierInReport(f, g)

CapKind(findings, kind, cap) ==
  LET of == {f \in findings : f.kind = kind} IN
  IF Cardinality(of) <= cap THEN [kept |-> findings, omitted |-> 0]
  ELSE [kept |-> (findings \ of) \union
                 {f \in of : Cardinality({g \in of : Outranks(g, f)}) < cap},
        omitted |-> Cardinality(of) - cap]

\* The modes exclude each other; kinds are those of the mode "kinds".
SelectFindings(findings, opts) ==
  LET chosen   == IF opts.mode = "kinds" THEN {f \in findings : f.kind \in opts.kinds} ELSE findings
      surfaced == {f \in chosen : ~ExcludedAdvisory(f)}
      once     == CapKind(surfaced, "suggested-link", MaxPromptSuggested)
      twice    == CapKind(once.kept, "low-scent-anchor", MaxPromptScent)
      excluded == Cardinality(chosen) - Cardinality(surfaced) IN
  CASE opts.mode = "all"     -> [kept |-> findings, excluded |-> 0, omitted |-> 0]
    [] opts.mode = "errors"  -> [kept |-> {f \in findings : f.severity = Error},
                                 excluded |-> 0, omitted |-> 0]
    [] opts.mode = "kinds"   -> [kept |-> surfaced, excluded |-> excluded, omitted |-> 0]
    [] opts.mode = "default" -> [kept |-> twice.kept, excluded |-> excluded,
                                 omitted |-> once.omitted + twice.omitted]
=============================================================================
