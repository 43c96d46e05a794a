------------------------------ MODULE Analysis ------------------------------
(***************************************************************************)
(* Stages 3 to 5 of Pipeline.Run: the references of a frozen corpus are    *)
(* resolved, the graph is built, and Analyze (metrics.go) runs its         *)
(* analyses one after the other.  The loops of union-find, Tarjan, the     *)
(* low-link search and the trails are steps of their own; what remains is  *)
(* computed at once.  One goroutine does all of it.  The report of the run *)
(* follows.                                                                *)
(***************************************************************************)
EXTENDS Trails, Findings, TLC

CONSTANTS
  Inputs,  \* families of inputs: corpora, sets of raw references, settings
  Ranks    \* the assignments of PageRank tried

ASSUME ScaleAssumption == Scale \in Nat \ {0}

ASSUME CapsAssumption ==
  {MaxGaps, MaxFanout, MaxSuggestedLinks, MaxPromptSuggested, MaxPromptScent} \subseteq Nat

ASSUME WeightAssumption == \A k \in 2..MaxFanout : Weight[k] \in Nat

\* The tokens of a text are few; what it is reduced to is a text; no two texts
\* have one place among strings.
ASSUME TextsAssumption ==
  /\ \A t \in DOMAIN Texts : IsFiniteSet(Texts[t].tokens) /\ Texts[t].after \in DOMAIN Texts
  /\ \A t \in DOMAIN Collation : Collation[t] \in Nat
  /\ \A t, u \in DOMAIN Collation : Collation[t] = Collation[u] => t = u

Component == [stem : STRING, ext : STRING]

IsSection(sections, i) ==
  /\ sections[i].up \in 0..(i - 1)
  /\ sections[i].text \in DOMAIN Texts /\ sections[i].slug \in DOMAIN Collation

\* What the parser and the scanner let into a corpus: a path is that of a file
\* below the root, clean and its own; a section comes after those it is part of.
IsCorpus(docs) ==
  /\ IsFiniteSet(DOMAIN docs) /\ DOMAIN docs \subseteq Nat \ {0}
  /\ \A d \in DOMAIN docs :
       /\ docs[d].path \in Seq(Component) /\ docs[d].path # <<>>
       /\ \A i \in DOMAIN docs[d].path : docs[d].path[i] # Up
       /\ {docs[d].title, docs[d].id} \subseteq DOMAIN Texts
       /\ docs[d].sections \in Seq(Range(docs[d].sections))
       /\ \A i \in DOMAIN docs[d].sections : IsSection(docs[d].sections, i)
  /\ \A d, e \in DOMAIN docs : docs[d].path = docs[e].path => d = e

IsRaw(docs, raw) ==
  raw \in [origin : DOMAIN docs, abs : BOOLEAN, target : Seq(Component), frag : STRING, line : Int,
          type : {"external", "anchor", "wikilink", "transclusion", "link", "image", "related"},
          text : DOMAIN Texts \intersect DOMAIN Collation]

\* The settings are normalized.
IsConfig(settings) ==
  /\ {settings.structureWarns, settings.okf, settings.strictDirs} \subseteq BOOLEAN
  /\ settings.minShared \in Nat \ {0}

ASSUME InputsAssumption ==
  /\ "" \in DOMAIN Texts \intersect DOMAIN Collation
  /\ \A family \in Inputs :
       /\ \A docs \in family.corpora : IsCorpus(docs)
       /\ \A docs \in family.corpora, found \in family.raws :
            IsFiniteSet(found) /\ \A raw \in found : IsRaw(docs, raw)
       /\ \A settings \in family.configs : IsConfig(settings)

\* Every document has a score.
ASSUME RanksAssumption ==
  \A family \in Inputs : \A docs \in family.corpora : \A r \in Ranks :
    \A d \in DOMAIN docs : r[d] \in Nat

VARIABLES
  stage,  \* what Analyze does next
  report  \* the results that are computed at once

given  == <<corpus, raws, config>>
search == <<uf, tarjan, bfs, ab, rank, trail>>
vars   == <<given, refs, graph, search, stage, report>>

Init ==
  /\ \E family \in Inputs :
       corpus \in family.corpora /\ raws \in family.raws /\ config \in family.configs
  /\ refs = {} /\ graph = <<>>
  /\ uf = <<>> /\ tarjan = <<>> /\ bfs = <<>> /\ ab = <<>> /\ rank = <<>> /\ trail = NewTrail
  /\ stage = "resolve" /\ report = <<>>

ResolveReferences ==
  /\ stage = "resolve" /\ stage' = "build"
  /\ refs' = ResolveAll
  /\ UNCHANGED <<given, graph, search, report>>

BuildGraph ==
  /\ stage = "build" /\ stage' = "start"
  /\ graph' = BuildReferenceGraph(refs)
  /\ UNCHANGED <<given, refs, search, report>>

StartComponents ==
  /\ stage = "start" /\ stage' = "weak"
  /\ uf' = NewUnionFind /\ tarjan' = NewTarjan
  /\ UNCHANGED <<given, refs, graph, bfs, ab, rank, trail, report>>

WeakStep ==
  /\ stage = "weak" /\ Union
  /\ UNCHANGED <<given, refs, graph, bfs, ab, rank, trail, stage, report>>

WeakDone ==
  /\ stage = "weak" /\ uf.todo = {} /\ stage' = "strong"
  /\ UNCHANGED <<given, refs, graph, search, report>>

StrongStep ==
  /\ stage = "strong" /\ (StrongConnect \/ Descend \/ BackEdge \/ Return)
  /\ UNCHANGED <<given, refs, graph, bfs, ab, rank, trail, stage, report>>

StrongDone ==
  /\ stage = "strong" /\ TarjanDone /\ stage' = "distances"
  /\ UNCHANGED <<given, refs, graph, search, report>>

SearchDistances ==
  /\ stage = "distances" /\ stage' = "paths"
  /\ ForEachSourceDistances
  /\ UNCHANGED <<given, refs, graph, uf, tarjan, ab, rank, trail, report>>

SearchPaths ==
  /\ stage = "paths" /\ stage' = "measure"
  /\ ForEachSourceBFS
  /\ UNCHANGED <<given, refs, graph, uf, tarjan, ab, rank, trail, report>>

\* What Analyze reads off the graph, the components and the searches.
Measure ==
  /\ stage = "measure" /\ stage' = "critical"
  /\ report' = [bowtie       |-> ClassifyBowtie,
                gaps         |-> DetectGaps(config.minGap),
                links        |-> PredictLinks,
                compactness  |-> Compactness,
                stratum      |-> Stratum,
                lengths      |-> PathLengths,
                clustering   |-> Clustering,
                betweenness  |-> Betweenness]
  /\ ab' = NewCritical
  /\ UNCHANGED <<given, refs, graph, uf, tarjan, bfs, rank, trail>>

CriticalSteps ==
  /\ stage = "critical" /\ CriticalStep
  /\ UNCHANGED <<given, refs, graph, uf, tarjan, bfs, rank, trail, stage, report>>

CriticalEnds ==
  /\ stage = "critical" /\ CriticalDone /\ stage' = "rank"
  /\ UNCHANGED <<given, refs, graph, search, report>>

\* ComputePageRank, of which only its answer matters to the rest.
PageRank ==
  /\ stage = "rank" /\ stage' = "trails"
  /\ rank' \in {[d \in Docs |-> r[d]] : r \in Ranks}
  /\ UNCHANGED <<given, refs, graph, uf, tarjan, bfs, ab, trail, report>>

TrailStep ==
  /\ stage = "trails" /\ (TrailStarts \/ TrailTakes \/ TrailEnds)
  /\ UNCHANGED <<given, refs, graph, uf, tarjan, bfs, ab, rank, stage, report>>

TrailsEnd ==
  /\ stage = "trails" /\ TrailsDone /\ stage' = "done"
  /\ LET scent == ComputeScent IN
     report' = [scent     |-> scent,
                hierarchy |-> BuildHierarchyTree,
                findings  |-> AllFindings(report.gaps.gaps, report.links.suggestions, scent)]
  /\ UNCHANGED <<given, refs, graph, search>>

Terminating == stage = "done" /\ UNCHANGED vars

Next ==
  \/ ResolveReferences \/ BuildGraph
  \/ StartComponents \/ WeakStep \/ WeakDone \/ StrongStep \/ StrongDone
  \/ SearchDistances \/ SearchPaths \/ Measure
  \/ CriticalSteps \/ CriticalEnds \/ PageRank \/ TrailStep \/ TrailsEnd
  \/ Terminating

Spec == Init /\ [][Next]_vars /\ WF_vars(Next)

Resolved == stage = "build"
Built    == stage = "start"
Measured == stage = "rank"
Done     == stage = "done"

-----------------------------------------------------------------------------
(* Properties.                                                             *)

\* How one document writes a link to another.
RelTo(d, e) == [i \in DOMAIN Dir(Path(d)) |-> Up] \o Path(e)

\* The node of the section at a position of the document; 0 is the document.
NodeAt(d, i) == IF i = 0 THEN DocNode(d) ELSE SectionNode(d, Sections(d)[i].slug)

Policies == <<"exact", "longest-suffix", "basename">>

(* Nothing resolves outside the scan root, whatever the content roots      *)
(* (ADR 0003, 0022); without content roots a root-absolute link means the  *)
(* same in every document; and a looser policy only adds candidates.       *)
ResolutionIsSound ==
  Resolved =>
    /\ \A r \in refs :
         r.raw.abs /\ r.raw.type \in {"link", "image", "related"} /\ EscapesRoot(Clean(r.raw.target))
         => r.health = "broken"
    /\ \A r \in refs : r.target.kind = "directory" => ~EscapesRoot(r.target.dir)
    /\ \A r \in refs : r.raw.abs /\ config.contentRoots = {} /\ r.raw.type = "link" =>
         \A d \in Docs : Resolve([r.raw EXCEPT !.origin = d]).target = r.target
    /\ \A raw \in raws : raw.type = "wikilink" /\ raw.target # <<>> =>
         \A i \in 1..2 : MatchCandidates(raw.target, Policies[i])
                           \subseteq MatchCandidates(raw.target, Policies[i + 1])

(* A link written from one document to another arrives there, up and down  *)
(* directories; a document has no link to itself; every edge joins two     *)
(* nodes; and the sections of a document lie below it, each below what     *)
(* comes before it, and in a tree as far as their slugs differ: the parser *)
(* does not see to that where headings have explicit IDs.                  *)
GraphIsExact ==
  Built =>
    /\ \A raw \in raws, e \in Docs :
         /\ raw.type = "link" /\ "link" \in config.navTypes /\ ~raw.abs /\ raw.frag = ""
         /\ raw.target = RelTo(raw.origin, e)
         => (e \in Out(raw.origin) <=> e # raw.origin)
    /\ \A d, e \in Docs : (e \in Out(d) <=> d \in In(e)) /\ d \notin Out(d)
    /\ \A e \in graph.edges : {e.from, e.to} \subseteq graph.nodes
    /\ LET tree == {e \in graph.edges : e.kind = "contains"} IN
       /\ \A n \in graph.nodes :
            LET above == Cardinality({e \in tree : e.to = n})
                named == Cardinality({i \in DOMAIN Sections(n[1]) : NodeAt(n[1], i) = n}) IN
            IF n = DocNode(n[1]) THEN above = 0 ELSE above \in 1..named
       /\ \A e \in tree :
            /\ e.from[1] = e.to[1]
            /\ \E i, k \in 0..Len(Sections(e.to[1])) :
                 i < k /\ e.from = NodeAt(e.to[1], i) /\ e.to = NodeAt(e.to[1], k)

\* Every set of nodes that no link leads out of.
Closed(nodes, links) == {s \in SUBSET nodes : \A e \in links : e[1] \in s => e[2] \in s}

\* The pairs of which the first leads to the second: no closed set parts them.
Reachable(nodes, links) ==
  LET closed == Closed(nodes, links) IN
  {p \in nodes \X nodes : \A s \in closed : p[1] \in s => p[2] \in s}

\* The classes of such a relation if it is an equivalence.
Classes(nodes, pairs) == {{e \in nodes : <<d, e>> \in pairs} : d \in nodes}

Reaches == Reachable(Docs, Links)
Both(links) == links \union {<<e[2], e[1]>> : e \in links}

(* Union-find and Tarjan agree with reachability, whatever the order of    *)
(* links: weak and strong components are the classes of the two relations, *)
(* the condensation has no cycle, and the bow-tie sorts documents by       *)
(* whether they reach the largest strong component or are reached by it.   *)
ComponentsAreExact ==
  Measured =>
    LET reaches == Reaches
        touches == Reachable(Docs, Both(Links))
        core    == GiantSCC IN
    /\ SCC = Classes(Docs, {p \in reaches : <<p[2], p[1]>> \in reaches})
    /\ WCC = Classes(Docs, touches)
    /\ \A c \in SCC : \A r \in CondAdj(Min(c)) : <<r, Min(c)>> \notin reaches
    /\ \A c \in SCC : Cardinality(c) <= Cardinality(core)
    /\ \A d \in Docs :
         LET to   == <<d, Min(core)>> \in reaches
             from == <<Min(core), d>> \in reaches IN
         report.bowtie[d] =
           CASE to /\ from   -> "core"
             [] to /\ ~from  -> "in"
             [] ~to /\ from  -> "out"
             [] ~to /\ ~from -> IF <<d, Min(core)>> \in touches THEN "tendril" ELSE "disconnected"

(* The low-link search finds the documents and links without which two     *)
(* connected documents no longer are, and no others: also at the root of a *)
(* search, with links in both directions, and in every component.          *)
CriticalIsExact ==
  Measured =>
    LET both    == Both(Links)
        touches == Reachable(Docs, both)
        Without(d) == Reachable(Docs \ {d}, {e \in both : d \notin {e[1], e[2]}}) IN
    /\ ab.aps = {d \in Docs : ~({p \in touches : d \notin {p[1], p[2]}} \subseteq Without(d))}
    /\ ab.bridges = {{e[1], e[2]} : e \in {f \in Links : f \notin Reachable(Docs, both \ Both({f}))}}

(* A trail visits every document of its weak component once, never goes    *)
(* back along a link that no cycle excuses, keeps a cycle together with    *)
(* its best page first, and starts from the best page as its root.         *)
TrailsAreTopological ==
  Done =>
    /\ Trailed = WCC
    /\ LET reaches == Reaches IN
       \A t \in trail.done :
         LET order == t.order IN
         /\ Len(order) = Cardinality(t.comp) /\ ToSet(order) = t.comp
         /\ \A d \in t.comp : rank[d] <= rank[t.root]
         /\ \A i, k \in DOMAIN order :
              i < k /\ <<order[k], order[i]>> \in reaches =>
                /\ <<order[i], order[k]>> \in reaches /\ rank[order[i]] >= rank[order[k]]
                /\ \A j \in i..k : {<<order[k], order[j]>>, <<order[j], order[k]>>} \subseteq reaches

(* The measures agree with each other and with their definitions: compact  *)
(* is one if all pairs are linked and zero if none is; the pairs with a    *)
(* path are those inside a weak component; Brandes' accumulation is the    *)
(* share of shortest paths through a document.                             *)
MeasuresAgree ==
  Measured /\ Size > 1 =>
    LET compact == report.compactness
        lengths == report.lengths
        Through(s, t, v) ==
          IF t \in DOMAIN bfs.dist[s] /\ v \in DOMAIN bfs.dist[s] /\ t \in DOMAIN bfs.dist[v]
          THEN IF bfs.dist[s][v] + bfs.dist[v][t] = bfs.dist[s][t]
               THEN (Scale * bfs.sigma[s][v] * bfs.sigma[v][t]) \div bfs.sigma[s][t] ELSE 0
          ELSE 0 IN
    /\ 0 <= compact.num /\ compact.num <= compact.den
    /\ compact.num = compact.den <=> Links = {p \in Docs \X Docs : p[1] # p[2]}
    /\ compact.num = 0 <=> Links = {}
    /\ (Links = {<<e[2], e[1]>> : e \in Links}) => report.stratum.num = 0
    /\ lengths.reachable =
         MapThenSumSet(LAMBDA c : Cardinality(c) * (Cardinality(c) - 1), WCC)
    /\ lengths.reachable > 0 =>
         /\ lengths.weighted >= lengths.reachable
         /\ lengths.weighted <= lengths.diameter * lengths.reachable
         /\ lengths.twiceMedian \in 2..(2 * lengths.diameter)
    /\ report.clustering.sum <= Scale * report.clustering.counted
    /\ \A v \in Docs : report.betweenness[v] =
         MapThenSumSet(LAMBDA p : Through(p[1], p[2], v),
                       {p \in (Docs \ {v}) \X (Docs \ {v}) : p[1] # p[2]})

(* A result that leaves something out says so: every unlinked pair with    *)
(* enough common neighbours is suggested unless a hub was passed over, and *)
(* every two components large enough have a gap unless the list is cut.    *)
CapsAreReported ==
  Measured =>
    LET links == report.links
        Common(p) == {c \in Docs : {p[1], p[2]} \subseteq Neighbours(c)} IN
    /\ \A p \in Docs \X Docs :
         p[1] < p[2] /\ ~Linked(p[1], p[2]) /\ Cardinality(Common(p)) >= config.minShared =>
           links.truncated \/ Suggestion(p[1], p[2]) \in links.suggestions
    /\ Cardinality(links.suggestions) <= MaxSuggestedLinks
    /\ Cardinality(report.gaps.gaps) <= MaxGaps
    /\ \A a, b \in WCC :
         /\ Min(a) < Min(b) /\ Cardinality(a) >= config.minGap /\ Cardinality(b) >= config.minGap
         /\ Cardinality(a) > 1 /\ Cardinality(b) > 1
         => report.gaps.truncated \/ <<Min(a), Min(b)>> \in report.gaps.gaps

(* A finding about the text of a link points at a link somebody wrote, and *)
(* taking the suggested text ends it, unless no text of the target says    *)
(* anything, or the text is a title that names its own file in front of a  *)
(* heading, of which only the heading is looked at.                        *)
ScentIsActionable ==
  Done =>
    \A f \in report.scent :
      /\ \E raw \in raws : raw.origin = f.source /\ raw.line = f.line /\ raw.text = f.text
      /\ LET cands == ScentCandidates(f.target[1], f.target[2])
             again == ScentScore(EffectiveAnchor(f.suggestion, f.target[1]), cands) IN
         Low(again.score) =>
           \/ Texts[f.suggestion].free \/ Tokens(f.suggestion) = {}
           \/ EffectiveAnchor(f.suggestion, f.target[1]) # f.suggestion

(* The hierarchy holds every document once, as a root or below one parent; *)
(* and a document that no root is above lies below a declared parent: only *)
(* front matter can close a cycle (hierarchy.go resolves one level).       *)
HierarchyCovers ==
  Done =>
    LET tree  == report.hierarchy
        below == Reachable(Docs, {p \in Docs \X Docs : p[2] \in tree.children[p[1]]}) IN
    /\ \A d \in Docs :
         Cardinality({p \in Docs : d \in tree.children[p]}) = IF d \in tree.roots THEN 0 ELSE 1
    /\ \A d \in Docs :
         \/ \E r \in tree.roots : <<r, d>> \in below
         \/ \E p \in Docs : <<p, d>> \in below /\ corpus[p].parent # <<>>

(* No two findings of one report contradict each other: what is suggested  *)
(* or missed as a link is none, a bridge is one, and no pair is two of the *)
(* three; a document has one structure finding at most, is not far and     *)
(* unreachable, and is above reproach as a root; whatever no root leads to *)
(* is reported or has opted out.                                           *)
AdviceIsConsistent ==
  Done =>
    LET Of(kinds)  == {f \in report.findings : f.kind \in kinds}
        DocsOf(kinds) == {f.doc : f \in Of(kinds)}
        Pairs(kind)   == {{f.doc, f.other} : f \in Of({kind})}
        linked == {{e[1], e[2]} : e \in Links}
        Tiers  == {"orphan", "under-linked", "dead-end"} IN
    /\ (Pairs("suggested-link") \union Pairs("knowledge-gap")) \intersect linked = {}
    /\ Pairs("bridge") \subseteq linked
    /\ Pairs("suggested-link") \intersect Pairs("knowledge-gap") = {}
    /\ \A d \in Docs : Cardinality({f \in Of(Tiers) : f.doc = d}) <= 1
    /\ DocsOf({"unreachable"}) \intersect DocsOf({"far-from-root", "orphan"}) = {}
    /\ DocsOf({"orphan"}) \intersect DocsOf({"articulation-point", "suggested-link", "bridge"}) = {}
    /\ RootSet \intersect DocsOf(Tiers \union {"unreachable", "far-from-root"}) = {}
    /\ ~Indeterminate =>
         \A d \in Docs \ Reached : corpus[d].optOut \/ d \in DocsOf({"unreachable", "orphan"})

Prompt(mode) == SelectFindings(report.findings, [mode |-> mode, kinds |-> {}])

(* What `check` fails for is in the default prompt, whatever emitExclude   *)
(* says (fixprompt.go, findings.go): the exit code counts kinds, a prompt  *)
(* goes by severity, and the two agree, with --strict, --okf and warnings  *)
(* for the structure of the graph.  Dead links are warnings that never     *)
(* fail.  A prompt owns up to all it leaves out, leaves out by exclusion   *)
(* before it counts, and keeps the best; a kind asked for comes in full.   *)
PromptKeepsTheGate ==
  Done =>
    LET all      == report.findings
        shown    == Prompt("default")
        advisory == {f \in all : f.severity = Info}
        capped   == {f \in all : f.kind \in {"suggested-link", "low-scent-anchor"}} IN
    /\ \A strict \in BOOLEAN :
         CheckExitCode(all, strict) = 1 <=>
           \E f \in shown.kept : \/ f.severity = Error
                                 \/ strict /\ f.severity = Warning /\ f.kind # "dead-link"
    /\ all \ advisory \subseteq shown.kept
    /\ Cardinality(all) = Cardinality(shown.kept) + shown.excluded + shown.omitted
    /\ \A f \in capped \ shown.kept : ~ExcludedAdvisory(f) =>
         ~\E g \in capped \intersect shown.kept : g.kind = f.kind /\ Outranks(f, g)
    /\ Prompt("errors").kept = {f \in all : f.severity = Error}
    /\ CheckExitCode(all, FALSE) = 1 <=> Prompt("errors").kept # {}
    /\ \A k \in ToSet(Kinds) :
         LET asked == SelectFindings(all, [mode |-> "kinds", kinds |-> {k}]) IN
         CountByKind(all, k) = Cardinality(asked.kept) + asked.excluded

(* Every loop of the analyses ends.                                        *)
Terminates == <>Done

(* The properties a run checks together, as one.                           *)

\* The graph and the hierarchy that is read off it.
GraphIsSound == GraphIsExact /\ HierarchyCovers

\* The two searches for structure agree with their definitions.
StructureIsExact == ComponentsAreExact /\ CriticalIsExact

\* The report does not contradict itself, what it asks for can be done, and it
\* owns up to what it leaves out.
AdviceIsSound == AdviceIsConsistent /\ ScentIsActionable /\ CapsAreReported
=============================================================================
