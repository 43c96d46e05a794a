----------------------------- MODULE MCAnalysis -----------------------------
(***************************************************************************)
(* Instances for Analysis: the link graphs over four documents in two      *)
(* directories; pairs of references chosen for the rules of the resolver;  *)
(* and sparse graphs over six documents, where caps are met.               *)
(***************************************************************************)
EXTENDS Analysis

Md(stem) == [stem |-> stem, ext |-> ".md"]

Section(slug, up, from, to, text) ==
  [slug |-> slug, up |-> up, from |-> from, to |-> to, text |-> text, level |-> 2]

Doc(id, path) ==
  [id |-> id, path |-> path, title |-> "", sections |-> <<>>, anchors |-> {},
   aliases |-> {}, parent |-> <<>>, front |-> "parsed", type |-> "text", optOut |-> FALSE]

\* In the order of their identities.
MCCorpus ==
  <<[Doc("README.md", <<Md("README")>>) EXCEPT
       !.sections = <<Section("matlatl", 0, 1, 20, "matlatl"),
                      Section("install", 1, 5, 10, "install guide")>>,
       !.anchors = {"install", "logo"}],
    [Doc("docs/README.md", <<Slash("docs"), Md("README")>>) EXCEPT !.title = "here"],
    [Doc("docs/guide.md", <<Slash("docs"), Md("guide")>>) EXCEPT
       !.sections = <<Section("guide", 0, 1, 30, "guide"), Section("", 1, 5, 9, ""),
                      Section("deep", 2, 6, 8, "deep dive")>>,
       !.aliases = {<<Slash("manual")>>, <<Slash("both")>>}],
    [Doc("guide.md", <<Md("guide")>>) EXCEPT !.aliases = {<<Slash("both")>>}]>>

\* The same with parents in front matter: two documents below each other, and
\* one below itself.
MCParents ==
  [MCCorpus EXCEPT ![2].parent = <<Md("guide")>>, ![4].parent = <<Md("guide")>>]

MCDecision ==
  <<Doc("README.md", <<Md("README")>>),
    [Doc("adr/0010-x.md", <<Slash("adr"), Md("0010-x")>>) EXCEPT !.title = "install guide"]>>

MCSix == [i \in 1..6 |-> Doc("guide.md", <<Md("abcdef" \o ToString(i))>>)]

Text(tokens) ==
  [tokens |-> tokens, free |-> FALSE, code |-> FALSE, pathlike |-> FALSE, date |-> FALSE,
   before |-> "", after |-> ""]

MCTexts ==
  [t \in {"", "matlatl", "install guide", "guide", "deep dive", "other"} |->
     Text(CASE t = "" -> {} [] t = "matlatl" -> {"matlatl"} [] t = "guide" -> {"guide"}
            [] t = "install guide" -> {"install", "guide"} [] t = "deep dive" -> {"deep", "dive"}
            [] t = "other" -> {"other"})]
  @@ [t \in {"README.md", "docs/README.md", "docs/guide.md", "guide.md", "adr/0010-x.md"} |->
       [Text({"md", t}) EXCEPT !.pathlike = TRUE]]
  @@ "here" :> [Text({"here"}) EXCEPT !.free = TRUE]
  @@ "code" :> [Text({"code"}) EXCEPT !.code = TRUE]
  @@ "guide.md S deep dive" :>
       [Text({"guide", "md", "deep", "dive"}) EXCEPT !.before = "guide", !.after = "deep dive"]
  @@ "0010-x.md S guide" :>
       [Text({"0010", "md", "guide", "one", "two", "three"}) EXCEPT
          !.before = "0010-x", !.after = "guide"]
  @@ "ADR 0010" :> Text({"adr", "0010"})
  @@ [t \in {"index.md", "log.md"} |-> Text({"md", t})]
  @@ "2026-01-01" :> [Text({"2026"}) EXCEPT !.date = TRUE]

\* The texts and slugs in the order of strings.
MCNames ==
  <<"", "0010-x.md S guide", "2026", "2026-01-01", "ADR 0010", "README.md",
    "adr/0010-x.md", "code", "deep", "deep dive", "docs/README.md",
    "docs/guide.md", "guide", "guide.md", "guide.md S deep dive", "here",
    "index.md", "install", "install guide", "log", "log.md", "matlatl", "other",
    "x">>

MCCollation == [t \in ToSet(MCNames) |-> CHOOSE i \in DOMAIN MCNames : MCNames[i] = t]

MCSegment ==
  [s \in {"README", "guide", "index", "log"} \union {"abcdef" \o ToString(i) : i \in 1..6} |-> ""]
    @@ "0010-x" :> "0010"

Raw(origin, type, target, line, text) ==
  [origin |-> origin, type |-> type, abs |-> FALSE, target |-> target, frag |-> "",
   line |-> line, text |-> text]

MCConfig ==
  [policy |-> "longest-suffix", contentRoots |-> {}, assets |-> {<<[stem |-> "a", ext |-> ".png"]>>},
   strictDirs |-> FALSE, minShared |-> 2, minGap |-> 2, roots |-> {}, inbound |-> 2, far |-> 2,
   structureWarns |-> FALSE, okf |-> FALSE, dead |-> {}, exclude |-> {3},
   navTypes |-> {"link", "wikilink", "anchor", "image", "transclusion", "related"}]

PathOf(docs, d) == docs[d].path

\* As RelTo, before there is a state.
Relative(docs, d, e) == [i \in DOMAIN Front(PathOf(docs, d)) |-> Up] \o PathOf(docs, e)

LinkRaws(docs, links) ==
  {Raw(e[1], "link", Relative(docs, e[1], e[2]), 2, "code") : e \in links}

\* At most four links, or nearly all twelve.
GraphInputs ==
  [corpora |-> {MCCorpus},
   raws    |-> {LinkRaws(MCCorpus, links) :
                  links \in {s \in SUBSET {p \in (1..4) \X (1..4) : p[1] # p[2]} :
                               Cardinality(s) \in (0..4) \union (11..12)}},
   configs |-> {MCConfig}]

SixInputs ==
  [corpora |-> {MCSix},
   raws    |-> {LinkRaws(MCSix, links) :
                  links \in SUBSET {<<1, 2>>, <<3, 4>>, <<5, 6>>, <<2, 4>>, <<2, 3>>, <<1, 4>>, <<4, 5>>}},
   configs |-> {MCConfig, [MCConfig EXCEPT !.minShared = 1, !.roots = {1},
                                   !.structureWarns = TRUE]}]

Here == <<>>
Specials ==
  {Raw(1, "wikilink", <<Slash("guide")>>, 3, "guide"),
   Raw(2, "wikilink", <<Slash("docs"), Slash("guide")>>, 3, "deep dive"),
   Raw(1, "wikilink", <<Slash("manual")>>, 6, "other"),
   Raw(2, "wikilink", <<Slash("both")>>, 3, "here"),
   Raw(4, "wikilink", <<Slash("docs")>>, 3, "other"),
   Raw(1, "link", <<Slash("docs")>>, 7, "other"),
   Raw(3, "link", <<Up>>, 7, "other"),
   Raw(3, "link", <<Up, Up, Md("README")>>, 7, "other"),
   [Raw(2, "link", <<Md("guide")>>, 2, "guide.md S deep dive") EXCEPT !.frag = "deep"],
   [Raw(1, "link", <<Slash("docs"), Md("guide")>>, 9, "other") EXCEPT !.frag = "deep"],
   [Raw(3, "link", <<Up, Md("README")>>, 6, "install guide") EXCEPT !.frag = "logo"],
   [Raw(4, "link", <<Md("README")>>, 3, "guide") EXCEPT !.frag = "gone"],
   [Raw(3, "link", <<Md("guide")>>, 8, "guide") EXCEPT !.abs = TRUE],
   [Raw(3, "link", <<Up, Md("README")>>, 8, "other") EXCEPT !.abs = TRUE],
   [Raw(2, "link", Here, 8, "other") EXCEPT !.abs = TRUE],
   [Raw(1, "anchor", Here, 7, "install guide") EXCEPT !.frag = "install"],
   Raw(1, "image", <<[stem |-> "a", ext |-> ".png"]>>, 3, ""),
   Raw(4, "related", <<Slash("docs"), Md("README")>>, 0, ""),
   Raw(2, "external", <<Slash("x")>>, 3, "other"),
   Raw(4, "link", <<Md("guide")>>, 4, "other")}

SpecialInputs ==
  [corpora |-> {MCCorpus, MCParents},
   raws    |-> {{a} : a \in Specials},
   configs |-> {[MCConfig EXCEPT !.policy = policy, !.strictDirs = strict,
                   !.contentRoots = IF strict THEN {<<Slash("docs")>>} ELSE {}] :
                  policy \in {"exact", "longest-suffix", "basename"}, strict \in BOOLEAN}]

PairInputs ==
  [corpora |-> {MCCorpus},
   raws    |-> {{a, b} : a, b \in Specials},
   configs |-> {[MCConfig EXCEPT !.contentRoots = {<<Slash("docs")>>}]}]

\* Two headings with one explicit ID, one of them in the other; and a title that
\* reads as a heading of its own file.
MCTwice ==
  [MCDecision EXCEPT
     ![2].title = "0010-x.md S guide",
     ![2].sections = <<Section("x", 0, 1, 9, "install guide"), Section("x", 1, 2, 5, "guide"),
                       Section("log", 2, 3, 4, "other")>>]

DecisionInputs ==
  [corpora |-> {MCDecision, MCTwice},
   raws    |-> {{Raw(1, "link", <<Slash("adr"), Md("0010-x")>>, 3, text) : text \in texts} :
                  texts \in {s \in SUBSET {"ADR 0010", "adr/0010-x.md", "other", "matlatl"} :
                                Cardinality(s) \in 1..2}},
   configs |-> {MCConfig}]

\* Reserved files, and a concept whose front matter is broken in some way.
MCBundle ==
  <<Doc("index.md", <<Md("index")>>),
    [Doc("log.md", <<Md("log")>>) EXCEPT
       !.sections = <<[Section("log", 0, 1, 9, "other") EXCEPT !.level = 1],
                      Section("2026", 1, 2, 4, "2026-01-01"), Section("x", 1, 5, 9, "other")>>],
    Doc("guide.md", <<Md("guide")>>),
    Doc("docs/guide.md", <<Slash("docs"), Md("index")>>)>>

Types(front) == IF front = "parsed" THEN {"none", "list", "blank", "text", "index"} ELSE {"none"}

BundleInputs ==
  [corpora |->
     {[MCBundle EXCEPT ![1].front = f[1], ![1].type = "none", ![2].sections = log,
                       ![3].front = f[2], ![3].type = f[3], ![3].optOut = out,
                       ![4].front = f[4], ![4].type = "none"] :
        f \in UNION {{"absent", "parsed", "unparseable"} \X {front} \X Types(front) \X
                     {"absent", "parsed"} : front \in {"absent", "parsed", "unparseable"}},
        log \in {<<>>, MCBundle[2].sections}, out \in BOOLEAN},
   raws    |-> {{Raw(1, "link", <<Md("log")>>, 2, "other"),
                 Raw(1, "external", <<Slash("x")>>, 3, "other")}},
   configs |-> {[MCConfig EXCEPT !.okf = TRUE, !.dead = {<<Slash("x")>>}],
                [MCConfig EXCEPT !.structureWarns = TRUE]}]

MCInputs ==
  {GraphInputs, SixInputs, SpecialInputs, PairInputs, DecisionInputs, BundleInputs}

MCWeight == 2 :> 1443 @@ 3 :> 910

\* Falling in the order of the documents; and one with ties.
MCRanks == {[d \in 1..6 |-> 7 - d], <<2, 1, 2, 3, 1, 3>>}
=============================================================================
