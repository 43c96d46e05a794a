------------------------------- MODULE Corpus -------------------------------
(***************************************************************************)
(* The frozen corpus: what the parser found, as the resolver and the       *)
(* analyses read it (internal/domain/corpus, internal/domain/identity).    *)
(*                                                                         *)
(* A document is its rank in the order of DocumentIDs.  A path is the      *)
(* sequence of its components, a component a stem and an extension; the    *)
(* root is the empty path and Up is "..".  The section tree is kept in     *)
(* document order, each section with the index of its parent (0 is Root).  *)
(* Texts are names, the identity of a document among them; "" is none.     *)
(***************************************************************************)
EXTENDS Integers, Sequences, FiniteSets, SequencesExt, FiniteSetsExt

VARIABLES
  corpus,  \* document -> what was parsed
  raws,    \* the raw references of all documents
  config   \* the settings of the run

Docs == DOMAIN corpus
Slash(p) == [stem |-> p, ext |-> ""]
Up == Slash("..")

Path(d) == corpus[d].path
Dir(p)  == Front(p)
Base(p) == Last(p)

\* Paths that name a document are never empty.
IsMarkdown(p) == Base(p).ext \in {".md", ".markdown", ".mdx"}
IsDirectoryIndex(c) == c.stem \in {"README", "index"} /\ c.ext = ".md"

\* path.Clean of a path that is not rooted.
Clean(p) ==
  LET upTo[i \in 0..Len(p)] ==
        IF i = 0 THEN <<>>
        ELSE LET q == upTo[i - 1] IN
             IF p[i] = Up /\ q # <<>> /\ q[Len(q)] # Up
             THEN SubSeq(q, 1, Len(q) - 1) ELSE Append(q, p[i])
  IN  upTo[Len(p)]

EscapesRoot(p) == p = <<>> \/ Head(p) = Up

\* A set of numbers, like the identities of documents, in their order.
Sorted(S) ==
  [i \in 1..Cardinality(S) |-> CHOOSE x \in S : Cardinality({y \in S : y < x}) = i - 1]

-----------------------------------------------------------------------------
Sections(d) == corpus[d].sections
Headings(d) == {Sections(d)[i].slug : i \in DOMAIN Sections(d)} \ {""}
HeadingTexts(d) ==
  LET written == {i \in DOMAIN Sections(d) : Sections(d)[i].text # ""} IN
  [k \in 1..Cardinality(written) |-> Sections(d)[Sorted(written)[k]].text]

\* Corpus.AnchorKind: a section takes precedence over a literal anchor.
AnchorKind(d, slug) ==
  IF slug \in Headings(d) THEN "section"
  ELSE IF slug \in corpus[d].anchors THEN "document"
  ELSE "none"

\* Corpus.LookupAlias: names and aliases are one table.
LookupAlias(target) == {d \in Docs : target \in corpus[d].aliases}

\* Document.Title: front matter, first heading, else the path.
Title(d) ==
  IF corpus[d].title # "" THEN corpus[d].title
  ELSE IF HeadingTexts(d) # <<>> THEN Head(HeadingTexts(d))
  ELSE corpus[d].id

\* Document.HeadingTextBySlug: the first section of that slug.
HeadingTextBySlug(d, slug) ==
  LET at == {i \in DOMAIN Sections(d) : Sections(d)[i].slug = slug} IN
  IF at = {} THEN "" ELSE Sections(d)[Min(at)].text
=============================================================================
